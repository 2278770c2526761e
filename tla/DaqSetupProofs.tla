--------------------------- MODULE DaqSetupProofs ---------------------------
(***************************************************************************)
(* The sizes and the delay of daqflex for every number of channels and     *)
(* every rate, and the setup for any command lines, any devices on the bus *)
(* and any messages lost.                                                  *)
(***************************************************************************)
EXTENDS DaqSetup, SequenceTheorems, TLAPS

\* What an int can hold it holds as it is, and an unsigned int likewise.
LEMMA Held ==
    ASSUME NEW n \in Nat, n < Word \div 2
    PROVE  Signed(n) = n /\ Unsigned(n) = n /\ n < Word
<1> DEFINE half == Word \div 2
<1>1. half \in Nat /\ Word = 2 * half
  BY WordAssumption
<1>2. half + n < Word /\ n < Word /\ n + half = half + n
  BY <1>1
<1> HIDE DEF half
<1>3. (n + half) % Word = n + half /\ n % Word = n
  BY <1>1, <1>2, WordAssumption
<1>4. Signed(n) = ((n + half) % Word) - half
  BY DEF Signed, half
<1> QED
  BY <1>1, <1>2, <1>3, <1>4 DEF Unsigned

\* Points is a positive multiple of 128 that holds a second of samples, and an int
\* holds it, and four times it.
LEMMA PointsFacts ==
    ASSUME NEW c \in Nat \ {0}, NEW r \in Int, Representable(c, r)
    PROVE  /\ r \in Nat \ {0}
           /\ c * r \in Nat \ {0}
           /\ Points(c, r) \in Nat
           /\ Points(c, r) >= 128
           /\ Points(c, r) >= c * r
           /\ Points(c, r) % 128 = 0
           /\ 4 * Points(c, r) < Word \div 2
           /\ 4 * (c * r) < Word \div 2
<1> DEFINE product == Signed(c * r)
           asked == IF product < 128 THEN 128 ELSE product
           sum == Signed(asked + 127)
           blocks == Quotient(sum, 128)
           half == Word \div 2
<1>1. r \in Nat \ {0} /\ c * r \in Nat \ {0}
  BY DEF Representable
<1>2. half \in Nat /\ 4 * (c * r + 127) < half
  BY WordAssumption DEF Representable
<1>3. product = c * r
  <2>1. c * r < half
    BY <1>1, <1>2
  <2> QED BY <1>1, <2>1, Held
<1> HIDE DEF product
<1>4. asked \in Nat /\ asked >= 128 /\ asked >= c * r /\ 4 * (asked + 127) < half + 512
      /\ asked + 127 < half
  BY <1>1, <1>2, <1>3
<1>5. asked = 128 \/ asked = c * r
  BY <1>3
<1> HIDE DEF asked
<1>6. sum = asked + 127
  <2>1. asked + 127 \in Nat
    BY <1>4
  <2> HIDE DEF half
  <2>2. Signed(asked + 127) = asked + 127
    BY <1>4, <2>1, Held DEF half
  <2> QED BY <2>2
<1> HIDE DEF sum
<1>7. blocks \in Nat /\ blocks * 128 >= asked /\ blocks * 128 <= asked + 127
  <2>1. sum >= 0 /\ blocks = sum \div 128
    BY <1>4, <1>6 DEF Quotient
  <2> QED BY <1>4, <1>6, <2>1
<1>8. asked = 128 => blocks = 1
  <2> SUFFICES ASSUME asked = 128 PROVE blocks = 1
    OBVIOUS
  <2>1. sum = 255
    BY <1>6
  <2> QED BY <2>1 DEF Quotient
<1> HIDE DEF blocks
<1>9. (blocks * 128) % 128 = 0
  BY <1>7
<1>10. Points(c, r) = blocks * 128
  BY DEF Points, asked, blocks, sum, product
<1>11. 4 * (blocks * 128) < half
  <2>1. CASE asked = c * r
    BY <1>1, <1>2, <1>7, <2>1
  <2>2. CASE asked = 128
    BY <1>1, <1>2, <1>8, <2>2
  <2> QED BY <1>5, <2>1, <2>2
<1>12. 4 * (c * r) < half
  BY <1>1, <1>2
<1> HIDE DEF half
<1> QED
  <2> DEFINE p == blocks * 128
  <2>1. p \in Nat /\ p >= 128 /\ p >= c * r /\ p % 128 = 0 /\ 4 * p < half
    BY <1>1, <1>4, <1>7, <1>9, <1>11
  <2> HIDE DEF p
  <2>2. Points(c, r) = p
    BY <1>10 DEF p
  <2> QED BY <1>1, <1>12, <2>1, <2>2 DEF half

\* The doubled buffer is as large as it should be.
LEMMA BufferIs ==
    ASSUME NEW c \in Nat \ {0}, NEW r \in Int, Representable(c, r)
    PROVE  BufferSize(c, r) = 4 * Points(c, r) /\ Unsigned(BufferSize(c, r)) = 4 * Points(c, r)
<1> DEFINE p == Points(c, r)
<1>1. p \in Nat /\ 4 * p < Word \div 2
  BY PointsFacts
<1>2. BufferSize(c, r) = Signed(p * 2 * 2)
  BY DEF BufferSize
<1> HIDE DEF p
<1>3. p * 2 * 2 = 4 * p /\ 4 * p \in Nat
  BY <1>1
<1>4. Signed(4 * p) = 4 * p /\ Unsigned(4 * p) = 4 * p
  BY <1>1, <1>3, Held
<1>5. BufferSize(c, r) = 4 * p
  BY <1>2, <1>3, <1>4
<1> QED BY <1>4, <1>5 DEF p

\* The transfers read_usb asks for are whole packets that fill the ring exactly,
\* and the memory is twice the ring.
THEOREM TransfersAreWhole ==
    ASSUME NEW c \in Nat \ {0}, NEW r \in Int, Representable(c, r)
    PROVE  WholePackets(c, r)
<1> DEFINE p == Points(c, r)
           t == TransferBytes(c, r)
<1>1. p \in Nat /\ p % 128 = 0 /\ 4 * p < Word \div 2
  BY PointsFacts
<1>2. BufferSize(c, r) = 4 * p
  BY BufferIs
<1>3. t = Unsigned(p) \div 2
  BY DEF TransferBytes
<1> HIDE DEF p, t
<1>4. p < Word \div 2
  <2>1. Word \div 2 \in Nat
    BY WordAssumption
  <2> QED BY <1>1, <2>1
<1>5. Unsigned(p) = p
  BY <1>1, <1>4, Held
<1>6. t % 64 = 0 /\ p * 2 = 4 * t /\ 4 * p = 2 * (4 * t)
  BY <1>1, <1>3, <1>5
<1> QED
  BY <1>2, <1>6 DEF WholePackets, p, t

\* A quotient, and a remainder: what the wrapped product is no more than.
LEMMA DivBound ==
    ASSUME NEW a \in Nat, NEW b \in Nat \ {0}
    PROVE  a \div b \in Nat /\ (a \div b) * b <= a
  OBVIOUS

LEMMA ModBound ==
    ASSUME NEW a \in Nat, NEW b \in Nat \ {0}
    PROVE  a % b \in Nat /\ a % b <= a
  OBVIOUS

\* A line of samples fits in half the ring, at any rate for up to 64 channels
\* and for any number of channels from two samples a second on.
THEOREM LinesFit ==
    ASSUME NEW c \in Nat \ {0}, NEW r \in Int, Representable(c, r), c <= 64 \/ r >= 2
    PROVE  LineFits(c, r)
<1>1. Points(c, r) \in Nat /\ Points(c, r) >= 128 /\ Points(c, r) >= c * r
  BY PointsFacts
<1>2. r >= 2 => c * r >= 2 * c
  OBVIOUS
<1>3. c * r \in Nat
  BY PointsFacts
<1> QED
  BY <1>1, <1>2, <1>3 DEF LineFits

\* The delay never costs a sample by being long, also when the product with Scale
\* wraps: a wrapped product is a smaller one. The other sizes must not wrap.
THEOREM DelayIsShort ==
    ASSUME NEW c \in Nat \ {0}, NEW r \in Int, Representable(c, r)
    PROVE  PollsOftenEnough(c, r)
<1> DEFINE p == Points(c, r)
           s == SampleTimes(c, r)
           d == Delay(c, r)
           k == c * r
<1>1. p \in Nat /\ k \in Nat \ {0}
  BY PointsFacts
<1>2. s \in Nat /\ s * c * 2 <= p * 4
  <2> DEFINE e == (p * 4) \div c
  <2>1. e \in Nat /\ e * c <= p * 4
    BY SMTT(30), <1>1, DivBound
  <2>2. s = e \div 2
    <3>1. Unsigned(BufferSize(c, r)) = 4 * p
      BY BufferIs
    <3>2. s = (Unsigned(BufferSize(c, r)) \div c) \div 2
      BY DEF SampleTimes
    <3> HIDE DEF p, s
    <3>3. 4 * p = p * 4
      BY <1>1
    <3> QED BY <3>1, <3>2, <3>3
  <2> HIDE DEF e, s, p
  <2>3. s \in Nat /\ s * 2 <= e
    BY <2>1, <2>2
  <2>4. (s * 2) * c <= e * c
    BY <2>1, <2>3
  <2>5. s * c * 2 = (s * 2) * c
    BY <2>3
  <2> QED
    BY <2>1, <2>3, <2>4, <2>5, <1>1
<1>3. s <= p * 2
  <2> HIDE DEF s, p, k, d
  <2>1. s * c >= s
    BY <1>2
  <2>2. s * c <= p * 2
     BY <1>1, <1>2
  <2> QED
    BY <2>1, <2>2, <1>1, <1>2
<1>4. s * Scale \in Nat /\ s * Scale <= p * 2 * Scale
  <2> HIDE DEF s, p, k, d
  <2> QED
    BY <1>1, <1>2, <1>3, ScaleAssumption
<1>5. d \in Nat /\ d * (k * 2) <= s * Scale
  <2> DEFINE m == (s * Scale) % Word
  <2>1. m \in Nat /\ m <= s * Scale
    BY <1>4, ModBound, WordAssumption
  <2>2. d = m \div (k * 2)
    <3>1. Divisor(c, r) = Unsigned(k * 2)
      BY DEF Divisor
    <3>2. k * 2 < Word \div 2 /\ k * 2 \in Nat
      <4>1. k \in Nat /\ 4 * k < Word \div 2 /\ Word \div 2 \in Nat
        BY PointsFacts, WordAssumption
      <4> HIDE DEF k
      <4> QED BY <4>1
    <3>3. Unsigned(k * 2) = k * 2
      BY <3>2, Held
    <3>4. d = m \div Divisor(c, r)
      BY DEF Delay, Unsigned
    <3> QED BY <3>1, <3>3, <3>4
  <2> HIDE DEF m, s, p, k, d
  <2>3. k * 2 \in Nat \ {0}
    BY <1>1
  <2>4. d \in Nat /\ d * (k * 2) <= m
    BY <2>1, <2>2, <2>3, DivBound
  <2> QED
    BY <2>1, <2>3, <2>4, <1>4
<1>6. d * k <= p * Scale
  <2> HIDE DEF s, p, k, d
  <2>1. d * (k * 2) = 2 * (d * k) /\ p * 2 * Scale = 2 * (p * Scale) 
    BY <1>1, <1>5, ScaleAssumption
  <2>2. d * k \in Nat /\ p * Scale \in Nat
    BY <1>1, <1>5, ScaleAssumption
  <2>3. 2 * (d * k) <= 2 * (p * Scale)
    BY <1>4, <1>5, <2>1, <2>2
  <2> QED
    BY <2>2, <2>3
<1>7. 5 * d * (4 * k) = 20 * (d * k) /\ 2 * p * (10 * Scale) = 20 * (p * Scale)
  <2> HIDE DEF s, p, k, d
  <2> QED
    BY <1>1, <1>5, ScaleAssumption
<1>8. 4 * c * r = 4 * k
  BY PointsFacts
<1>9. d * k \in Nat /\ p * Scale \in Nat
  <2> HIDE DEF s, p, k, d
  <2> QED
    BY <1>1, <1>5, ScaleAssumption
<1>10. 5 * d * (4 * k) <= 2 * p * (10 * Scale)
  <2> HIDE DEF s, p, k, d
  <2> QED
    BY <1>6, <1>7, <1>9
<1> QED
  BY <1>8, <1>10 DEF PollsOftenEnough
-----------------------------------------------------------------------------
(* The script, message by message.                                         *)

Items == NamedItems \union NumberedItems
Subjects == Items \union {"scan", "res", "slope", "offset", "status"}
Values == Int \union {"stop", "start", "BLOCKIO", "SE", "DIFF", "BIP10V", "BIP5V", "default"}
MessageSet == [kind : {"set", "ask"}, item : Subjects, value : Values]

LEMMA CalibrationIs ==
  ASSUME NEW r \in Requests
  PROVE  /\ Calibration(r) \in Seq(MessageSet) /\ Len(Calibration(r)) = 2 * r.channels
         /\ \A n \in 1 .. 2 * r.channels :
              Calibration(r)[n] = Ask(IF n % 2 = 1 THEN "slope" ELSE "offset", (n - 1) \div 2)
<1>1. r.channels \in Nat
  BY RequestsAssumption
<1>2. \A n \in 1 .. 2 * r.channels :
         Ask(IF n % 2 = 1 THEN "slope" ELSE "offset", (n - 1) \div 2) \in MessageSet
  BY <1>1 DEF Ask, MessageSet, Subjects, Values
<1> QED BY <1>1, <1>2 DEF Calibration

LEMMA ConfigurationIs ==
  ASSUME NEW r \in Requests
  PROVE  Configuration(r) \in Seq(MessageSet) /\ Len(Configuration(r)) = 10
<1>1. r.channels \in Nat /\ r.rate \in Int /\ r.mode \in {"SE", "DIFF"}
  BY RequestsAssumption
<1>2. RangeOf(r.mode) \in {"BIP10V", "BIP5V"}
  BY DEF RangeOf
<1>3. /\ Set("scan", "stop") \in MessageSet /\ Ask("res", 0) \in MessageSet
      /\ Set("xfrmode", "BLOCKIO") \in MessageSet /\ Set("chmode", r.mode) \in MessageSet
      /\ Set("range", RangeOf(r.mode)) \in MessageSet /\ Set("lowchan", 0) \in MessageSet
      /\ Set("highchan", r.channels - 1) \in MessageSet /\ Set("rate", r.rate) \in MessageSet
      /\ Ask("rate", 0) \in MessageSet /\ Set("samples", 0) \in MessageSet
  BY <1>1, <1>2 DEF Set, Ask, MessageSet, Subjects, Items, NamedItems, NumberedItems, Values
<1> QED BY <1>3 DEF Configuration

LEMMA Join ==
  ASSUME NEW s \in Seq(MessageSet), NEW t \in Seq(MessageSet), NEW u, u = s \o t
  PROVE  /\ u \in Seq(MessageSet) /\ Len(u) = Len(s) + Len(t)
         /\ \A n \in 1 .. Len(s) : u[n] = s[n]
         /\ \A n \in 1 .. Len(t) : u[Len(s) + n] = t[n]
<1> DEFINE a == Len(s)
           b == Len(t)
<1>1. /\ u \in Seq(MessageSet) /\ Len(u) = a + b
      /\ \A n \in 1 .. a + b : u[n] = IF n <= a THEN s[n] ELSE t[n - a]
  BY ConcatProperties
<1>2. a \in Nat /\ b \in Nat
  OBVIOUS
<1> HIDE DEF a, b
<1>3. \A n \in 1 .. a : u[n] = s[n]
  BY <1>1, <1>2
<1>4. \A n \in 1 .. b : u[a + n] = t[n]
  BY <1>1, <1>2
<1> QED BY <1>1, <1>3, <1>4 DEF a, b

LEMMA ScriptIs ==
  ASSUME NEW r \in Requests
  PROVE  /\ Len(Script(r)) = 11 + 2 * r.channels /\ Len(Messages(r)) = 13 + 2 * r.channels
         /\ \A n \in 1 .. 10 : Messages(r)[n] = Configuration(r)[n]
         /\ \A n \in 1 .. 2 * r.channels : Messages(r)[10 + n] = Calibration(r)[n]
         /\ Messages(r)[11 + 2 * r.channels] = Set("scan", "start")
         /\ Messages(r)[12 + 2 * r.channels] = Set("scan", "stop")
         /\ Messages(r)[13 + 2 * r.channels] = Ask("status", 0)
<1> DEFINE conf == Configuration(r)
           calib == Calibration(r)
           start == << Set("scan", "start") >>
           c == r.channels
           both == conf \o calib
           script == Script(r)
           all == Messages(r)
<1>1. /\ conf \in Seq(MessageSet) /\ Len(conf) = 10
      /\ calib \in Seq(MessageSet) /\ Len(calib) = 2 * c /\ c \in Nat /\ 2 * c \in Nat
  BY ConfigurationIs, CalibrationIs, RequestsAssumption
<1>2. /\ start \in Seq(MessageSet) /\ Len(start) = 1 /\ start[1] = Set("scan", "start")
      /\ Shutdown \in Seq(MessageSet) /\ Len(Shutdown) = 2
      /\ Shutdown[1] = Set("scan", "stop") /\ Shutdown[2] = Ask("status", 0)
  BY DEF Shutdown, Set, Ask, MessageSet, Subjects, Values
<1>3. script = both \o start /\ all = script \o Shutdown
  BY DEF Script, Messages
<1>4. both = conf \o calib
  OBVIOUS
<1> HIDE DEF conf, calib, start, c, both, script, all
<1>5. /\ both \in Seq(MessageSet) /\ Len(both) = 10 + 2 * c
      /\ \A n \in 1 .. 10 : both[n] = conf[n]
      /\ \A n \in 1 .. 2 * c : both[10 + n] = calib[n]
  <2>1. /\ both \in Seq(MessageSet) /\ Len(both) = Len(conf) + Len(calib)
        /\ \A n \in 1 .. Len(conf) : both[n] = conf[n]
        /\ \A n \in 1 .. Len(calib) : both[Len(conf) + n] = calib[n]
    <3>1. conf \in Seq(MessageSet) /\ calib \in Seq(MessageSet)
      BY <1>1
    <3> QED BY <1>4, <3>1, Join
  <2> QED BY <1>1, <2>1
<1>6. /\ script \in Seq(MessageSet) /\ Len(script) = (10 + 2 * c) + 1
      /\ \A n \in 1 .. 10 + 2 * c : script[n] = both[n]
      /\ \A n \in 1 .. 1 : script[(10 + 2 * c) + n] = start[n]
  <2>1. /\ script \in Seq(MessageSet) /\ Len(script) = Len(both) + Len(start)
        /\ \A n \in 1 .. Len(both) : script[n] = both[n]
        /\ \A n \in 1 .. Len(start) : script[Len(both) + n] = start[n]
    <3>1. both \in Seq(MessageSet) /\ start \in Seq(MessageSet)
      BY <1>2, <1>5
    <3> QED BY <1>3, <3>1, Join
  <2> QED BY <1>2, <1>5, <2>1
<1>7. /\ all \in Seq(MessageSet) /\ Len(all) = (11 + 2 * c) + 2
      /\ \A n \in 1 .. 11 + 2 * c : all[n] = script[n]
      /\ \A n \in 1 .. 2 : all[(11 + 2 * c) + n] = Shutdown[n]
  <2>1. /\ all \in Seq(MessageSet) /\ Len(all) = Len(script) + Len(Shutdown)
        /\ \A n \in 1 .. Len(script) : all[n] = script[n]
        /\ \A n \in 1 .. Len(Shutdown) : all[Len(script) + n] = Shutdown[n]
    <3>1. script \in Seq(MessageSet) /\ Shutdown \in Seq(MessageSet)
      BY <1>2, <1>6
    <3> QED BY <1>3, <3>1, Join
  <2>2. Len(script) = 11 + 2 * c
    BY <1>1, <1>6
  <2> QED BY <1>2, <2>1, <2>2
<1>8. Len(script) = 11 + 2 * c /\ Len(all) = 13 + 2 * c
  BY <1>1, <1>6, <1>7
<1>9. \A n \in 1 .. 10 : all[n] = conf[n]
  BY SMTT(30), <1>1, <1>5, <1>6, <1>7
<1>10. \A n \in 1 .. 2 * c : all[10 + n] = calib[n]
  <2> TAKE n \in 1 .. 2 * c
  <2>1. 10 + n \in 1 .. 11 + 2 * c /\ 10 + n \in 1 .. 10 + 2 * c
    BY <1>1
  <2> QED BY <1>5, <1>6, <1>7, <2>1
<1>11. all[11 + 2 * c] = start[1]
  <2>1. 11 + 2 * c \in 1 .. 11 + 2 * c /\ 11 + 2 * c = (10 + 2 * c) + 1
    BY <1>1
  <2> QED BY <1>6, <1>7, <2>1
<1>12. all[12 + 2 * c] = Shutdown[1] /\ all[13 + 2 * c] = Shutdown[2]
  <2>1. 12 + 2 * c = (11 + 2 * c) + 1 /\ 13 + 2 * c = (11 + 2 * c) + 2
    BY <1>1
  <2> QED BY <1>7, <2>1
<1> QED BY <1>2, <1>8, <1>9, <1>10, <1>11, <1>12 DEF conf, calib, c, script, all

\* The message at each place: what it sets, that the range is set fifth, and the
\* questions about calibration in between.
LEMMA MessageAt ==
  ASSUME NEW r \in Requests, NEW n \in 1 .. Len(Messages(r))
  PROVE  /\ Messages(r)[n].kind = "set" =>
              Messages(r)[n] \in [kind : {"set"}, item : Items, value : Values]
                             \union [kind : {"set"}, item : {"scan"}, value : {"start", "stop"}]
         /\ Messages(r)[n].kind \in {"set", "ask"}
         /\ Messages(r)[n].kind = "ask" => Messages(r)[n].item # "scan"
         /\ Messages(r)[n].item = "range" <=> n = 5
         /\ Messages(r)[5] = Set("range", RangeOf(r.mode))
         /\ Messages(r)[n].item \in {"slope", "offset"} <=> n \in 11 .. 10 + 2 * r.channels
         /\ n \in 11 .. 10 + 2 * r.channels =>
              Messages(r)[n] = Ask(IF (n - 10) % 2 = 1 THEN "slope" ELSE "offset", (n - 11) \div 2)
<1> DEFINE m == Messages(r)[n]
<1>1. r.channels \in Nat /\ r.rate \in Int /\ RangeOf(r.mode) \in {"BIP10V", "BIP5V"} /\ r.mode \in {"SE", "DIFF"}
  BY RequestsAssumption DEF RangeOf
<1>2. n \in 1 .. 13 + 2 * r.channels
  BY ScriptIs
<1>3. Messages(r)[5] = Set("range", RangeOf(r.mode))
  BY ScriptIs DEF Configuration
<1> USE DEF Set, Ask, Items, NamedItems, NumberedItems, Values
<1>4. CASE n \in 1 .. 10
  <2>1. m = Configuration(r)[n]
    BY <1>4, ScriptIs
  <2>2. /\ m.kind = "set" => m \in [kind : {"set"}, item : Items, value : Values]
                             \union [kind : {"set"}, item : {"scan"}, value : {"start", "stop"}]
        /\ m.kind \in {"set", "ask"} /\ (m.kind = "ask" => m.item # "scan")
        /\ m.item = "range" <=> n = 5
        /\ m.item \notin {"slope", "offset"}
    BY <1>1, <1>4, <2>1 DEF Configuration
  <2> QED BY <1>1, <1>3, <1>4, <2>2
<1>5. CASE n \in 11 .. 10 + 2 * r.channels
  <2> DEFINE q == n - 10
  <2>1. q \in 1 .. 2 * r.channels /\ n = 10 + q /\ q - 1 = n - 11
    BY <1>1, <1>5
  <2> HIDE DEF q
  <2>2. m = Calibration(r)[q]
    BY <2>1, ScriptIs
  <2>3. m = Ask(IF q % 2 = 1 THEN "slope" ELSE "offset", (q - 1) \div 2)
    BY <2>1, <2>2, CalibrationIs
  <2>4. m = Ask(IF (n - 10) % 2 = 1 THEN "slope" ELSE "offset", (n - 11) \div 2)
    BY <2>1, <2>3 DEF q
  <2> QED BY <1>1, <1>3, <1>5, <2>4
<1>6. CASE n \in 11 + 2 * r.channels .. 13 + 2 * r.channels
  <2>1. n \in {11 + 2 * r.channels, 12 + 2 * r.channels, 13 + 2 * r.channels}
    <3> DEFINE c == r.channels
    <3>1. c \in Nat /\ n \in 11 + 2 * c .. 13 + 2 * c
      BY <1>1, <1>6
    <3> HIDE DEF c
    <3>2. n \in {11 + 2 * c, 12 + 2 * c, 13 + 2 * c}
      BY <3>1
    <3> QED BY <3>2 DEF c
  <2>2. m \in {Set("scan", "start"), Set("scan", "stop"), Ask("status", 0)}
    BY <2>1, ScriptIs
  <2> QED BY SMTT(30), <1>1, <1>3, <1>6, <2>2
<1> QED BY <1>1, <1>2, <1>4, <1>5, <1>6

-----------------------------------------------------------------------------
(* The invariant: the types, how far main is in the script, and what the    *)
(* messages that were sent have left in the device and in main.             *)

DeviceSet == [scan : {"earlier", "stopped", "ours"}, setting : [Items -> Values]]
DeviceOK == device \in DeviceSet /\ device.setting["range"] \in {"default", "BIP10V", "BIP5V"}

Placed ==
  /\ pc \notin {"geometry", "crash"} => request.channels # 0
  /\ pc \in {"geometry", "output", "find", "flush"} => next = 1
  /\ pc = "messages" => next <= 13 + 2 * request.channels
  /\ pc = "started" => next = 12 + 2 * request.channels
  /\ pc \in {"closing", "closed"} => next = 14 + 2 * request.channels

\* The place in the script of the question about a constant.
Position(what, c) == 10 + 2 * c + (IF what = "slope" THEN 1 ELSE 2)

RangeSent == next > 5 => range = RangeOf(request.mode)
Configured ==
  /\ next > 4 => device.setting["chmode"] = request.mode
  /\ next > 5 => device.setting["range"] = RangeOf(request.mode)
  /\ next > 6 => device.setting["lowchan"] = 0
  /\ next > 7 => device.setting["highchan"] = request.channels - 1
  /\ next > 8 => device.setting["rate"] = request.rate
  /\ next > 10 => device.setting["samples"] = 0
  /\ device.scan = "ours" => next = 12 + 2 * request.channels
Calibrated ==
  \A what \in {"slope", "offset"}, c \in 0 .. request.channels - 1 :
    next > Position(what, c) =>
      cal[<<what, c>>] = [item |-> what, value |-> c, range |-> RangeOf(request.mode)]

Typed == TypeOK /\ DeviceOK /\ Placed
Sent == RangeSent /\ (lost = 0 => Configured /\ Calibrated)

\* Calibration constants can be told apart by their place, and are all asked for.
LEMMA AskedIs ==
  ASSUME NEW r \in Requests, NEW n \in 11 .. 10 + 2 * r.channels
  PROVE  (n - 11) \div 2 \in 0 .. r.channels - 1
  BY RequestsAssumption

LEMMA PositionIs ==
  ASSUME NEW r \in Requests, NEW what \in {"slope", "offset"}, NEW c \in 0 .. r.channels - 1,
         NEW n \in 11 .. 10 + 2 * r.channels
  PROVE  /\ Position(what, c) \in 11 .. 10 + 2 * r.channels
         /\ n = Position(what, c) <=>
              what = (IF (n - 10) % 2 = 1 THEN "slope" ELSE "offset") /\ c = (n - 11) \div 2
<1>1. r.channels \in Nat
  BY RequestsAssumption
<1>2. CASE what = "slope"
  BY <1>1, <1>2 DEF Position
<1>3. CASE what = "offset"
  BY <1>1, <1>3 DEF Position
<1> QED BY <1>2, <1>3

LEMMA TypedInit == Init => Typed
<1> SUFFICES ASSUME Init PROVE Typed
  OBVIOUS
<1>1. /\ request \in Requests /\ request.channels \in Nat /\ request.rate \in Int
      /\ NumDevices \in Nat /\ QueueSize \in Nat /\ MaxLost \in Nat
  BY RequestsAssumption, LimitsAssumption DEF Init
<1>2. Len(Messages(request)) = 13 + 2 * request.channels
  BY <1>1, ScriptIs
<1>3. DeviceOK
  <2>1. PowerOn \in [Items -> Values] /\ PowerOn["range"] = "default"
    BY DEF PowerOn, Items, Values, NamedItems, NumberedItems
  <2>2. PICK scan \in {"earlier", "stopped"} : device = [scan |-> scan, setting |-> PowerOn]
    BY DEF Init
  <2> QED BY <2>1, <2>2 DEF DeviceOK, DeviceSet
<1>4. DOMAIN device.setting = DOMAIN PowerOn
  BY <1>3 DEF DeviceOK, DeviceSet, PowerOn, Items
<1>5. cal \in [{"slope", "offset"} \X (0 .. request.channels - 1) -> Text] /\ response \in Text
  BY DEF Init, Text
<1>6. TypeOK
  BY <1>1, <1>2, <1>3, <1>4, <1>5 DEF Init, TypeOK, DeviceOK, DeviceSet
<1>7. Placed
  BY DEF Init, Placed
<1> QED BY <1>3, <1>6, <1>7 DEF Typed

LEMMA SentInit == Init => Sent
<1> SUFFICES ASSUME Init PROVE Sent
  OBVIOUS
<1>1. next = 1 /\ device.scan # "ours" /\ request \in Requests /\ request.channels \in Nat
  BY RequestsAssumption DEF Init
<1>2. \A what \in {"slope", "offset"}, c \in 0 .. request.channels - 1 : ~(1 > Position(what, c))
  BY <1>1 DEF Position
<1> QED BY <1>1, <1>2 DEF Sent, RangeSent, Configured, Calibrated

\* What the device is after a message, taken or not.
LEMMA TakenIs ==
  ASSUME DeviceOK, request \in Requests, next \in 1 .. Len(Messages(request))
  PROVE  /\ Taken(Current) \in DeviceSet
         /\ Taken(Current).setting["range"] \in {"default", "BIP10V", "BIP5V"}
<1>1. /\ Current.kind = "set" =>
            Current \in [kind : {"set"}, item : Items, value : Values]
                       \union [kind : {"set"}, item : {"scan"}, value : {"start", "stop"}]
      /\ Current.kind \in {"set", "ask"} /\ (Current.kind = "ask" => Current.item # "scan")
      /\ Current.item = "range" => Current = Set("range", RangeOf(request.mode))
  BY MessageAt DEF Current
<1>2. RangeOf(request.mode) \in {"BIP10V", "BIP5V"}
  BY DEF RangeOf
<1> HIDE DEF Current
<1>3. CASE Current.kind = "ask"
  BY <1>1, <1>3 DEF Taken, DeviceOK
<1>4. CASE Current.kind = "set" /\ Current.item = "scan"
  BY <1>1, <1>4 DEF Taken, DeviceOK, DeviceSet, Items, NamedItems, NumberedItems
<1>5. CASE Current.kind = "set" /\ Current.item # "scan"
  <2>1. Taken(Current) = [device EXCEPT !.setting[Current.item] = Current.value]
    BY <1>5 DEF Taken
  <2>2. Current.item \in Items /\ Current.value \in Values
    BY <1>1, <1>5
  <2>3. Current.item = "range" => Current.value \in {"BIP10V", "BIP5V"}
    BY <1>1, <1>2 DEF Set
  <2> QED BY <1>5, <2>1, <2>2, <2>3 DEF DeviceOK, DeviceSet
<1> QED BY <1>1, <1>3, <1>4, <1>5

\* There is a message to send.
LEMMA MessagePlace ==
  ASSUME Typed, pc = "messages"
  PROVE  /\ request \in Requests /\ request.channels \in Nat \ {0}
         /\ Len(Messages(request)) = 13 + 2 * request.channels
         /\ Len(Script(request)) = 11 + 2 * request.channels
         /\ next \in 1 .. 13 + 2 * request.channels /\ next \in 1 .. Len(Messages(request))
<1>1. request \in Requests /\ request.channels \in Nat \ {0}
  BY RequestsAssumption DEF Typed, TypeOK, Placed
<1>2. /\ Len(Messages(request)) = 13 + 2 * request.channels
      /\ Len(Script(request)) = 11 + 2 * request.channels
  BY <1>1, ScriptIs
<1>3. next \in 1 .. 13 + 2 * request.channels
  BY <1>1, <1>2 DEF Typed, TypeOK, Placed
<1> QED BY <1>1, <1>2, <1>3

\* A message moves main on, whether it was lost or not.
LEMMA AfterMessageTyped ==
  ASSUME Typed, RangeSent, pc = "messages", AfterMessage, response' \in Text,
         device' \in {device, Taken(Current)}, lost' \in 0 .. MaxLost
  PROVE  Typed' /\ RangeSent'
<1>1. /\ request \in Requests /\ request.channels \in Nat \ {0}
      /\ Len(Messages(request)) = 13 + 2 * request.channels /\ next \in 1 .. 13 + 2 * request.channels
      /\ Len(Script(request)) = 11 + 2 * request.channels
  BY MessagePlace
<1>0. next \in 1 .. Len(Messages(request))
  BY <1>1
<1>2. DeviceOK'
  BY <1>0, <1>1, TakenIs DEF Typed, DeviceOK
<1>3. /\ Current.item = "range" <=> next = 5
      /\ next = 5 => Current.value = RangeOf(request.mode)
      /\ Calibrating => next \in 11 .. 10 + 2 * request.channels
      /\ Calibrating => Current = Ask(IF (next - 10) % 2 = 1 THEN "slope" ELSE "offset", (next - 11) \div 2)
  <2>1. Current.item = "range" <=> next = 5
    BY <1>0, <1>1, MessageAt DEF Current
  <2>2. Messages(request)[5] = Set("range", RangeOf(request.mode))
    BY <1>0, <1>1, MessageAt
  <2>3. Calibrating => next \in 11 .. 10 + 2 * request.channels
    BY <1>0, <1>1, MessageAt DEF Current, Calibrating
  <2>4. next \in 11 .. 10 + 2 * request.channels =>
           Current = Ask(IF (next - 10) % 2 = 1 THEN "slope" ELSE "offset", (next - 11) \div 2)
    BY <1>0, <1>1, MessageAt DEF Current
  <2>5. next = 5 => Current.value = RangeOf(request.mode)
    BY <2>2 DEF Current, Set
  <2> QED BY <2>1, <2>3, <2>4, <2>5
<1>4. range' \in {"none", "BIP10V", "BIP5V"} /\ RangeSent'
  <2>1. RangeOf(request.mode) \in {"BIP10V", "BIP5V"}
    BY DEF RangeOf
  <2> QED BY <1>1, <1>3, <2>1 DEF AfterMessage, RangeSent, Typed, TypeOK
<1>5. cal' \in [{"slope", "offset"} \X (0 .. request.channels - 1) -> Text]
  <2>1. CASE Calibrating
    <3>1. (next - 11) \div 2 \in 0 .. request.channels - 1
      BY <1>1, <1>3, <2>1, AskedIs
    <3>2. <<Current.item, Current.value>> \in {"slope", "offset"} \X (0 .. request.channels - 1)
      BY <1>3, <2>1, <3>1 DEF Ask
    <3> QED BY <2>1, <3>2 DEF AfterMessage, Typed, TypeOK
  <2>2. CASE ~Calibrating
    BY <2>2 DEF AfterMessage, Typed, TypeOK
  <2> QED BY <2>1, <2>2
<1>6. /\ UNCHANGED <<request, searchVars, queue>> /\ next' = next + 1
      /\ pc' = IF next = Len(Script(request)) THEN "started"
               ELSE IF next = Len(Messages(request)) THEN "closing" ELSE "messages"
  BY DEF AfterMessage
<1>7. Placed'
  <2>1. request' = request /\ request.channels # 0 /\ request.channels \in Nat
    BY <1>1, <1>6
  <2>2. CASE next = 11 + 2 * request.channels
    BY <1>1, <1>6, <2>1, <2>2 DEF Placed
  <2>3. CASE next = 13 + 2 * request.channels
    BY <1>0, <1>1, <1>6, <2>1, <2>3 DEF Placed
  <2>4. CASE next # 11 + 2 * request.channels /\ next # 13 + 2 * request.channels
    <3>1. pc' = "messages" /\ next' <= 13 + 2 * request.channels
      BY <1>1, <1>6, <2>1, <2>4
    <3> QED BY <2>1, <3>1 DEF Placed
  <2> QED BY <2>2, <2>3, <2>4
<1>8. DOMAIN device'.setting = DOMAIN PowerOn /\ device'.scan \in {"earlier", "stopped", "ours"}
  BY <1>2 DEF DeviceOK, DeviceSet, PowerOn, Items
<1>9. TypeOK'
  <2>1. request' = request /\ Len(Messages(request))' = 13 + 2 * request.channels
    BY <1>1, <1>6
  <2>2. next' \in 1 .. Len(Messages(request))' + 1
    BY <1>1, <1>6, <2>1
  <2>3. pc' \in {"started", "closing", "messages"}
    BY <1>6
  <2>4. UNCHANGED <<bus, i, opened, dev_handle, endpoint_in, queue>>
    BY <1>6 DEF searchVars
  <2> QED BY <1>4, <1>5, <1>8, <2>1, <2>2, <2>3, <2>4 DEF Typed, TypeOK
<1> QED BY <1>2, <1>4, <1>7, <1>9 DEF Typed

\* What an answered message adds to the settings...
LEMMA ConfiguredStep ==
  ASSUME Typed, Configured, MessageAnswered
  PROVE  Configured'
<1>1. /\ request \in Requests /\ request.channels \in Nat \ {0}
      /\ next \in 1 .. Len(Messages(request)) /\ next \in 1 .. 13 + 2 * request.channels
  BY MessagePlace DEF MessageAnswered
<1>2. request' = request /\ next' = next + 1 /\ device' = Taken(Current)
  BY DEF MessageAnswered, AfterMessage
<1>3. device \in DeviceSet
  BY DEF Typed, DeviceOK
<1>4. CASE next \in 1 .. 10
  <2>1. Current = Configuration(request)[next] /\ device.scan # "ours"
    <3>1. Current = Configuration(request)[next]
      BY <1>1, <1>4, ScriptIs DEF Current
    <3>2. device.scan # "ours"
      BY <1>1, <1>4 DEF Configured
    <3> QED BY <3>1, <3>2
  <2> HIDE DEF Current
  <2> USE DEF Configuration, Set, Ask, Taken, Configured, DeviceSet, Items, NamedItems, NumberedItems
  <2>2. ASSUME next \in {1, 2, 3, 4} PROVE Configured'
    <3>1. CASE next \in {1, 2, 3}
      <4>1. device'.scan # "ours"
        <5>1. CASE next = 1
          BY <1>2, <1>3, <2>1, <5>1
        <5>2. CASE next = 2
          BY <1>2, <1>3, <2>1, <5>2
        <5>3. CASE next = 3
          <6>1. device' = [device EXCEPT !.setting["xfrmode"] = "BLOCKIO"]
            BY <1>2, <2>1, <5>3
          <6> QED BY <1>3, <2>1, <6>1
        <5> QED BY <3>1, <5>1, <5>2, <5>3
      <4>2. next' \in {2, 3, 4}
        BY <1>2, <3>1
      <4> QED BY <4>1, <4>2 DEF Configured
    <3>2. CASE next = 4
      <4>1. device' = [device EXCEPT !.setting["chmode"] = request.mode]
        BY <1>2, <2>1, <3>2
      <4> QED BY <1>1, <1>2, <1>3, <2>1, <3>2, <4>1
    <3> QED BY <2>2, <3>1, <3>2
  <2>3. CASE next = 5
    BY <1>1, <1>2, <1>3, <2>1, <2>3
  <2>4. CASE next = 6
    BY <1>1, <1>2, <1>3, <2>1, <2>4
  <2>5. CASE next = 7
    BY <1>1, <1>2, <1>3, <2>1, <2>5
  <2>6. CASE next = 8
    BY <1>1, <1>2, <1>3, <2>1, <2>6
  <2>7. CASE next = 9
    BY <1>1, <1>2, <1>3, <2>1, <2>7
  <2>8. CASE next = 10
    BY <1>1, <1>2, <1>3, <2>1, <2>8
  <2>9. next \in {1, 2, 3, 4} \/ next = 5 \/ next = 6 \/ next = 7 \/ next = 8 \/ next = 9 \/ next = 10
    BY <1>4
  <2> QED BY <2>2, <2>3, <2>4, <2>5, <2>6, <2>7, <2>8, <2>9
<1>5. CASE next \in 11 .. 10 + 2 * request.channels
  <2>1. Current = Ask(IF (next - 10) % 2 = 1 THEN "slope" ELSE "offset", (next - 11) \div 2)
    BY <1>1, <1>5, MessageAt DEF Current
  <2>2. Taken(Current) = device
    BY <2>1 DEF Taken, Ask
  <2> QED BY <1>1, <1>2, <1>5, <2>2 DEF Configured
<1>6. CASE next \in 11 + 2 * request.channels .. 13 + 2 * request.channels
  <2>1. \/ next = 11 + 2 * request.channels /\ Current = Set("scan", "start")
        \/ next = 12 + 2 * request.channels /\ Current = Set("scan", "stop")
        \/ next = 13 + 2 * request.channels /\ Current = Ask("status", 0)
    <3>1. \/ next = 11 + 2 * request.channels
          \/ next = 12 + 2 * request.channels
          \/ next = 13 + 2 * request.channels
      BY <1>1, <1>6
    <3> QED BY <1>1, <3>1, ScriptIs DEF Current
  <2>2. /\ Current = Set("scan", "start") => Taken(Current) = [device EXCEPT !.scan = "ours"]
        /\ Current = Set("scan", "stop") => Taken(Current) = [device EXCEPT !.scan = "stopped"]
        /\ Current = Ask("status", 0) => Taken(Current) = device
    BY DEF Taken, Set, Ask
  <2>3. device'.setting = device.setting
    BY <1>2, <1>3, <2>1, <2>2 DEF DeviceSet
  <2>4. device'.scan = "ours" => next' = 12 + 2 * request.channels
    BY <1>1, <1>2, <1>3, <2>1, <2>2 DEF DeviceSet, Configured
  <2> QED BY <1>1, <1>2, <1>6, <2>3, <2>4 DEF Configured
<1> QED BY <1>1, <1>4, <1>5, <1>6

\* ... and to the constants.
LEMMA CalibratedStep ==
  ASSUME Typed, Configured, Calibrated, MessageAnswered
  PROVE  Calibrated'
<1>1. /\ request \in Requests /\ request.channels \in Nat \ {0}
      /\ next \in 1 .. Len(Messages(request)) /\ next \in 1 .. 13 + 2 * request.channels
  BY MessagePlace DEF MessageAnswered
<1>2. request' = request /\ next' = next + 1
  BY DEF MessageAnswered, AfterMessage
<1>3. SUFFICES ASSUME NEW what \in {"slope", "offset"}, NEW c \in 0 .. request.channels - 1,
                      next + 1 > Position(what, c)
               PROVE  cal'[<<what, c>>] =
                         [item |-> what, value |-> c, range |-> RangeOf(request.mode)]
  BY <1>2 DEF Calibrated
<1>4. Calibrating <=> next \in 11 .. 10 + 2 * request.channels
  BY <1>1, MessageAt DEF Current, Calibrating
<1>5. Position(what, c) \in 11 .. 10 + 2 * request.channels
  BY <1>1 DEF Position
<1>6. <<what, c>> \in DOMAIN cal
  BY DEF Typed, TypeOK
<1>7. CASE ~Calibrating
  <2>1. next > Position(what, c)
    BY <1>1, <1>3, <1>4, <1>5, <1>7
  <2> QED BY <1>7, <2>1 DEF MessageAnswered, AfterMessage, Calibrated
<1>8. CASE Calibrating
  <2>1. Current = Ask(IF (next - 10) % 2 = 1 THEN "slope" ELSE "offset", (next - 11) \div 2)
    BY <1>1, <1>4, <1>8, MessageAt DEF Current
  <2>2. cal' = [cal EXCEPT ![<<Current.item, Current.value>>] = Answer(Current)]
    BY <1>8 DEF MessageAnswered, AfterMessage
  <2>3. next = Position(what, c) <=> what = Current.item /\ c = Current.value
    BY <1>1, <1>4, <1>8, <2>1, PositionIs DEF Ask
  <2>4. CASE next = Position(what, c)
    <3>1. device.setting["range"] = RangeOf(request.mode)
      BY <1>1, <1>5, <2>4 DEF Configured
    <3> QED BY <1>6, <2>2, <2>3, <2>4, <3>1 DEF Answer
  <2>5. CASE next # Position(what, c)
    <3>1. next > Position(what, c)
      BY <1>1, <1>3, <1>5, <2>5
    <3>2. cal'[<<what, c>>] = cal[<<what, c>>]
      BY <1>6, <2>2, <2>3, <2>5
    <3> QED BY <3>1, <3>2 DEF Calibrated
  <2> QED BY <2>4, <2>5
<1> QED BY <1>7, <1>8

-----------------------------------------------------------------------------
\* The steps that send nothing.
Silent ==
  \/ ComputeSizes \/ OpenOutput
  \/ NotFound \/ SkipDevice \/ OpenDenied \/ ClaimRefused \/ ClaimDevice
  \/ FlushPacket \/ FlushEnds \/ MCCDevice_free
  \/ CaptureEnds \/ EarlierScan \/ UNCHANGED vars

LEMMA SilentKeeps == Silent => UNCHANGED <<request, talkVars, device>>
  BY DEF Silent, ComputeSizes, OpenOutput, NotFound, SkipDevice, OpenDenied, ClaimRefused, ClaimDevice,
         FlushPacket, FlushEnds, MCCDevice_free, CaptureEnds, EarlierScan, vars, searchVars, deviceVars

LEMMA SilentTyped ==
  ASSUME Typed, Silent
  PROVE  Typed'
<1>1. /\ NumDevices \in Nat /\ QueueSize \in Nat
      /\ request \in Requests /\ request.channels \in Nat /\ request.rate \in Int
      /\ Len(Messages(request)) = 13 + 2 * request.channels
  BY LimitsAssumption, RequestsAssumption, ScriptIs DEF Typed, TypeOK
<1>2. UNCHANGED <<request, talkVars, device>> /\ Len(Messages(request))' = Len(Messages(request))
  BY SilentKeeps
<1>3. DeviceOK'
  BY <1>2 DEF Typed, DeviceOK
<1>4. ASSUME UNCHANGED <<bus, i, opened, dev_handle, endpoint_in, queue>>, Placed',
             pc' \in {"geometry", "output", "find", "flush", "messages", "started",
                     "closing", "closed", "failed", "crash"}
      PROVE  Typed'
  BY <1>2, <1>3, <1>4 DEF Typed, TypeOK, talkVars
<1>5. ASSUME UNCHANGED <<pc, bus, endpoint_in, queue>>, i' \in 1 .. NumDevices + 1,
             opened' \subseteq 1 .. NumDevices, dev_handle' \in 0 .. NumDevices
      PROVE  Typed'
  BY <1>2, <1>3, <1>5 DEF Typed, TypeOK, Placed, talkVars
<1>6. ASSUME UNCHANGED <<pc, bus, i, opened, dev_handle, endpoint_in>>, queue' \in 0 .. QueueSize
      PROVE  Typed'
  BY <1>2, <1>3, <1>6 DEF Typed, TypeOK, Placed, talkVars
<1> USE DEF talkVars, deviceVars, searchVars
<1>7. CASE ComputeSizes
  BY <1>1, <1>2, <1>4, <1>7 DEF ComputeSizes, DividesByZero, Typed, Placed
<1>8. CASE OpenOutput
  BY <1>2, <1>4, <1>8 DEF OpenOutput, Typed, Placed
<1>9. CASE NotFound
  BY <1>2, <1>4, <1>9 DEF NotFound, Typed, Placed
<1>10. CASE SkipDevice
  BY <1>1, <1>5, <1>10 DEF SkipDevice, Typed, TypeOK
<1>11. CASE OpenDenied
  BY <1>2, <1>4, <1>11 DEF OpenDenied, Typed, Placed
<1>12. CASE ClaimRefused
  BY <1>1, <1>5, <1>12 DEF ClaimRefused, Typed, TypeOK
<1>13. CASE ClaimDevice
  <2>1. /\ pc' \in {"flush", "failed", "crash"} /\ endpoint_in' \in {"known", "garbage"}
        /\ i' \in 1 .. NumDevices + 1 /\ opened' \subseteq 1 .. NumDevices
        /\ dev_handle' \in 0 .. NumDevices /\ UNCHANGED <<bus, queue>>
    <3>1. pc' \in {"flush", "failed", "crash"} /\ endpoint_in' \in {"known", "garbage"}
      BY <1>13, Zenon DEF ClaimDevice
    <3>2. i <= NumDevices /\ i' = i + 1 /\ opened' = opened \union {i} /\ dev_handle' = i
      BY <1>13, Zenon DEF ClaimDevice
    <3>3. UNCHANGED <<bus, queue>>
      BY <1>13, Zenon DEF ClaimDevice, deviceVars
    <3>4. i \in 1 .. NumDevices + 1 /\ opened \subseteq 1 .. NumDevices /\ NumDevices \in Nat
      BY <1>1, LimitsAssumption DEF Typed, TypeOK
    <3>5. i \in 1 .. NumDevices /\ i' \in 1 .. NumDevices + 1
      BY <3>2, <3>4
    <3> QED BY <3>1, <3>2, <3>3, <3>4, <3>5
  <2>2. Placed'
    BY <1>2, <1>13, <2>1 DEF ClaimDevice, Typed, Placed
  <2> QED BY <1>2, <1>3, <2>1, <2>2 DEF Typed, TypeOK
<1>14. CASE FlushPacket
  BY <1>1, <1>6, <1>14 DEF FlushPacket, Typed, TypeOK
<1>15. CASE FlushEnds
  BY <1>1, <1>2, <1>4, <1>15 DEF FlushEnds, Typed, Placed
<1>16. CASE MCCDevice_free
  <2>1. Placed'
    BY <1>2, <1>16 DEF MCCDevice_free, Typed, Placed
  <2> QED BY <1>2, <1>3, <1>16, <2>1 DEF MCCDevice_free, Typed, TypeOK
<1>17. CASE CaptureEnds
  BY <1>1, <1>2, <1>4, <1>17 DEF CaptureEnds, Typed, Placed
<1>18. CASE EarlierScan
  BY <1>1, <1>6, <1>18 DEF EarlierScan, Typed, TypeOK
<1>19. CASE UNCHANGED vars
  BY <1>1, <1>6, <1>19 DEF vars, Typed, TypeOK
<1> QED
  BY <1>7, <1>8, <1>9, <1>10, <1>11, <1>12, <1>13, <1>14, <1>15, <1>16, <1>17, <1>18, <1>19 DEF Silent

LEMMA NextIs == [Next]_vars => Silent \/ MessageAnswered \/ MessageLost
  BY DEF Next, Setup, Ended, Silent

LEMMA InvariantNext == Typed /\ Sent /\ [Next]_vars => Typed' /\ Sent'
<1> SUFFICES ASSUME Typed, Sent, [Next]_vars PROVE Typed' /\ Sent'
  OBVIOUS
<1>1. CASE Silent
  <2>1. UNCHANGED <<request, next, cal, range, lost, device>>
    BY <1>1, SilentKeeps DEF talkVars
  <2> QED BY <1>1, <2>1, SilentTyped DEF Sent, RangeSent, Configured, Calibrated
<1>2. CASE MessageAnswered
  <2>1. pc = "messages" /\ device' = Taken(Current) /\ AfterMessage /\ lost' = lost
    BY <1>2 DEF MessageAnswered
  <2>2. response' \in Text
    <3>1. CASE Calibrating
      <4>1. /\ Current = Ask(IF (next - 10) % 2 = 1 THEN "slope" ELSE "offset", (next - 11) \div 2)
            /\ next \in 11 .. 10 + 2 * request.channels /\ request \in Requests
        BY <2>1, <3>1, MessagePlace, MessageAt DEF Current, Calibrating
      <4>2. (next - 11) \div 2 \in Nat
        BY <4>1, AskedIs, RequestsAssumption
      <4>3. Answer(Current) \in Text
        BY <4>1, <4>2 DEF Answer, Ask, Text, Typed, DeviceOK
      <4> QED BY <1>2, <3>1, <4>3 DEF MessageAnswered
    <3>2. CASE ~Calibrating
      BY <1>2, <3>2 DEF MessageAnswered, Typed, TypeOK
    <3> QED BY <3>1, <3>2
  <2>3. Typed' /\ RangeSent'
    BY <2>1, <2>2, AfterMessageTyped DEF Sent, Typed, TypeOK
  <2>4. lost' = 0 => Configured' /\ Calibrated'
    BY <1>2, <2>1, ConfiguredStep, CalibratedStep DEF Sent
  <2> QED BY <2>3, <2>4 DEF Sent
<1>3. CASE MessageLost
  <2>1. /\ pc = "messages" /\ device' \in {device, Taken(Current)} /\ AfterMessage
        /\ lost' \in 0 .. MaxLost /\ lost' # 0 /\ response' \in Text
    BY <1>3, LimitsAssumption DEF MessageLost, Typed, TypeOK
  <2>2. Typed' /\ RangeSent'
    BY <2>1, AfterMessageTyped DEF Sent
  <2> QED BY <2>1, <2>2 DEF Sent
<1> QED BY <1>1, <1>2, <1>3, NextIs

\* Whatever is on the bus and whatever is lost, every variable of the setup keeps its type: no
\* message is sent past the script, no constant put outside the arrays.
THEOREM SetupTypeCorrect == Spec => []TypeOK
<1>1. Typed => TypeOK
  BY DEF Typed
<1> QED BY <1>1, TypedInit, SentInit, InvariantNext, PTL DEF Spec

\* The sizes fit for every command line whose sizes the ints can hold, but more than 64 channels
\* at one sample a second, of which the smallest ring holds no two lines.
THEOREM SizesAlwaysFit ==
  ASSUME \A r \in Requests : r.channels <= 64 \/ r.rate # 1
  PROVE  Spec => []SizesFit
<1>1. Typed => SizesFit
  <2> SUFFICES ASSUME Typed, pc \notin {"geometry", "crash"},
                      Representable(request.channels, request.rate)
               PROVE  /\ WholePackets(request.channels, request.rate)
                      /\ PollsOftenEnough(request.channels, request.rate)
                      /\ LineFits(request.channels, request.rate)
    BY DEF SizesFit
  <2>1. request.channels \in Nat \ {0} /\ request.rate \in Int /\ request.rate > 0
    BY RequestsAssumption DEF Typed, TypeOK, Placed, Representable
  <2>2. request.channels <= 64 \/ request.rate >= 2
    BY <2>1 DEF Typed, TypeOK
  <2> QED BY <2>1, <2>2, TransfersAreWhole, DelayIsShort, LinesFit
<1> QED BY <1>1, TypedInit, SentInit, InvariantNext, PTL DEF Spec

\* A device that scans for this run has the settings that were asked for and the range the
\* samples are scaled with, unless a message was lost (daqflex.c, main).
THEOREM ScanHasItsSettings == Spec => []ScanIsAsRequested
<1>1. Typed /\ Sent => ScanIsAsRequested
  <2> SUFFICES ASSUME Typed, Sent, device.scan = "ours", lost = 0
               PROVE  /\ next > Len(Script(request)) /\ pc # "closed"
                      /\ device.setting["range"] = range
                      /\ device.setting["chmode"] = request.mode
                      /\ device.setting["rate"] = request.rate
                      /\ device.setting["lowchan"] = 0
                      /\ device.setting["highchan"] = request.channels - 1
                      /\ device.setting["samples"] = 0
    BY DEF ScanIsAsRequested
  <2>1. request \in Requests /\ request.channels \in Nat /\ Len(Script(request)) = 11 + 2 * request.channels
    BY RequestsAssumption, ScriptIs DEF Typed, TypeOK
  <2>2. next = 12 + 2 * request.channels
    BY DEF Sent, Configured
  <2>3. pc # "closed" /\ next > 10 /\ next > 11 + 2 * request.channels
    BY <2>1, <2>2 DEF Typed, Placed
  <2> QED BY <2>1, <2>3 DEF Sent, RangeSent, Configured
<1> QED BY <1>1, TypedInit, SentInit, InvariantNext, PTL DEF Spec

\* When no message was lost, the capture starts with every constant read from the answer about
\* its own channel, for the range in use (daqflex.c:27, 44-45).
THEOREM ConstantsAreTheirOwn == Spec => []CalibrationIsOwnIfAnswered
<1>1. Typed /\ Sent => CalibrationIsOwnIfAnswered
  <2> SUFFICES ASSUME Typed, Sent, lost = 0, pc = "started",
                      NEW what \in {"slope", "offset"}, NEW c \in 0 .. request.channels - 1
               PROVE  cal[<<what, c>>] = [item |-> what, value |-> c, range |-> range]
    BY DEF CalibrationIsOwnIfAnswered, CalibrationIsOwn
  <2>1. request.channels \in Nat /\ next = 12 + 2 * request.channels
    BY RequestsAssumption DEF Typed, TypeOK, Placed
  <2>2. next > Position(what, c) /\ next > 5
    BY <2>1 DEF Position
  <2> QED BY <2>2 DEF Sent, RangeSent, Calibrated
<1> QED BY <1>1, TypedInit, SentInit, InvariantNext, PTL DEF Spec
=============================================================================
