----------------------------- MODULE DaqGeometry -----------------------------
(***************************************************************************)
(* The sizes and the delay daqflex computes from the number of channels    *)
(* and the sampling rate before it talks to the device (daqflex.c, main).  *)
(***************************************************************************)
EXTENDS Integers

CONSTANTS
    Word,       \* 2^32: what an int and an unsigned int count to
    Scale       \* 100000: a tenth of the microseconds of a second

ASSUME WordAssumption == Word \in Nat \ {0} /\ Word % 2 = 0
ASSUME ScaleAssumption == Scale \in Nat \ {0}

\* The int and the unsigned int that hold the bits of n.
Signed(n) == ((n + Word \div 2) % Word) - Word \div 2
Unsigned(n) == n % Word

\* C rounds a quotient towards zero.
Quotient(n, d) == IF n >= 0 THEN n \div d ELSE -((-n) \div d)

\* points: about one second of samples, at least 128, a multiple of 128. An int:
\* a product it cannot hold wraps, and one that is negative then counts as none.
Points(channels, rate) ==
    LET product == Signed(channels * rate)
        asked == IF product < 128 THEN 128 ELSE product
    IN  Quotient(Signed(asked + 127), 128) * 128

\* buffer_size, an int: "2 bytes per point, and then double buffer".
BufferSize(channels, rate) == Signed(Points(channels, rate) * 2 * 2)

\* sample_times: num_channels is unsigned, so buffer_size is before it is divided.
SampleTimes(channels, rate) ==
    (Unsigned(BufferSize(channels, rate)) \div channels) \div 2

\* num_channels*rate*2, unsigned.
Divisor(channels, rate) == Unsigned(channels * rate * 2)

\* Division by zero: no channels, no rate, or a rate whose divisor wraps to zero.
DividesByZero(channels, rate) == channels = 0 \/ Divisor(channels, rate) = 0

\* Mutant: the division by twice the sampling rate is by half of it.
DelayTooLong(channels, rate) ==
    Unsigned(SampleTimes(channels, rate) * Scale)
        \div (Divisor(channels, rate) \div 4 + 1)

\* delay, in microseconds: the product is of two ints and wraps, and becomes
\* unsigned when it is divided.
Delay(channels, rate) ==
    Unsigned(SampleTimes(channels, rate) * Scale) \div Divisor(channels, rate)

\* numPoints/2, which libusb takes as the length of a transfer in bytes.
TransferBytes(channels, rate) == Unsigned(Points(channels, rate)) \div 2

-----------------------------------------------------------------------------
\* The requests the sizes are made for: a rate of at least one, and a second of
\* samples, rounded up, whose doubled buffer an int can hold. The product with
\* Scale may wrap all the same.
Representable(channels, rate) ==
    rate > 0 /\ 4 * (channels * rate + 127) < Word \div 2

\* A transfer is a whole number of 64-byte USB packets, the ring a whole number
\* of transfers, and the memory twice the ring (daqflex.c:202-204: "Minimum USB
\* transfer for this device is 64B ... So sample buffer must be multiple of 64B";
\* 217: "2 bytes per point, and then double buffer").
WholePackets(channels, rate) ==
    /\ TransferBytes(channels, rate) % 64 = 0
    /\ Points(channels, rate) * 2 = 4 * TransferBytes(channels, rate)
    /\ BufferSize(channels, rate) = 2 * (4 * TransferBytes(channels, rate))

\* The delay is at most two fifths of the time a quarter of the ring takes to
\* fill, also when the product wraps (daqflex.c:395-397: "Make sure to check
\* buffer often enough so that you do not lose data"). A quarter takes
\* (Points / 4) / (channels * rate) seconds of 10 * Scale microseconds.
PollsOftenEnough(channels, rate) ==
    5 * Delay(channels, rate) * (4 * channels * rate)
        <= 2 * Points(channels, rate) * (10 * Scale)

\* A line fits in half the ring, which DaqCapture assumes.
LineFits(channels, rate) == 2 * channels <= Points(channels, rate)
=============================================================================
