------------------------------ MODULE DaqStream ------------------------------
(***************************************************************************)
(* What daqflex promises of a capture that keeps up: the samples of the    *)
(* device come out once each, in the order they were taken, dealt to the   *)
(* columns of the output in turn, with at most Capacity of them between    *)
(* the device and the output.                                              *)
(***************************************************************************)
EXTENDS Naturals, Sequences

CONSTANTS
    Capacity,       \* samples that may be stored and not yet written
    Columns         \* samples on one line of the output

VARIABLES
    stored,         \* samples the device has delivered: 1, 2, ..., stored
    written         \* the output so far

Init == stored = 0 /\ written = <<>>

\* The next sample is stored, where nothing still to be written is lost.
Store ==
    /\ stored < Len(written) + Capacity
    /\ stored' = stored + 1
    /\ UNCHANGED written

\* The oldest sample not yet written is written, in the next column.
Write ==
    /\ Len(written) < stored
    /\ written' = Append(written, [chan |-> Len(written) % Columns,
                                   sample |-> Len(written) + 1])
    /\ UNCHANGED stored

Next == Store \/ Write

Spec == Init /\ [][Next]_<<stored, written>>
=============================================================================
