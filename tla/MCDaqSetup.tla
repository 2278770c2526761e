----------------------------- MODULE MCDaqSetup -----------------------------
(***************************************************************************)
(* Command lines for DaqSetup: no channel, one and several; a rate below   *)
(* zero, of zero, one the smallest ring holds, one whose delay wraps the   *)
(* small word, and rates whose buffer (50000), number of points (90000)    *)
(* and divisor (131072) wrap it.                                           *)
(***************************************************************************)
EXTENDS DaqSetup

MCRequests ==
    [channels : {0, 1, 3}, rate : {-1, 0, 1, 100, 1000, 50000, 90000, 131072},
     mode : {"SE", "DIFF"}]

MCOneRequest == {[channels |-> 2, rate |-> 100, mode |-> "DIFF"]}
=============================================================================
