------------------------------ MODULE MCTraces ------------------------------
(* Captures in which two traces may end.                                    *)
EXTENDS Traces

MCTools == {"binary", "watts", "ddr3", "ddr4"}
\* All levels among the first lines, then the two that matter to a trace.
MCLevels == [n \in 1..MaxLines |-> IF n <= 3 THEN {-2, 1, 2} ELSE {-2, 2}]
=============================================================================
