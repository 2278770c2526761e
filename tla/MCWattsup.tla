----------------------------- MODULE MCWattsup -----------------------------
(* Command lines for the drivers of the meter.                             *)
EXTENDS Wattsup

MCPrograms == {"wattsup", "wattsup-better", "wattsup-simple"}

\* Log for ever as the count is below zero (wattsup-simple: as there is none), log two records,
\* show and set, set only, and bad values.
Lines ==
  {[NoOptions EXCEPT !.count = -2],
   [NoOptions EXCEPT !.count = 2, !.final = TRUE, !.mode = "valued"],
   [NoOptions EXCEPT !.all = TRUE, !.noData = TRUE, !.interval = "valued"],
   [NoOptions EXCEPT !.header = TRUE, !.user = "valued", !.setOnly = TRUE, !.noData = TRUE],
   [NoOptions EXCEPT !.interval = "bare"],
   [NoOptions EXCEPT !.badCount = TRUE]}
MCRequests == [p \in MCPrograms |-> IF p = "wattsup-simple" THEN {NoOptions} ELSE Lines]
=============================================================================
