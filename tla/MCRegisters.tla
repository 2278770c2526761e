---------------------------- MODULE MCRegisters ----------------------------
(* Pairs of programs on a register they share, and one alone.               *)
EXTENDS Registers

J(program, core, on, rev) == [program |-> program, core |-> core, on |-> on, rev |-> rev]
None == J("none", -1, FALSE, "40")

\* Prefetch of all cores and of one at the same time, or with the kernel alone; flow control
\* on and off on every board; two toggles.
MCPairs ==
  {<<J("core2", 1, TRUE, "40"), J("tool", -1, FALSE, "40")>>,
   <<J("nhm", -1, TRUE, "40"), J("nhm", 1, FALSE, "40")>>,
   <<J("core2", -1, FALSE, "40"), None>>}
  \cup {<<J("rpirtscts", -1, TRUE, rev), J("rpirtscts", -1, FALSE, rev)>> : rev \in Revisions}
  \cup {<<J(t[1], -1, FALSE, "40"), J(t[2], -1, FALSE, "40")>> :
          t \in {<<"toggle_rts", "toggle_dtr">>, <<"toggle_dtr", "pulse_rts">>, <<"toggle_rts", "toggle_rts">>}}

MCCoreSets == {{0, 1, 2}}
=============================================================================
