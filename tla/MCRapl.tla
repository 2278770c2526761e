------------------------------- MODULE MCRapl -------------------------------
(* Machines for rapl-read, rapl-plot and apm-read.                          *)
EXTENDS Rapl, TLC

MCPrograms == {"rapl-read", "rapl-plot", "apm-read"}

Desktop ==
  [packages |-> [c \in 0..1 |-> 0], model |-> "skylake",
   zones |-> {"pkg", "cores", "gpu", "ram"}, readable |-> TRUE,
   events |-> {"pkg", "cores", "gpu", "ram"}, allowed |-> TRUE,
   msr |-> "ok", registers |-> Domains, apm |-> FALSE]

\* Two packages of two cores.
Server ==
  [Desktop EXCEPT !.packages = [c \in 0..3 |-> c \div 2], !.model = "haswell-ep",
                  !.zones = {"pkg", "ram"}, !.events = {"pkg", "ram"},
                  !.registers = {"pkg", "ram", "cores"}]

\* One package that is not number zero, two with a hole between them, one off line, identities
\* behind package_map, an old kernel, a user without rights, models without the registers of the others.
MCMachines ==
  {Desktop, Server,
   [Desktop EXCEPT !.packages = [c \in 0..1 |-> 1], !.events = Domains, !.zones = {}],
   [Server EXCEPT !.packages = [c \in 0..1 |-> 2 * c]],
   [Server EXCEPT !.packages = [c \in 0..1 |-> 16 * c], !.readable = FALSE],
   [Desktop EXCEPT !.packages = [c \in 0..0 |-> 16]],
   [Server EXCEPT !.packages = (0 :> 0) @@ (1 :> -1) @@ (2 :> 1), !.events = {}],
   [Desktop EXCEPT !.model = "unknown", !.zones = {}, !.allowed = FALSE],
   [Desktop EXCEPT !.model = "knights", !.zones = {}, !.readable = FALSE],
   [Desktop EXCEPT !.model = "bridge", !.registers = {"pkg", "cores", "gpu"}, !.events = {}],
   [Desktop EXCEPT !.model = "amd", !.registers = {"pkg", "cores", "acc"}, !.readable = FALSE, !.apm = TRUE],
   [Desktop EXCEPT !.model = "amd", !.registers = Apm, !.zones = {}, !.apm = TRUE],
   [Desktop EXCEPT !.model = "amd", !.registers = {}, !.zones = {}, !.events = {}],
   [Desktop EXCEPT !.model = "haswell", !.msr = "EIO"],
   [Server EXCEPT !.model = "bridge-ep", !.msr = "EACCES", !.zones = {}]}

MCFirst == [d \in Domains |-> CASE d \in {"cores", "ram"} -> 0 [] d \in {"gpu", "psys"} -> 1 [] OTHER -> 2]
=============================================================================
