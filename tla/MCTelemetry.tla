------------------------------ MODULE MCTelemetry ------------------------------
(***************************************************************************)
(* Machines and readings for TLC: a usual machine of each kind and those   *)
(* that differ from it in one thing; readings that differ from a usual one *)
(* in one failure, and readings at each side of every threshold and clamp. *)
(***************************************************************************)
EXTENDS Telemetry

\* A chip whose inputs are plain up to `plain', absent up to `labelled', its only label.
Chip(cpu, plain, labelled) ==
  [cpu |-> cpu,
   inputs |-> [i \in Inputs |-> IF i = labelled THEN "labelled"
                               ELSE IF i <= plain THEN "plain" ELSE "absent"]]

Drive == Chip(FALSE, 1, 0)
Layouts == {<<>>, <<Drive>>, <<Drive, Chip(TRUE, 1, 2)>>, <<Chip(TRUE, 0, 3), Drive>>}

WindowsMachine ==
  [os |-> "windows", vendor |-> "amd", counters |-> {"power", "clock", "load"},
   gpu |-> "device", exports |-> Entries, layouts |-> {<<>>}]

MCMachines ==
  {WindowsMachine,
   [WindowsMachine EXCEPT !.vendor = "intel", !.counters = {"clock", "load"}],
   [WindowsMachine EXCEPT !.vendor = "other", !.gpu = "absent", !.counters = {}],
   [WindowsMachine EXCEPT !.gpu = "empty"],
   [WindowsMachine EXCEPT !.exports = Entries \ {"shutdown", "power"}],
   [WindowsMachine EXCEPT !.os = "linux", !.layouts = Layouts]}

Usual ==
  [pdh_power |-> 65499, pdh_clock |-> 4200, pdh_load |-> 355,
   gpu_temp |-> 61, gpu_power |-> 120500, gpu_clock |-> 2100, gpu_load |-> 97,
   die |-> 452, components |-> {481, 505}, cpu_milli |-> 56999, other_milli |-> 33000,
   load |-> 12, power |-> 44, khz |-> 3999999, cpus |-> <<3600, 3601, 3700>>]

\* Every query at a value of its own kind that is at, or beyond, a boundary.
Low ==
  [Usual EXCEPT !.pdh_power = 0, !.pdh_clock = 100, !.pdh_load = 0, !.gpu_temp = 0,
                !.gpu_power = 0, !.gpu_clock = 0, !.gpu_load = 0, !.die = 7,
                !.components = {}, !.cpu_milli = -500, !.khz = 0, !.cpus = <<>>]
AboveLow ==
  [Usual EXCEPT !.pdh_power = 499, !.pdh_clock = 101, !.pdh_load = 4, !.gpu_power = 1,
                !.gpu_clock = 1, !.gpu_load = 1, !.die = 8, !.components = {4}, !.cpu_milli = 999]
High ==
  [Usual EXCEPT !.pdh_power = 65535499, !.pdh_clock = 65535, !.pdh_load = 1000,
                !.gpu_temp = 255, !.gpu_power = 65534500, !.gpu_clock = 65535,
                !.gpu_load = 100, !.die = 1000, !.cpu_milli = 255999, !.khz = 65535999]
AboveHigh ==
  [Usual EXCEPT !.pdh_power = 65536000, !.pdh_clock = 65536, !.pdh_load = 1500,
                !.gpu_temp = 256, !.gpu_power = 65536000, !.gpu_clock = 70000,
                !.gpu_load = 101, !.die = 1001, !.components = {2600}, !.cpu_milli = 256000,
                !.khz = 65536000, !.cpus = <<70000>>]

Without(queries_) == [q \in DOMAIN Usual |-> IF q \in queries_ THEN Failed ELSE Usual[q]]

\* A source that fails altogether is not in `up'; here single queries of each do.
MCReadings ==
  {Usual, Low, AboveLow, High, AboveHigh,
   Without({"pdh_power", "gpu_temp", "die", "cpu_milli"}),
   Without({"pdh_clock", "gpu_power", "khz"}),
   Without({"pdh_load", "gpu_clock"}),
   Without({"gpu_load"})}
=============================================================================
