------------------------------- MODULE Telemetry -------------------------------
(***************************************************************************)
(* SystemTelemetry of src/monitor/mod.rs over its monitors: a process that *)
(* creates them, samples, and drops them or is killed; the next process    *)
(* starts over.  The load and the power of the base monitors are those of  *)
(* CpuLoad and CpuPower, any value here.                                   *)
(***************************************************************************)
EXTENDS WindowsPdh, WindowsNvml, WindowsPawnIo, LinuxSensors

CONSTANTS
  Machines,   \* what does not change while the program runs
  Readings    \* what the hardware may report to one sample

ASSUME TelemetryAssumption ==
  /\ Machines \subseteq
       [os : {"linux", "windows"}, vendor : {"amd", "intel", "other"},
        counters : SUBSET Counters, gpu : {"absent", "empty", "device"},
        exports : SUBSET Entries, layouts : SUBSET Seq(Chips)]
  /\ Readings # {}
  /\ Readings \subseteq
       [pdh_power : Int, pdh_clock : Int, pdh_load : Int,
        gpu_temp : Int, gpu_power : Int, gpu_clock : Int, gpu_load : Int,
        die : Int, components : SUBSET Int, cpu_milli : Int, other_milli : Int,
        load : 0 .. 100, power : 0 .. MaxWord, khz : Nat \cup {Failed}, cpus : Seq(Nat)]
  /\ \A raw \in Readings : IsFiniteSet(raw.components)

VARIABLES
  machine,   \* the machine, one of Machines
  process,   \* "gone", "sampling", or "dropped": the monitors were dropped
  up,        \* which of "pdh" and "gpu" answer queries
  sampled,   \* history: this process has sampled
  hw,        \* history: what the hardware reported to the last sample
  metrics    \* the HardwareMetrics of the last sample

monitorVars == <<pdhVars, nvmlVars, pawnVars, linuxVars>>
vars == <<monitorVars, machine, process, up, sampled, hw, metrics>>

Windows == machine.os = "windows"

Fields == {"cpu_temp", "cpu_load", "cpu_power_watts", "cpu_clock_mhz",
           "gpu_temp", "gpu_load", "gpu_power_watts", "gpu_clock_mhz"}
NoMetrics == [f \in Fields |-> 0]
NoReading == CHOOSE raw \in Readings : TRUE    \* the value of hw before a sample

Init ==
  /\ machine \in Machines
  /\ process = "gone"
  /\ PdhNone /\ NvmlNone /\ PawnNone
  /\ driver \in IF Windows THEN {"absent", "refusing", "ready"} ELSE {"absent"}
  /\ direct_sensor_path = NoPath /\ hwmon \in machine.layouts /\ renumbered = FALSE
  /\ up \in SUBSET {"pdh", "gpu"}
  /\ sampled = FALSE
  /\ hw = NoReading
  /\ metrics = NoMetrics

-----------------------------------------------------------------------------
(* The process *)

\* SystemTelemetry::new
New ==
  /\ process = "gone"
  /\ process' = "sampling"
  /\ IF Windows
       THEN /\ PdhNew(machine.counters, "pdh" \in up)
            /\ NvmlNew(machine.gpu, machine.exports)
            /\ PawnNew(machine.vendor)
            /\ UNCHANGED linuxVars
       ELSE LinuxNew /\ UNCHANGED <<pdhVars, nvmlVars, pawnVars>>
  /\ UNCHANGED <<machine, up, sampled, hw, metrics>>

\* The answers of the base monitors, which are asked on every platform.
Base(raw) ==
  [temp  |-> IF Windows THEN BestTemp(raw.components) ELSE LinuxTemp(raw),
   load  |-> raw.load,
   power |-> IF Windows THEN 0 ELSE raw.power,
   clock |-> IF Windows THEN AverageFreq(raw.cpus) ELSE LinuxFreq(raw)]

\* The rounding of a PDH load, in tenths of a percent.
Whole(load) == IF load = None THEN None ELSE Rounded(load, 10)

Merged_WrongBase(pdh, nvml, temp, base) ==
  [cpu_temp        |-> Or(temp, base.temp),
   cpu_load        |-> Or(Whole(pdh.load), base.load),
   cpu_power_watts |-> Or(pdh.power, base.power),
   cpu_clock_mhz   |-> Or(pdh.clock, base.power),
   gpu_temp        |-> Or(nvml.temp, 0),
   gpu_load        |-> Or(nvml.load, 0),
   gpu_power_watts |-> Or(nvml.power, 0),
   gpu_clock_mhz   |-> Or(nvml.clock, 0)]
\* HardwareMetrics from the four sources; outside Windows the first three are None.
Merged(pdh, nvml, temp, base) ==
  [cpu_temp        |-> Or(temp, base.temp),
   cpu_load        |-> Or(Whole(pdh.load), base.load),
   cpu_power_watts |-> Or(pdh.power, base.power),
   cpu_clock_mhz   |-> Or(pdh.clock, base.clock),
   gpu_temp        |-> Or(nvml.temp, 0),
   gpu_load        |-> Or(nvml.load, 0),
   gpu_power_watts |-> Or(nvml.power, 0),
   gpu_clock_mhz   |-> Or(nvml.clock, 0)]

\* SystemTelemetry::sample
Sample ==
  /\ process = "sampling"
  /\ \E raw \in Readings :
       /\ hw' = raw
       /\ IF Windows
            THEN /\ PdhSample("pdh" \in up, raw)
                 /\ NvmlSample("gpu" \in up, raw)
                 /\ PawnTemp(machine.vendor, raw.die)
            ELSE UNCHANGED <<pdhVars, nvmlVars, pawnVars>>
       /\ metrics' = Merged(pdh_answer', nvml_answer', pawn_temp', Base(raw))
  /\ sampled' = TRUE
  /\ UNCHANGED <<linuxVars, machine, process, up>>

\* The end of main() or service_main drops every monitor.
Drop ==
  /\ process = "sampling"
  /\ process' = "dropped"
  /\ IF Windows THEN PdhDrop /\ NvmlDrop /\ PawnDrop
                ELSE UNCHANGED <<pdhVars, nvmlVars, pawnVars>>
  /\ UNCHANGED <<linuxVars, machine, up, sampled, hw, metrics>>

\* The process ends, or is killed at any moment; the system frees what it held.
Exit ==
  /\ process # "gone"
  /\ process' = "gone"
  /\ PdhEnd /\ NvmlEnd /\ PawnEnd
  /\ direct_sensor_path' = NoPath
  /\ sampled' = FALSE /\ hw' = NoReading /\ metrics' = NoMetrics
  /\ UNCHANGED <<hwmon, renumbered, machine, up>>

-----------------------------------------------------------------------------
(* The machine *)

Flicker ==
  /\ Windows
  /\ \E source \in {"pdh", "gpu"} :
       up' = IF source \in up THEN up \ {source} ELSE up \cup {source}
  /\ UNCHANGED <<monitorVars, machine, process, sampled, hw, metrics>>

Install ==
  /\ Windows
  /\ DriverChanges
  /\ UNCHANGED <<pdhVars, nvmlVars, linuxVars, machine, process, up, sampled, hw, metrics>>

Reload ==
  /\ ~Windows
  /\ Renumber(machine.layouts)
  /\ UNCHANGED <<pdhVars, nvmlVars, pawnVars, machine, process, up, sampled, hw, metrics>>

Next == New \/ Sample \/ Drop \/ Exit \/ Flicker \/ Install \/ Reload

\* Only the sampling of the drivers' loops is fair.
Spec == Init /\ [][Next]_vars /\ WF_vars(Sample)
-----------------------------------------------------------------------------
(* Properties *)

\* Every variable keeps to its declared values; the metrics are u8 and u16.
TypeOK ==
  /\ PdhTypeOK /\ NvmlTypeOK /\ PawnTypeOK /\ LinuxTypeOK
  /\ machine \in Machines
  /\ process \in {"gone", "sampling", "dropped"}
  /\ up \subseteq {"pdh", "gpu"}
  /\ sampled \in BOOLEAN /\ hw \in Readings
  /\ metrics \in [Fields -> 0 .. MaxWord]
  /\ \A f \in {"cpu_temp", "cpu_load", "gpu_temp", "gpu_load"} : metrics[f] <= MaxByte

\* The drops of the three Windows monitors: a process holds at most one query, one
\* handle and one initialised NVML, a device only while NVML is initialised, and none
\* of it once the monitors are dropped, but for an NVML without a device or without
\* nvmlShutdown, which stays until the process ends.
ResourcesReleased ==
  /\ queries = IF query THEN 1 ELSE 0
  /\ handles = IF handle THEN 1 ELSE 0
  /\ query \/ handle => process = "sampling"
  /\ nvml_inits \in 0 .. 1
  /\ process = "sampling" /\ device_handle => nvml_inits = 1
  /\ process = "dropped" /\ nvml_inits = 1 => "shutdown" \notin entries
  /\ process = "gone" => nvml_inits = 0

\* docs/architecture.md section 4, "providing true hardware die temperature": a
\* temperature that comes from PawnIO is that of the die, to the nearest degree, under
\* either encoding of the register.  (With the Intel module none is ever read.)
DieTemperatureShown ==
  pawn_temp # None =>
    module = "amd" /\ hw.die \in 8 .. 1000 /\ 8 * metrics.cpu_temp - hw.die \in -4 .. 4

\* src/monitor/cpu_temp.rs:104 "Check for common CPU hwmon driver names": as long as the
\* chips keep the numbers they had when the path was found, the temperature is that of
\* a CPU sensor, in whole degrees.
CpuSensorShown ==
  sampled /\ direct_sensor_path # NoPath /\ ~renumbered /\ hw.cpu_milli \div 1000 \in 0 .. MaxByte
    => hw.cpu_milli - 1000 * metrics.cpu_temp \in 0 .. 999

AtMost(n, high) == IF n > high THEN high ELSE n
NearestWatts(watts, mw) ==
  2 * (1000 * watts - mw) \in -1000 .. 1000 \/ (watts = MaxWord /\ mw > 1000 * MaxWord)

\* Millidegrees in whole degrees, as far as a byte holds them.
InWholeDegrees(degrees, milli) ==
  \/ milli - 1000 * degrees \in 0 .. 999
  \/ degrees = 0 /\ milli < 0
  \/ degrees = MaxByte /\ milli > 1000 * MaxByte

\* The die's temperature when PawnIO gave one; else the sensor's that new() found, while
\* the chips keep their numbers; else, without a path or when the sensor did not
\* answer, that of sysinfo's hottest component, to the nearest degree.
TemperatureIsReading ==
  /\ pawn_temp # None => 8 * metrics.cpu_temp - hw.die \in -4 .. 4
  /\ pawn_temp = None /\ direct_sensor_path # NoPath /\ ~renumbered /\ hw.cpu_milli # Failed
       => InWholeDegrees(metrics.cpu_temp, hw.cpu_milli)
  /\ pawn_temp = None
     /\ (direct_sensor_path = NoPath \/ (~renumbered /\ hw.cpu_milli = Failed))
       => 10 * metrics.cpu_temp - AtMost(Max({0} \cup hw.components), 10 * MaxByte) \in -5 .. 5

\* The average of the processors' clocks in whole MHz, as far as a word holds it.
IsAverage(mhz, cpus) ==
  LET total == SumFunction(cpus) IN
  IF cpus = <<>> THEN mhz = 0
  ELSE \/ total - mhz * Len(cpus) \in 0 .. (Len(cpus) - 1)
       \/ mhz = MaxWord /\ total > MaxWord * Len(cpus)

\* Kilohertz in whole MHz, as far as a word holds it.
InWholeMegahertz(mhz, khz) ==
  khz - 1000 * mhz \in 0 .. 999 \/ (mhz = MaxWord /\ khz > 1000 * MaxWord)

\* PDH's clock when it answered; else the first processor's on Linux when that could be
\* read; else the average of sysinfo.
ClockIsReading ==
  IF pdh_answer.clock # None THEN metrics.cpu_clock_mhz = AtMost(hw.pdh_clock, MaxWord)
  ELSE IF ~Windows /\ hw.khz # Failed
    THEN InWholeMegahertz(metrics.cpu_clock_mhz, hw.khz)
    ELSE IsAverage(metrics.cpu_clock_mhz, hw.cpus)

\* PDH's load and power when it answered, else the base monitors'; NVML's values, or 0.
OthersAreReadings ==
  /\ IF pdh_answer.power # None THEN NearestWatts(metrics.cpu_power_watts, hw.pdh_power)
     ELSE metrics.cpu_power_watts = IF Windows THEN 0 ELSE hw.power
  /\ IF pdh_answer.load # None
       THEN 10 * metrics.cpu_load - AtMost(hw.pdh_load, 1000) \in -5 .. 5
       ELSE metrics.cpu_load = hw.load
  /\ IF nvml_answer.power # None THEN NearestWatts(metrics.gpu_power_watts, hw.gpu_power)
     ELSE metrics.gpu_power_watts = 0
  /\ metrics.gpu_temp = IF nvml_answer.temp # None THEN AtMost(hw.gpu_temp, MaxByte) ELSE 0
  /\ metrics.gpu_load = IF nvml_answer.load # None THEN AtMost(hw.gpu_load, 100) ELSE 0
  /\ metrics.gpu_clock_mhz = IF nvml_answer.clock # None THEN AtMost(hw.gpu_clock, MaxWord) ELSE 0

\* README.md:37 "Real telemetry, not estimates": each of the eight metrics of a sample is
\* what its source reported to this very sample under that name, to the unit, and when
\* one source does not answer, what the one the code prefers next reported.  Only the
\* temperature of a renumbered chip is left out (see CpuSensorShown).
MetricsAreReadings ==
  sampled => TemperatureIsReading /\ ClockIsReading /\ OthersAreReadings

\* README.md:26 "For CPU temperature, install the signed PawnIO driver once": a driver
\* that becomes ready while the process samples is found.  Not so when it refused
\* both modules when it was opened: the handle is kept, and never initialised again.
TemperatureArrives ==
  <>[](/\ process = "sampling" /\ machine.vendor = "amd"
       /\ driver = "ready" /\ ~(handle /\ module = "none")
       /\ hw.die \in 8 .. 1000)
    => <>[](pawn_temp # None)

\* Failed collections delay the counters' values, but only until they succeed again.
LoadArrives ==
  <>[](process = "sampling" /\ "load" \in counters /\ "pdh" \in up /\ hw.pdh_load >= 0)
    => <>[](pdh_answer.load # None)
=============================================================================
