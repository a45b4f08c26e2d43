----------------------------- MODULE LinuxSensors -----------------------------
(***************************************************************************)
(* CpuTempMonitor and CpuFreqMonitor of src/monitor/cpu_temp.rs and        *)
(* cpu_freq.rs, and the hwmon chips they read.  A chip is [cpu, inputs]:   *)
(* whether its name is that of a CPU sensor, and for each of its inputs    *)
(* "absent", "plain", or "labelled" with Tctl, Tdie or Package.            *)
(***************************************************************************)
EXTENDS SensorValues, Sequences

VARIABLES
  direct_sensor_path,   \* <<chip, input>> found by new(), or NoPath
  hwmon,                \* the system: the chips in the order of the directory
  renumbered            \* history: they changed since new()

linuxVars == <<direct_sensor_path, hwmon, renumbered>>

NoPath == <<0, 0>>
Inputs == 1 .. 8
Chips == [cpu : BOOLEAN, inputs : [Inputs -> {"absent", "plain", "labelled"}]]

LinuxTypeOK ==
  /\ direct_sensor_path \in Nat \X Nat
  /\ hwmon \in Seq(Chips)
  /\ renumbered \in BOOLEAN

\* The inputs at which the search of a chip stops: the first whatever its label, any
\* other with one of the labels.
Stops(chip) ==
  {i \in Inputs : chip.inputs[i] = "labelled" \/ (i = 1 /\ chip.inputs[i] # "absent")}

find_hwmon_AnyChip ==
  LET found == {c \in DOMAIN hwmon : Stops(hwmon[c]) # {}}
  IN  IF found = {} THEN NoPath ELSE <<Min(found), Min(Stops(hwmon[Min(found)]))>>
find_hwmon_cpu_temp ==
  LET found == {c \in DOMAIN hwmon : hwmon[c].cpu /\ Stops(hwmon[c]) # {}}
  IN  IF found = {} THEN NoPath ELSE <<Min(found), Min(Stops(hwmon[Min(found)]))>>

LinuxNew == direct_sensor_path' = find_hwmon_cpu_temp /\ renumbered' = FALSE /\ UNCHANGED hwmon

\* Millidegrees at the path, which may by now belong to another chip, or to none.
MilliC(hw) ==
  LET chip == direct_sensor_path[1] IN
  IF chip \notin DOMAIN hwmon \/ hwmon[chip].inputs[direct_sensor_path[2]] = "absent" THEN Failed
  ELSE IF hwmon[chip].cpu THEN hw.cpu_milli
  ELSE hw.other_milli

\* get_temp of Linux and of Windows
LinuxTemp(hw) ==
  IF direct_sensor_path # NoPath /\ MilliC(hw) # Failed
    THEN Clamp(MilliC(hw) \div 1000, MaxByte)
    ELSE BestTemp(hw.components)

\* get_freq_mhz: the first processor's, else the average of sysinfo.
LinuxFreq(hw) == IF hw.khz # Failed THEN Clamp(hw.khz \div 1000, MaxWord) ELSE AverageFreq(hw.cpus)

\* Drivers are loaded and unloaded, which numbers the chips anew.
Renumber(layouts) ==
  /\ hwmon' \in layouts \ {hwmon}
  /\ renumbered' = TRUE
  /\ UNCHANGED direct_sensor_path
=============================================================================
