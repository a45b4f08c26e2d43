------------------------------- MODULE CpuPower -------------------------------
(***************************************************************************)
(* CpuPowerMonitor of src/monitor/cpu_power.rs on Linux, and the           *)
(* energy counter it derives a power from.  The unit of energy is one step *)
(* of the counter, the unit of time the 0.1 s below which get_power_watts  *)
(* answers from its cache, and a watt is one unit of energy per unit of    *)
(* time.                                                                   *)
(***************************************************************************)
EXTENDS Integers

CONSTANTS
  MaxRange,     \* the highest value of the counter (max_energy_range_uj)
  MaxWatts,     \* the highest u16
  MaxEnergy,    \* bound: energy between two readings of the counter
  MaxTime       \* bound: time between two readings of the counter

ASSUME PowerAssumption ==
  /\ MaxRange \in Nat \ {0} /\ MaxWatts \in Nat
  /\ MaxEnergy \in Nat /\ MaxTime \in Nat

VARIABLES
  energy_path,            \* an energy source was found
  max_energy_range_uj,    \* MaxRange, or Unknown: the Option's None
  last_energy_uj,         \* the last value read, or the 0 of a failed first read
  last_timestamp,         \* its age: the time since then
  last_calculated_watts,  \* the cached result; also what the last call returned
  counter,                \* the counter of the hardware
  primed,                 \* history: last_energy_uj was read from the counter
  spent,                  \* history: energy since the last reading
  passed                  \* history: time since the last reading

monitorVars ==
  <<energy_path, max_energy_range_uj, last_energy_uj, last_timestamp, last_calculated_watts>>
worldVars == <<counter, spent, passed>>
vars == <<monitorVars, worldVars, primed>>

Unknown == -1

\* find_energy_source: RAPL with or without a readable range, an hwmon node,
\* whose range is never known, or nothing.
Sources ==
  [path : {TRUE}, range : {MaxRange, Unknown}] \cup [path : {FALSE}, range : {Unknown}]

\* new(): a first read that fails counts as a reading of 0.
Init ==
  /\ \E source \in Sources :
       /\ energy_path = source.path
       /\ max_energy_range_uj = source.range
  /\ counter \in 0 .. MaxRange
  /\ primed \in BOOLEAN
  /\ primed => energy_path
  /\ last_energy_uj = IF primed THEN counter ELSE 0
  /\ last_timestamp = 0
  /\ last_calculated_watts = 0
  /\ spent = 0
  /\ passed = 0

-----------------------------------------------------------------------------
(* The processor *)

\* One unit of energy is used; the counter wraps behind MaxRange.
Use ==
  /\ spent < MaxEnergy
  /\ counter' = IF counter = MaxRange THEN 0 ELSE counter + 1
  /\ spent' = spent + 1
  /\ UNCHANGED <<monitorVars, primed, passed>>

Pass ==
  /\ passed < MaxTime
  /\ last_timestamp' = last_timestamp + 1
  /\ passed' = passed + 1
  /\ UNCHANGED <<energy_path, max_energy_range_uj, last_energy_uj, last_calculated_watts,
                 counter, primed, spent>>

-----------------------------------------------------------------------------
(* get_power_watts *)

Delta_LosesRest ==
  IF counter >= last_energy_uj THEN counter - last_energy_uj
  ELSE IF max_energy_range_uj # Unknown THEN max_energy_range_uj - last_energy_uj
  ELSE 0
\* delta_uj: a smaller value means one wrap, of which nothing can be said when
\* the range is not known.
Delta ==
  IF counter >= last_energy_uj THEN counter - last_energy_uj
  ELSE IF max_energy_range_uj # Unknown THEN (max_energy_range_uj - last_energy_uj) + counter
  ELSE 0

Watts_Unclamped(energy, time) == (2 * energy + time) \div (2 * time)
\* (energy / time).round().clamp(0.0, 65535.0) as u16.
Watts(energy, time) ==
  LET rounded == (2 * energy + time) \div (2 * time) IN
  IF rounded > MaxWatts THEN MaxWatts ELSE rounded

\* No source: 0.  Less than 0.1 s after the last reading: the cached value.
\* Both leave the monitor as it is and return last_calculated_watts.
Cached ==
  /\ ~energy_path \/ last_timestamp < 1
  /\ UNCHANGED vars

\* A failed read returns the cached value and leaves the window open.
ReadFails_Restarts ==
  /\ energy_path /\ last_timestamp >= 1
  /\ last_timestamp' = 0
  /\ UNCHANGED <<energy_path, max_energy_range_uj, last_energy_uj, last_calculated_watts,
                 worldVars, primed>>
ReadFails ==
  /\ energy_path /\ last_timestamp >= 1
  /\ UNCHANGED vars

Reads ==
  /\ energy_path /\ last_timestamp >= 1
  /\ last_calculated_watts' = Watts(Delta, last_timestamp)
  /\ last_energy_uj' = counter
  /\ last_timestamp' = 0
  /\ primed' = TRUE
  /\ spent' = 0 /\ passed' = 0
  /\ UNCHANGED <<energy_path, max_energy_range_uj, counter>>

get_power_watts == Cached \/ ReadFails \/ Reads

Next == Use \/ Pass \/ get_power_watts

Spec == Init /\ [][Next]_vars

-----------------------------------------------------------------------------
(* Properties *)

\* Every variable keeps to its declared values.
TypeOK ==
  /\ energy_path \in BOOLEAN
  /\ max_energy_range_uj \in {MaxRange, Unknown}
  /\ last_energy_uj \in 0 .. MaxRange
  /\ last_timestamp \in Nat
  /\ last_calculated_watts \in 0 .. MaxWatts
  /\ counter \in 0 .. MaxRange
  /\ primed \in BOOLEAN
  /\ spent \in Nat
  /\ passed \in Nat

\* A reading of the counter: the only step that ends a window.
Reading == passed > 0 /\ passed' = 0

\* watts is the rounded average power of a window in which `energy' was used,
\* or the highest u16 when that is beyond it.
IsAverage(watts, energy) ==
  LET off == 2 * (watts * passed - energy) IN
  /\ off <= passed
  /\ off > -passed \/ watts = MaxWatts

\* src/monitor/cpu_power.rs:55 "CPU power in Watts based on the energy
\* counter delta": when the counter wrapped at most once since the last reading
\* and its range is known, the result is the average power over exactly the
\* window since that reading, whatever calls were cached and whatever reads
\* failed in between.  A wrap costs the one step from MaxRange to 0.
PowerIsAverage ==
  [][Reading /\ primed /\ max_energy_range_uj # Unknown /\ spent <= MaxRange
       => \/ IsAverage(last_calculated_watts', spent)
          \/ counter < last_energy_uj /\ IsAverage(last_calculated_watts', spent - 1)]_vars

\* However often the counter wrapped, and also with an unknown range, the
\* result never exceeds the power really used: what is lost is lost downwards.
NeverOverstated ==
  [][Reading /\ primed
       => \E energy \in 0 .. spent : IsAverage(last_calculated_watts', energy)]_vars

\* The same of the first reading after a failed first read.
FirstReadingNotOverstated ==
  [][Reading
       => \E energy \in 0 .. spent : IsAverage(last_calculated_watts', energy)]_vars
=============================================================================
