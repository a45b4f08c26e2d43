------------------------------ MODULE WindowsNvml ------------------------------
(***************************************************************************)
(* WindowsNvmlGpuMonitor of src/monitor/windows_native.rs and nvml.dll.    *)
(* `up' is whether the queries of the device succeed.                      *)
(***************************************************************************)
EXTENDS SensorValues

VARIABLES
  device_handle,   \* a device was found (not null)
  entries,         \* the functions that were resolved: the Options that are Some
  nvml_answer,     \* what the last sample() returned
  nvml_inits       \* the library: nvmlInit calls without an nvmlShutdown

nvmlVars == <<device_handle, entries, nvml_answer, nvml_inits>>

NoNvml == [temp |-> None, power |-> None, clock |-> None, load |-> None]
Entries == {"temp", "power", "clock", "load", "shutdown"}

NvmlTypeOK ==
  /\ device_handle \in BOOLEAN
  /\ entries \subseteq Entries
  /\ nvml_answer.temp \in None .. MaxByte
  /\ nvml_answer.power \in None .. MaxWord
  /\ nvml_answer.clock \in None .. MaxWord
  /\ nvml_answer.load \in None .. 100
  /\ nvml_inits \in Nat

NvmlNone ==
  /\ device_handle = FALSE /\ entries = {} /\ nvml_answer = NoNvml /\ nvml_inits = 0

\* new(): `gpu' is how far it gets.  "absent": no library, no nvmlInit, or it fails;
\* "empty": initialised, but no device or no function to find one, and empty() is
\* returned without a shutdown; "device": found, with the functions exported.
NvmlNew(gpu, exported) ==
  /\ device_handle' = (gpu = "device")
  /\ entries' = IF gpu = "device" THEN exported ELSE {}
  /\ nvml_inits' = IF gpu = "absent" THEN nvml_inits ELSE nvml_inits + 1
  /\ nvml_answer' = NoNvml

Get(entry, option) == IF entry \in entries THEN option ELSE None

\* sample()
NvmlSample(up, hw) ==
  /\ nvml_answer' =
       IF device_handle /\ up
         THEN [temp  |-> Get("temp", Bounded(hw.gpu_temp, MaxByte)),
               power |-> Get("power", Watts(hw.gpu_power)),
               clock |-> Get("clock", Clock(hw.gpu_clock, 0)),
               load  |-> Get("load", Bounded(hw.gpu_load, 100))]
         ELSE NoNvml
  /\ UNCHANGED <<device_handle, entries, nvml_inits>>

\* drop: the shutdown function is all that decides.
NvmlDrop ==
  /\ nvml_inits' = IF "shutdown" \in entries THEN nvml_inits - 1 ELSE nvml_inits
  /\ UNCHANGED <<device_handle, entries, nvml_answer>>

NvmlEnd ==
  /\ device_handle' = FALSE /\ entries' = {} /\ nvml_answer' = NoNvml /\ nvml_inits' = 0
=============================================================================
