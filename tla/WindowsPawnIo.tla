---------------------------- MODULE WindowsPawnIo ----------------------------
(***************************************************************************)
(* WindowsPawnIoDriver of src/monitor/windows_pawnio.rs and the PawnIO     *)
(* driver.  A "refusing" driver can be opened but loads no module and      *)
(* executes nothing.                                                       *)
(***************************************************************************)
EXTENDS SensorValues

VARIABLES
  handle,      \* the handle is valid
  module,      \* "none" (not initialized), "amd" (is_amd) or "intel" (is_intel)
  pawn_temp,   \* what the last get_cpu_temp() returned
  driver,      \* the system: "absent", "refusing" or "ready"
  handles      \* the system: open handles of the process on the driver

pawnVars == <<handle, module, pawn_temp, driver, handles>>

PawnTypeOK ==
  /\ handle \in BOOLEAN
  /\ module \in {"none", "amd", "intel"}
  /\ pawn_temp \in None .. MaxByte
  /\ driver \in {"absent", "refusing", "ready"}
  /\ handles \in Nat

PawnNone ==
  handle = FALSE /\ module = "none" /\ pawn_temp = None /\ handles = 0

\* initialize_modules: the AMD module, then the Intel module, each of which refuses
\* any other CPU; nothing is undone when both fail.
Loaded(vendor) == IF driver = "ready" /\ vendor # "other" THEN vendor ELSE "none"

try_connect_Always(vendor) ==
  /\ handle' = (driver # "absent")
  /\ handles' = IF handle' THEN handles + 1 ELSE handles
  /\ module' = IF handle' THEN Loaded(vendor) ELSE module
\* try_connect: opens the driver, and loads a module, only when no handle is held.
try_connect(vendor) ==
  /\ handle' = (handle \/ driver # "absent")
  /\ handles' = IF handle' /\ ~handle THEN handles + 1 ELSE handles
  /\ module' = IF handle' /\ ~handle THEN Loaded(vendor) ELSE module

PawnNew(vendor) == try_connect(vendor) /\ pawn_temp' = None /\ UNCHANGED driver

PawnTemp_NoRetry(vendor, die) ==
  /\ IF handle /\ module = "amd" /\ driver = "ready" /\ die # Failed
       THEN \E reg \in Registers(die) : pawn_temp' = Decode(reg)
       ELSE pawn_temp' = None
  /\ UNCHANGED <<handle, module, driver, handles>>
\* get_cpu_temp: read_smn needs the AMD module; with the Intel module nothing is read.
PawnTemp(vendor, die) ==
  /\ try_connect(vendor)
  /\ IF handle' /\ module' = "amd" /\ driver = "ready" /\ die # Failed
       THEN \E reg \in Registers(die) : pawn_temp' = Decode(reg)
       ELSE pawn_temp' = None
  /\ UNCHANGED driver

PawnDrop ==
  /\ handle' = FALSE
  /\ handles' = IF handle THEN handles - 1 ELSE handles
  /\ UNCHANGED <<module, pawn_temp, driver>>

PawnEnd ==
  /\ handle' = FALSE /\ module' = "none" /\ pawn_temp' = None /\ handles' = 0
  /\ UNCHANGED driver

\* The driver is installed, starts or stops refusing, or is removed, which Windows
\* puts off while a handle is open.
DriverChanges ==
  /\ driver' \in {"absent", "refusing", "ready"} \ {driver}
  /\ driver' = "absent" => handles = 0
  /\ UNCHANGED <<handle, module, pawn_temp, handles>>
=============================================================================
