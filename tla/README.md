# A TLA+ model of segotep-digital

segotep-digital streams CPU and GPU telemetry to the display of Segotep AIO
coolers over USB HID. It runs as a command-line daemon (systemd on Linux, a
console on Windows) or as a Windows service it installs itself. This directory
holds TLA+ modules for its drivers, its service commands, its protocol and its
telemetry, the TLC configurations that check them, and proofs of their properties.
Paths in this file and in the modules' comments are relative to the repository's root;
`PROJECT.json` maps every definition to the lines it models.

## 1. Inventory

| Part (source) | State | Operations | Interacts with |
|---|---|---|---|
| HID device access (`src/device.rs`) | `device: Option<HidDevice>`, handles on one shared cooler | `connect`, `send`, drop; `read_info` and `run_loop` (not called by the binary) | cooler; both drivers |
| Command-line driver (`src/main.rs`) | `running` flag, `is_connected`, place in the loop | main loop, ctrlc handler, `--screen-off`, dispatch of the service commands | device, telemetry, signals, systemd |
| Service process (`src/windows_service.rs`, `run_service`, `service_main`, `service_handler`) | `SERVICE_RUNNING_FLAG`, `SERVICE_STATUS_HANDLE_VAL`, status at the SCM | start, stream, stop controls, teardown | SCM, device, telemetry |
| Service installation (`src/windows_service.rs`, `install_service`, `uninstall_service`) | the SCM's entry | create or update, query, stop, sleep, start, delete | SCM, service process |
| Packet encoding (`src/protocol.rs`) | none | `serialize` | drivers, display controller |
| Telemetry facade (`src/monitor/mod.rs`) | the monitors | `new`, `sample`, drop | drivers, every monitor |
| CPU power (`src/monitor/cpu_power.rs`) | last energy and its time, cached watts | `new`, `get_power_watts` | RAPL counter |
| CPU load (`src/monitor/cpu_load.rs`) | last ticks and their time, cached percentage | `new`, `get_load_pct` | /proc/stat, GetSystemTimes, sysinfo |
| CPU frequency, temperature (`cpu_freq.rs`, `cpu_temp.rs`) | a path found once | `get_freq_mhz`, `get_temp` | sysfs, sysinfo |
| Windows sources (`windows_native.rs`, `windows_pawnio.rs`) | PDH query and counters, NVML library and device, PawnIO handle and module | `sample`, `get_cpu_temp`, drop | PDH, nvml.dll, PawnIO driver |
| Packaging (`systemd/`, `udev/`, `installer/`, workflows) | none | restart policy, permissions, install order | processes, SCM |

What is hard in it, and so worth a model checker:

* **Concurrency.** The control handler of the service runs on another thread than
  `service_main`; both set the status at the SCM and share two atomics. The
  ctrlc handler runs beside `main()`. Two processes (a daemon and a
  `--screen-off` run) can hold the cooler open at once.
* **Failure and recovery.** The cooler is unplugged, replugged, or refuses a call
  at any moment; `connect()` trusts a handle that may be dead, and only a
  failed write clears it. A process is killed and restarted.
* **Time.** The install commands sleep a fixed time and then assume that the stop
  they asked for has happened; the service notices a stop only after its own
  sleep.
* **Counters.** The energy counter wraps, idle ticks are taken back, reads fail,
  calls come faster than the cache allows, and a monitor falls back to another
  source and returns.
* **Sources that come and go.** A PDH value needs two collections, NVML may start
  without a device, the PawnIO driver is installed while the program runs, and
  hwmon chips are renumbered under a path that was found once.

What makes each part correct: *device*: a lost handle is eventually replaced
while the cooler is there. *Drivers*: a stop is noticed at every place, ends the
process, lets at most one report through, and leaves no stale digits; the phases
follow the state machine of `docs/architecture.md` section 5. *Service*: the
status at the SCM is truthful and every control is acknowledged. *Installation*:
what is reported is what the SCM holds. *Packet*: the display reads back what
was sampled. *Power, load*: the result belongs to the window it is divided by.
*Telemetry*: every metric is the reading of its own source; a source that answers
again is used again; what was opened is closed.
`PROJECT.json` lists the hazards behind these, each at its line.

## 2. Modules

| Module | Models | Extends |
|---|---|---|
| `SegotepDevice` | `connect`, `send`, drop and the cooler on the bus | |
| `ScreenLifecycle` | abstract: the documented phases and the one screen | |
| `ServiceMain` | the service process, its two threads and the SCM's view | `SegotepDevice` |
| `CliDriver` | any number of command-line processes, signals, restarts | `SegotepDevice` |
| `ServiceControl` | install and uninstall against the SCM, with time | `ServiceMain` |
| `SegotepPacket`, `MCSegotepPacket` | packets, `serialize`, the reader of the report | |
| `CpuPower` | the power monitor and the energy counter | |
| `CpuLoad` | the load monitor and the tick counters, on both platforms | |
| `SensorValues` | the conversions from what a sensor reports to a metric | |
| `WindowsPdh`, `WindowsNvml`, `WindowsPawnIo` | the three Windows monitors and what they query | `SensorValues` |
| `LinuxSensors` | temperature and frequency on Linux and the hwmon chips | `SensorValues` |
| `Telemetry`, `MCTelemetry` | `SystemTelemetry`: the composition of the monitors in a process | all four monitors |
| `DeviceProofs`, `ServiceMainProofs`, `CliDriverProofs`, `ServiceControlProofs`, `SegotepPacketProofs`, `CpuPowerProofs`, `CpuLoadProofs`, `TelemetryProofs` | theorems | the module they are named for |

### How state and actions correspond to the code

**SegotepDevice.** `device[c]` is the `Option<HidDevice>` of process `c`. An open
handle whose cooler was unplugged is `"Stale"`: still `Some`, but no write through it
succeeds, also after a replug. `ConnectOk` / `ConnectErr` and `SendOk` / `SendErr`
are the returns of `connect()` and `send()` with all their effects. Every cause of
a failing call (permissions, sleep, bus error) is a cooler that is `"faulty"`
or `"absent"`. A write that fails may still have reached the display. `Unplug`,
`Plug`, `Falter`, `Settle` are the environment; none of them is ever forced.

**ServiceMain.** `pc` is the next statement of `service_main`. There is one action per
call that the handler thread, the SCM or the display can observe. `Control` and
`ReportStopPending` are `service_handler`, cut between the store of the flag and
the status report, where `service_main` can run on. `Deliverable` is
what the SCM lets through. `ProcessExit` and `StartService` let the process end
and a new one start on fresh statics.

**CliDriver.** The same for `main()`, one value per process. `Interrupt` is the ctrlc
handler (or death, when it could not be installed), `Terminate` is SIGTERM, which
ctrlc does not trap without its `termination` feature, and `Start` is a new
process, by `Restart=always` or by hand.

**ServiceControl.** The commands are one statement per action. Time advances in units of
100 ms by `Elapse`, only when every process sleeps, so all delays but the sleeps
are zero: the races found do not need a slow machine. Either command is given at any
moment, also to a service that starts or stops.
`stop` is a history variable that says what became of the command's stop:
`"heard"`; `"refused"` by the SCM because the service had not yet reported that it
accepts STOP; `"overslept"`, when the service was in its two-second sleep after a failed
connect, which is longer than either command waits; or `"untold"`, when an install found
the service starting or stopping and sent it nothing (`Query`: only a RUNNING service is
stopped).

**SegotepPacket.** The state is the last packet, its report and the sample it
was built from. `ReadBack` and `Layout` are references written from the
comment on `serialize()` and `docs/architecture.md` section 2, not from the code.
`DisplayShowsSample` leaves the temperatures of a Fahrenheit report open;

**CpuPower.** The counter, the fields of `CpuPowerMonitor`, and three history variables
(was the last value really read, the energy and the time since then). `Use` and
`Pass` advance the world one unit at a time. The watts of the properties are
stated without the division the code uses.

**CpuLoad.** The monitor uses its counters only as differences, so `last_stat` is the
ticks of each kind (work, guest, idle) since the values it holds, and counters of
any size are covered. `Reads`, `Cached` and `FallsBack` are the three ways through
`get_load_pct`; `passed` and `window` are the true windows, which the monitor does not
see. `Tick` with -1 is the iowait the kernel may take back.

**Telemetry.** The variables of the monitors are those of their structs, with the
system's side beside them: open queries, NVML initialisations, open handles, the state
of the PawnIO driver, the hwmon chips. `New`, `Sample` and `Drop` are the
functions of those names, each calling the operators of the four monitors in the order
of `mod.rs`; `Exit` is the end of the process, at any moment, after which another one
starts. A reading (`hw`) is what the hardware would report to each query of one sample; a
single query fails where the reading says `Failed`, a whole source where it is not in
`up`. Conversions are kept (rounding, clamping, thresholds, the two encodings of the AMD
temperature register) and are integer arithmetic in the units their comments name.
The load and power of the base monitors are any values here; `CpuLoad` and `CpuPower` say which.

## 3. Runs

| Run | Instance | Shows |
|---|---|---|
| `service_main` | one service, all faults | A control always finds the status handle stored, so every stop is acknowledged; at most one report follows a stop; the display is blank at the end when the handle is good; the status never lies; a stop completes with or without a cooler; streaming recovers; the service implements `ScreenLifecycle` with `TurnsOff`. |
| `service_frozen` (violation) | same | `service_main` sends the Screen-OFF report without `connect()`. When the last write failed, or the cooler was replugged, the report goes nowhere and the digits stay, with the cooler answering. |
| `cli_driver` | a daemon and a `--screen-off` process, both signals | `is_connected` and the handle agree; an interrupt ends every process within one report; `--screen-off` ends once the cooler stays ready; the daemon's digits come back; the lifecycle is implemented, but for leaving Streaming directly. |
| `cli_signals` (violation) | one daemon | Ctrl+C and SIGTERM leave the digits lit, while the documentation draws a Screen-OFF report. |
| `packet` | boundary values of each field, all argument combinations | The report is the documented layout, is read back exactly, and shows the sample taken, but for the temperatures of a Fahrenheit report. |
| `cpu_power` | counter of 6 values, windows of 4 time units and 14 energy units | The result is the average over exactly the window since the last reading, whatever failed or was cached in between, and never too much. |
| `cpu_power_first` (violation) | same | A failed first read makes the first result the whole counter over one interval. |
| `cpu_load` | up to 3 ticks of each kind per window, two sysinfo answers | Without guest time the cached load is exactly the share of the window between the last two readings; guest time never lowers it; the counters answer again after any fallback. |
| `telemetry` | 6 machines, 9 readings, all sources at any time | What was opened is closed; no PDH value comes from one collection; a PawnIO temperature is the die's; a hwmon temperature is a CPU's; every metric is the reading of its own source, or of the one the code falls back on; a driver or counter that starts to work is used. |
| `service_control` | interval 400 ms, cooler comes and goes, commands at any moment | Installed means running with the new arguments, unless the install met the service starting or stopping or its stop was overslept; removed means gone, unless the stop was overslept or refused; every stop ends within the 3 s hint; an entry marked for deletion belongs to a process that ends, and goes away. |
| `service_control_restart` (violation) | interval 1000 ms, cooler present | With the default interval, a re-install takes error 1056 for success and leaves no running service. |
| `service_control_update` (violation) | interval 400 ms, cooler present | A second install that meets the service in START_PENDING does not stop it, takes error 1056 for success, and the old arguments keep running. |

`InstalledMeansStarted` and `RemovedMeansGone` both fail at the default interval (set
`TickTime = 10` in `ServiceControl.cfg`); the violation run shows the first of them.
Their exceptions are as real: without `"untold"`, `"overslept"` or `"refused"` they fail at any
interval; `service_control_update` shows the first, and the next list the others.

### Known disagreements without a run

Places where code and documentation disagree, met while modelling, which no run of
its own is spent on:

* The temperature byte of a Fahrenheit report is in Celsius (`src/main.rs:193`), while
  `src/protocol.rs:23` says "or °F if `is_fahrenheit` is true" and `docs/configuration.md:12`
  "Show temperature in Fahrenheit". `DisplayShowsSample` leaves it open.
* A `--screen-off` process leaves its loop whatever `send()` returned (`src/main.rs:209`)
  and logs "Screen-OFF packet sent successfully" also after a failed write, with the
  display lit; `AfterSend` in `CliDriver` is that step.
* An uninstall given before the starting service has reported that it accepts STOP is
  refused by the SCM, whose answer is ignored (`src/windows_service.rs:211`):
  "successfully removed" is logged while the service runs on, marked for deletion. The same command while the service sleeps after
  a failed connect marks the entry too, which goes away with the process.
* An interval above the 3 s wait hint (`src/windows_service.rs:294`), which `--interval-ms`
  allows, makes a stop outlast the hint; `StopBounded` has the exact condition.
* The Intel MSR module is loaded and never read (`src/monitor/windows_pawnio.rs:206`),
  while `docs/architecture.md` section 4 promises die temperatures of both vendors.
* A PawnIO handle opened while the driver refused both modules is kept and never
  initialised again (`windows_pawnio.rs:99`): `TemperatureArrives` excepts it.
* Guest time is counted twice on Linux (`cpu_load.rs:143`): `LoadIsShare` excepts it.
* On Linux the clock is that of the first processor (`cpu_freq.rs:36`), not the average
  over active cores of `docs/architecture.md:124`; and the first input of a chip
  is taken whatever its label (`cpu_temp.rs:130`), also when a later one is Tctl.

### Bounds and why they suffice

* `ServiceMain`, `CliDriver`: no counter is bounded. The state spaces are finite because a
  process stops after its one late report. One service is all the SCM starts.
  Two processes suffice for the command line, since they meet only in the
  screen, which either of them sets to one of two values; the proofs drop the
  bound.
* `ServiceControl`: the sleeps are the code's own. The interval is 400 ms, the command line's
  choice at which the commands can keep their promise at all; the longest sleep of
  the service, which `StopsWithinHint` is about, is the retry of 2 s at any interval
  below that. `stopping` saturates one unit above the hint. Two configurations tell
  old arguments from new. The proofs drop all of these values for conditions on them.
* `SegotepPacket`: 0, 1, 255 for bytes and values at each side of the byte boundary
  for words. The fields do not interact; the proof covers every value.
* `CpuPower`: `MaxEnergy = 14` is more than two turns of a counter with `MaxRange = 5`,
  and `MaxWatts = 4` is low enough for the clamp to be reached. `MaxTime` bounds
  only the divisor. The proof covers every value. The wrap from `MaxRange` to 0 is one step
  of energy, which the code does not count; with a step of a microjoule this is
  nothing, with the steps of the model it is visible, and `PowerIsAverage` names it.
* `CpuLoad`: `MaxTicks` ticks of each kind in a window give shares at 0, 100, between, above 100
  before the clamp, and totals that saturate. The proof covers windows of any length.
* `MCTelemetry`: no state variable is bounded but `collections`, which counts to two. The machines are a
  usual one of each platform and those that differ from it in one source each; the
  readings differ from a usual one in one failure per monitor, or take every query to
  each side of its thresholds and clamps. Monitors meet only in `Merged`, so failures
  need not be combined further. The proofs cover every machine and reading.

### Fairness

Weak fairness of every thread's next statement: operating-system scheduling,
and sleeps that end. In `ServiceMain` also of the handler's second step and of the end of
a process whose `service_main` has returned and whose dispatcher is idle. In
`ServiceControl` also of time, there strong: time passes only while nothing else can go on, so
each of infinitely many commands, given one after the other, stops it for a moment, and no clock of
a real machine is stopped by that. Nothing is assumed of the cooler, signals, controls, commands
or restarts: where a property needs them (`StreamRecovers`, `ScreenOffEnds`) it says
so as `<>[](cooler = "ready" ...)`. In `CpuLoad` of `Pass` (time) and of `get_load_pct`, and in `Telemetry` of `Sample`: the
drivers' loops call them in every round. `CountersResume`, `TemperatureArrives` and
`LoadArrives` assume the source itself in the same way. In `cli_driver` the `--screen-off` process may be started
forever and blank the display each time, so `StreamRecovers` there is `[]<>` and
not `<>[]`.

## 4. Proofs

All theorems hold for every value of the constants under the assumptions of the
modules (`ServiceAssumption`, `CliAssumption`, `ControlAssumption`, `PacketAssumption`, `PowerAssumption`,
`LoadAssumption`, `TelemetryAssumption`), which only give types; that of `Telemetry` adds
that sysinfo's list of components, a `Vec` in the code, is finite. Three theorems of
`ServiceControlProofs` have conditions on the sleeps, stated with them.

Safety theorems assume nothing of fairness. The liveness theorems have the fairness of
section 3 and one more hypothesis, `[]NeverStuck`: each fair action is ENABLED where its
guards say so (`pc` is before the end, the process samples, the cache has expired). The
prover has no rules for ENABLED, so this cannot be derived there. TLC evaluates ENABLED itself:
the runs check the same properties under fairness alone, and with a run's .cfg and `NeverStuck`
added to its INVARIANTS, TLC on the module of the proofs confirms the hypothesis in every state of the
instance (for `Telemetry`, on a module that extends `MCTelemetry` too). `Telemetry` needs two different readings for it: a
sample that changes nothing is a stutter. Each of these proofs has the same shape: a number of
statements left to the goal, with one lemma that no step of anyone raises it and every
fair step lowers it; the temporal step is by propositional temporal logic.

* **ServiceMainProofs.** The inductive invariant `IInv` adds to the invariants of the run what links the
  two threads: the SCM accepts controls only once the handle is stored (`HandleBeforeControl`); a handler at work has
  cleared the flag and none outlives its process (`HandlerHasCleared`); a process that wrote its late report has not
  polled since (`LateOnlyBehindPoll`); the cooler is open only inside the loop and the teardown (`OpenOnlyInside`). Without
  the first and third neither `HandlerFindsHandle` nor `AtMostOneLateReport` is inductive: each depends
  on what the other thread can still do. The theorems `HandlerAlwaysFindsHandle`, `LateReportBounded`,
  `StopsBlanked` and `HonestStatus` follow. `LifecycleImplemented` is the refinement: the phase is computed from
  `pc` and the handle, and each step of the service is shown to be a step of `ScreenLifecycle` or to leave phase, link and
  screen alone. It needs the invariant where a start or an early end must find no handle.
  `StopAlwaysCompletes` counts down the statements from any place to the return (`Left`), then the handler and the end of the
  process; `ControlsInside` is the invariant that no control arrives after the return. `StreamAlwaysRecovers` counts the
  statements to the next report (`ToReport`), through the failed write that clears a stale handle.
* **CliDriverProofs.** `IInv` is the type invariant and, for each process, `Own(c)`, which mentions
  only that process' variables and handle; `DeviceProofs` shows what a step of one client
  leaves alone of another's handle. The theorems, `LifecycleImplemented` among them, hold for any number of
  processes; a step of one moves its own phase and link only (`OthersKeep`). `InterruptAlwaysEnds`, `ScreenOffAlwaysEnds` and
  `StreamAlwaysRecovers` follow one process through the steps of all others (`OthersLeave`, `ProcessStays`).
* **SegotepPacketProofs.** `RoundTrip`: reading back a serialised packet gives the packet, for all bytes and
  words. Type correctness and `DisplayAlwaysReadsPacket` follow. `SerializeIsLayout` compares the report
  with the documented layout byte by byte, and `Built` (the packet is that of a tick or a teardown)
  gives `DisplayAlwaysShowsSample`.
* **CpuPowerProofs.** `IInv` says where the counter is: exactly the energy spent past the last
  reading while that is less than a turn, and at least that far otherwise.
  `DivisionRounds` and `WattsIsAverage` bound the rounding. `AverageCorrect` and `NeverTooMuch` follow for every
  range of the counter.

* **CpuLoadProofs.** `IInv` adds `Tracks`: what `last_stat` holds and the true window agree, which is
  what a fallback that touched either would break. `PercentIsShare` bounds the rounding, `GuestRaises` shows that
  counting guest time twice cannot lower a share. `CountersAlwaysResume` rests on `AnsweringIsUsable`: ticks that count
  make a total that is not zero on either platform.
* **ServiceControlProofs.** `ServiceMainProofs` gives the invariant of the process (`BaseInvariant`: a step of the
  commands is a step of `ServiceMain` or leaves it alone). On it, a stopwatch: a process told to stop has at most its
  longest sleep left, and what has passed and what is left never exceed it; so `StopBounded` needs only
  `TickTime <= WaitHint` and `RetryTime <= WaitHint`. `StartsAfterInstall` and `GoneAfterRemoval` follow the
  command's own sleep against that of the service, from `TickTime < RestartWait` and `TickTime < UninstallWait`:
  when the command wakes, a service that heard the stop is gone. Nothing is assumed of when a command is given;
  the exceptions are those in the properties. `ControlKeepsService` and `ControlKeepsLifecycle` carry
  the invariants and the lifecycle of the service over to the composition. `DeletionAdvances` is the step-wise part of
  `DeletionCompletes`: two natural numbers, the statements left and the rest of the sleep, which every fair step lowers
  in lexicographic order and no other step raises (`HeardOnce`: the SCM delivers one stop to a process, so the handler
  never starts over).
* **TelemetryProofs.** `IInv` has a part per hazard, among them `Held` (what a process can hold by the stage of its life, with
  NVML initialised whenever one of its functions is known), `Counted` (`has_collected_first_sample` stands for
  at least one collection), `Silent` (nothing answers outside Windows, and a process that is gone has sampled nothing).
  The lemmas on the conversions (`WattsAreNearest`, `DecodesDie`, `LoadIsNearest`, `BestTempNearest`, `DegreesShown`,
  `MegahertzShown`, `AverageFreqIsAverage`) bound the rounding for every number. `MetricsCorrect` puts them together: what
  PDH and NVML say and what replaces it is part of `IInv` (`OthersShown`), and `SourcesShown` follows the temperature and the
  clock through all their fallbacks, for lists of processors and components of any length.
  `TypeCorrect` needs the hottest of any finite list of components and the sum over any number of processors to be what
  they should be; `MaxOfIntegers` and `SumIsNatural` show it by induction over finite sets, done by hand as well-founded
  induction on the set of counterexamples (`FiniteInduction`), since the library's induction theorems take an operator as
  parameter. `CpuSensorCorrect` follows the search for the sensor through every list of chips. `TemperatureAlwaysArrives` and
  `LoadAlwaysArrives` follow one sample, and two.

Only model-checked: `DeletionCompletes`, whose last step is an induction over the length of a sleep inside temporal logic,
which the provers cannot do: `DeletionAdvances` is what it would rest on.

## 5. Not modelled

* `read_info` and `run_loop` of `src/device.rs`: nothing in the crate calls them. `read_info` changes no
  state. `run_loop` takes the steps of `main()`'s loop without `--screen-off`: it tests its handle where
  `main()` calls `connect()`, which returns at once on the same test, and it keeps no
  `is_connected`, which `ConnectedFlag` shows to agree with the handle. A model of it would be
  `CliDriver` again.
* Errors of the installation commands that return before any change (SCM not
  opened, bad path), and failures of single SCM calls for other reasons than the state of the service.
* The tests on labels and names of sensors are sets of those that match; sysinfo and the
  averaging of its own window are its answers, any percentage.
* Parsing of arguments, logging, resources, packaging, workflows: no state.

## 6. Plan

What remains worth doing, most important first.

1. A service and a command-line daemon on one cooler: `ServiceMain` and `CliDriver` side by side on
   `SegotepDevice`, with `ScreenLifecycle` over both.
2. `ServiceControl` with a crash of the service process and with two commands at once.
