---------------------------- MODULE ServiceControl ----------------------------
(***************************************************************************)
(* The --install-service and --uninstall-service commands of               *)
(* src/windows_service.rs against the Service Control Manager and the      *)
(* service process of ServiceMain, with their sleeps.  Time passes in      *)
(* units of 100 ms, and only while nothing but a sleep can go on: what can *)
(* go wrong here goes wrong on an idle machine, a busy one is only worse.  *)
(***************************************************************************)
EXTENDS ServiceMain

CONSTANTS
  TickTime,        \* service_main's tick_interval
  RetryTime,       \* its sleep after a failed connect
  RestartWait,     \* install_service's sleep between the stop and the start
  UninstallWait,   \* uninstall_service's sleep between the stop and the delete
  WaitHint,        \* dwWaitHint of the STOP_PENDING report
  Configs,         \* the arguments a service may be installed with
  Faults           \* TRUE: the cooler may come and go

ASSUME ControlAssumption ==
  /\ {TickTime, RetryTime, RestartWait, UninstallWait, WaitHint} \subseteq Nat \ {0}
  /\ Configs # {}
  /\ Faults \in BOOLEAN

VARIABLES
  nap,         \* what is left of service_main's sleep
  stopping,    \* time since service_handler cleared the flag, up to WaitHint + 1
  config,      \* the arguments the running process was started with
  record,      \* the SCM's entry: "none", "installed" or "deleting"
  entry,       \* the arguments in that entry
  command,     \* the last command given: "install" or "uninstall"
  step,        \* its next statement, "idle" when it has returned
  wait,        \* what is left of its sleep
  result,      \* what it reported: "none", "started", "removed" or "failed"
  stop         \* history: what became of the command's stop, see Query and Fate

scmVars == <<record, entry>>
commandVars == <<command, step, wait, result, stop>>
clockVars == <<nap, stopping>>
controlVars == <<clockVars, config, scmVars, commandVars>>
allVars == <<vars, controlVars>>

ControlInit ==
  /\ DeviceInit
  /\ (~Faults => cooler = "ready")
  /\ pc = "gone"
  /\ handler = "idle"
  /\ running_flag = TRUE
  /\ handle_val = FALSE
  /\ status = [state |-> "STOPPED", accepts |-> FALSE]
  /\ late = 0
  /\ nap = 0 /\ stopping = 0 /\ wait = 0
  /\ config \in Configs
  /\ record = "none"
  /\ entry = config
  /\ command = "install" /\ step = "idle" /\ result = "none" /\ stop = "none"

-----------------------------------------------------------------------------
(* The service process, with its sleeps *)

Asleep == pc \in {"tick", "retry"} /\ nap > 0

NapAfter ==
  CASE pc' = "tick"  -> TickTime
    [] pc' = "retry" -> RetryTime
    [] OTHER         -> 0

ServiceStep ==
  /\ ~Asleep
  /\ Run
  /\ nap' = NapAfter
  /\ UNCHANGED <<stopping, config, scmVars, commandVars>>

HandlerStep ==
  /\ ReportStopPending
  /\ UNCHANGED controlVars

\* The process ends; the SCM drops an entry that only waited for that.
ExitStep ==
  /\ ProcessExit
  /\ record' = IF record = "deleting" THEN "none" ELSE record
  /\ stopping' = 0
  /\ UNCHANGED <<nap, config, entry, commandVars>>

-----------------------------------------------------------------------------
(* The commands.  One runs at a time; each may be given at any moment,      *)
(* whatever the service is doing.                                           *)

Goes(from, to) == step = from /\ step' = to

Finish(from, outcome) ==
  /\ Goes(from, "idle")
  /\ result' = outcome
  /\ wait' = 0
  /\ UNCHANGED <<command, stop>>

Proceed(from, to) == Goes(from, to) /\ UNCHANGED <<command, wait, result, stop>>

Install ==
  /\ step = "idle"
  /\ command' = "install" /\ step' = "create" /\ result' = "none"
  /\ UNCHANGED <<vars, clockVars, config, scmVars, wait, stop>>

Uninstall ==
  /\ step = "idle"
  /\ command' = "uninstall" /\ step' = "open" /\ result' = "none"
  /\ UNCHANGED <<vars, clockVars, config, scmVars, wait, stop>>

\* CreateServiceA, or OpenServiceA and ChangeServiceConfigA when the service
\* exists.  An entry marked for deletion refuses both (error 1072).
CreateOrUpdate ==
  /\ \/ /\ record # "deleting"
        /\ Proceed("create", "query")
        /\ record' = "installed"
        /\ entry' \in Configs
     \/ /\ record = "deleting"
        /\ Finish("create", "failed")
        /\ UNCHANGED scmVars
  /\ UNCHANGED <<vars, clockVars, config>>

Query_NeverStops ==
  /\ Goes("query", "start")
  /\ stop' = IF status.state \in {"RUNNING", "STOPPED"} THEN "none" ELSE "untold"
  /\ UNCHANGED <<vars, clockVars, config, scmVars, command, wait, result>>
\* QueryServiceStatus: only a RUNNING service is stopped first; one that starts or
\* stops is not told anything.
Query ==
  /\ Goes("query", IF status.state = "RUNNING" THEN "stop" ELSE "start")
  /\ stop' = IF status.state \in {"RUNNING", "STOPPED"} THEN "none" ELSE "untold"
  /\ UNCHANGED <<vars, clockVars, config, scmVars, command, wait, result>>

\* OpenServiceA of uninstall_service: no entry, nothing to do.
Open ==
  /\ IF record = "none" THEN Finish("open", "removed") ELSE Proceed("open", "stop")
  /\ UNCHANGED <<vars, clockVars, config, scmVars>>

\* The SCM refuses to stop a service that starts and has not yet said that it accepts
\* STOP; one that sleeps after a failed connect hears of it later than any command waits.
Fate ==
  IF status.state = "START_PENDING" /\ ~status.accepts THEN "refused"
  ELSE IF pc = "retry" THEN "overslept"
  ELSE "heard"

StopService_Forgotten ==
  /\ Goes("stop", "sleep")
  /\ wait' = IF command = "install" THEN RestartWait ELSE UninstallWait
  /\ UNCHANGED <<vars, clockVars, config, scmVars, command, result, stop>>
StopService_NoSleep ==
  /\ Goes("stop", "sleep")
  /\ IF Deliverable THEN Control ELSE UNCHANGED vars
  /\ wait' = 0
  /\ stop' = Fate
  /\ UNCHANGED <<clockVars, config, scmVars, command, result>>
\* ControlService(SERVICE_CONTROL_STOP), whose result is ignored: the SCM
\* delivers it to a service that starts or runs and accepts it, and to no other.
StopService ==
  /\ Goes("stop", "sleep")
  /\ IF Deliverable THEN Control ELSE UNCHANGED vars
  /\ wait' = IF command = "install" THEN RestartWait ELSE UninstallWait
  /\ stop' = Fate
  /\ UNCHANGED <<clockVars, config, scmVars, command, result>>

\* The end of sleep(800 ms) or sleep(500 ms).
EndWait ==
  /\ wait = 0
  /\ Proceed("sleep", IF command = "install" THEN "start" ELSE "delete")
  /\ UNCHANGED <<vars, clockVars, config, scmVars>>

\* StartServiceA.  The SCM waits for a stopped process to be gone; a service in
\* any other state makes it fail with 1056, which install_service takes for
\* success.
Start ==
  /\ \/ status.state = "STOPPED" /\ StartService /\ config' = entry
     \/ status.state # "STOPPED" /\ UNCHANGED <<vars, config>>
  /\ Finish("start", "started")
  /\ UNCHANGED <<clockVars, scmVars>>

\* DeleteService and CloseServiceHandle: a service that has not stopped stays,
\* marked for deletion; one already marked refuses.
Delete ==
  /\ \/ record = "installed" /\ Finish("delete", "removed")
     \/ record # "installed" /\ Finish("delete", "failed")
  /\ record' = IF status.state = "STOPPED" THEN "none" ELSE "deleting"
  /\ UNCHANGED <<vars, clockVars, config, entry>>

CommandStep ==
  CreateOrUpdate \/ Query \/ Open \/ StopService \/ EndWait \/ Start \/ Delete

-----------------------------------------------------------------------------
(* Time and the whole *)

\* Between its sleeps service_main always has a next step, up to its end.
Awake == ~Asleep /\ pc \notin {"abandoned", "returned", "gone"}

Busy ==
  \/ Awake
  \/ handler = "flagged"
  \/ pc = "returned"
  \/ step \notin {"idle", "sleep"} \/ (step = "sleep" /\ wait = 0)

Less_Below(n) == n - 1
Less(n) == IF n = 0 THEN 0 ELSE n - 1

Elapse ==
  /\ ~Busy
  /\ nap' = Less(nap)
  /\ wait' = Less(wait)
  /\ stopping' = IF ~running_flag /\ pc # "gone" /\ stopping <= WaitHint
                   THEN stopping + 1 ELSE stopping
  /\ UNCHANGED <<vars, config, scmVars, command, step, result, stop>>

BusStep ==
  /\ Faults
  /\ Bus
  /\ UNCHANGED <<serviceVars, controlVars>>

ControlNext ==
  \/ ServiceStep \/ HandlerStep \/ ExitStep
  \/ Install \/ Uninstall \/ CommandStep
  \/ Elapse \/ BusStep

\* Threads are scheduled, commands proceed, and time passes however many commands are
\* given (SF: each makes Busy for a moment); nobody has to give a command, and nothing
\* is assumed of the cooler.
ControlFairness ==
  /\ WF_allVars(ServiceStep) /\ WF_allVars(HandlerStep) /\ WF_allVars(ExitStep)
  /\ WF_allVars(CommandStep) /\ SF_allVars(Elapse)

ControlSpec == ControlInit /\ [][ControlNext]_allVars /\ ControlFairness

-----------------------------------------------------------------------------
(* Properties *)

\* Every variable keeps to its declared values.
ControlTypeOK ==
  /\ TypeOK
  /\ nap \in 0 .. (TickTime + RetryTime)
  /\ stopping \in 0 .. (WaitHint + 1)
  /\ config \in Configs /\ entry \in Configs
  /\ record \in {"none", "installed", "deleting"}
  /\ command \in {"install", "uninstall"}
  /\ step \in {"idle", "create", "query", "open", "stop", "sleep", "start", "delete"}
  /\ wait \in 0 .. (RestartWait + UninstallWait)
  /\ result \in {"none", "started", "removed", "failed"}
  /\ stop \in {"none", "untold", "heard", "overslept", "refused"}

\* docs/deployment.md:39 "The service starts immediately": when install_service
\* reports success, the process that runs has the new arguments and has not been
\* told to stop.  Two installs are excepted, both take error 1056 for success: one that
\* met the service starting or stopping, which leaves that process as it is, and one
\* whose stop met it asleep after a failed connect.
InstalledMeansStarted ==
  [][result' = "started" /\ result # "started" /\ stop \notin {"untold", "overslept"} =>
       running_flag' /\ pc' # "gone" /\ config' = entry']_allVars

\* src/windows_service.rs:155 "restart or start the service with new configuration": an
\* install that reports success leaves no process behind that runs with other arguments.
RunsNewConfiguration ==
  [][result' = "started" /\ result # "started" => pc' = "gone" \/ config' = entry']_allVars

\* docs/configuration.md:18 "stop and remove the background service": when
\* uninstall_service reports success, the SCM has no entry and no process; unless
\* the service slept after a failed connect, or was starting and did not accept STOP yet.
RemovedMeansGone ==
  [][result' = "removed" /\ result # "removed" /\ stop \notin {"overslept", "refused"} =>
       record' = "none" /\ pc' = "gone"]_allVars

\* src/windows_service.rs:106 "If already exists, update configuration
\* idempotently": the entry that makes an install fail, one marked for deletion, is
\* only ever that of a process that is ending, unless it refused the last stop.
MarkedIsEnding ==
  record = "deleting" =>
    pc # "gone" /\ (~running_flag \/ status.state = "STOPPED" \/ stop = "refused")

\* The service stops within the wait hint service_handler gives the SCM, so the
\* SCM does not take it for hung.
StopsWithinHint == stopping <= WaitHint

\* What uninstall_service leaves behind marked for deletion goes away by itself if
\* the stop was not refused, whatever the cooler does.
DeletionCompletes == record = "deleting" /\ stop # "refused" ~> record = "none"
===============================================================================
