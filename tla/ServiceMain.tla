----------------------------- MODULE ServiceMain -----------------------------
(***************************************************************************)
(* The Windows service process of src/windows_service.rs: the thread       *)
(* that runs service_main, the dispatcher thread that runs service_handler *)
(* and what the Service Control Manager (SCM) knows of them.  Both threads *)
(* report a status to the SCM; they share SERVICE_RUNNING_FLAG and         *)
(* SERVICE_STATUS_HANDLE_VAL.  One atomic step per call that another       *)
(* thread, the SCM or the display can observe.                             *)
(***************************************************************************)
EXTENDS SegotepDevice, Naturals

CONSTANT Service      \* the service process, one of the clients of the cooler

ASSUME ServiceAssumption == Service \in Clients

VARIABLES
  pc,             \* the next statement of service_main
  handler,        \* service_handler: "idle", or "flagged" after its store
  running_flag,   \* SERVICE_RUNNING_FLAG
  handle_val,     \* SERVICE_STATUS_HANDLE_VAL is not null
  status,         \* the last status the SCM holds for the service
  late            \* history: telemetry reports written since the flag was cleared

serviceVars == <<pc, handler, running_flag, handle_val, status, late>>
vars == <<deviceVars, serviceVars>>

States == {"START_PENDING", "RUNNING", "STOP_PENDING", "STOPPED"}
Statuses == [state : States, accepts : BOOLEAN]

\* The statements of service_main between which the other actors may run.
\* "abandoned": no control handler could be registered; "gone": no process.
Startup == {"register", "store", "pending", "running", "api"}
Loop == {"poll", "send", "tick", "retry"}
Teardown == {"off", "stopping"}
Locations == Startup \cup Loop \cup Teardown \cup {"returned", "abandoned", "gone"}

Init ==
  /\ DeviceInit
  /\ pc = "register"
  /\ handler = "idle"
  /\ running_flag = TRUE
  /\ handle_val = FALSE
  /\ status = [state |-> "START_PENDING", accepts |-> FALSE]
  /\ late = 0

-----------------------------------------------------------------------------
(* service_main *)

\* SetServiceStatus by service_main: its `status' keeps accepting STOP and
\* SHUTDOWN from the first report to the last.
Report(state) == status' = [state |-> state, accepts |-> TRUE]

Goto(from, to) == pc = from /\ pc' = to

Register ==
  /\ pc = "register"
  /\ pc' \in {"store", "abandoned"}
  /\ UNCHANGED <<deviceVars, handler, running_flag, handle_val, status, late>>

StoreHandle_AfterReport ==
  /\ Goto("store", "pending")
  /\ Report("START_PENDING")
  /\ UNCHANGED <<deviceVars, handler, running_flag, handle_val, late>>
StoreHandle ==
  /\ Goto("store", "pending")
  /\ handle_val' = TRUE
  /\ UNCHANGED <<deviceVars, handler, running_flag, status, late>>

ReportStartPending ==
  /\ Goto("pending", "running")
  /\ Report("START_PENDING")
  /\ UNCHANGED <<deviceVars, handler, running_flag, handle_val, late>>

ReportRunning ==
  /\ Goto("running", "api")
  /\ Report("RUNNING")
  /\ UNCHANGED <<deviceVars, handler, running_flag, handle_val, late>>

\* SegotepDevice::with_custom_ids: without a HID API the service stops.
OpenApi_FallsThrough ==
  /\ Goto("api", "poll")
  /\ UNCHANGED status \/ Report("STOPPED")
  /\ UNCHANGED <<deviceVars, handler, running_flag, handle_val, late>>
OpenApi ==
  /\ \/ Goto("api", "poll") /\ UNCHANGED status
     \/ Goto("api", "returned") /\ Report("STOPPED")
  /\ UNCHANGED <<deviceVars, handler, running_flag, handle_val, late>>

\* The top of the loop: the flag, then connect().
Poll_IgnoresFlag ==
  /\ \/ Goto("poll", "send") /\ ConnectOk(Service)
     \/ Goto("poll", "retry") /\ ConnectErr(Service)
  /\ UNCHANGED <<handler, running_flag, handle_val, status, late>>
Poll ==
  /\ running_flag
  /\ \/ Goto("poll", "send") /\ ConnectOk(Service)
     \/ Goto("poll", "retry") /\ ConnectErr(Service)
  /\ UNCHANGED <<handler, running_flag, handle_val, status, late>>

\* telemetry.sample(), the packet and send(), whose result is ignored.
Send ==
  /\ Goto("send", "tick")
  /\ \/ SendOk(Service, TRUE) /\ late' = IF running_flag THEN late ELSE late + 1
     \/ SendErr(Service, TRUE) /\ UNCHANGED late
  /\ UNCHANGED <<handler, running_flag, handle_val, status>>

\* The end of sleep(tick_interval) or of the two seconds after a failed connect.
Wake ==
  /\ pc \in {"tick", "retry"}
  /\ pc' = "poll"
  /\ UNCHANGED <<deviceVars, handler, running_flag, handle_val, status, late>>

LeaveLoop_NoTeardown ==
  /\ ~running_flag
  /\ Goto("poll", "stopping")
  /\ UNCHANGED <<deviceVars, handler, running_flag, handle_val, status, late>>
LeaveLoop ==
  /\ ~running_flag
  /\ Goto("poll", "off")
  /\ UNCHANGED <<deviceVars, handler, running_flag, handle_val, status, late>>

\* The Screen-OFF packet goes through send() without a connect() before it.
SendOff_On ==
  /\ Goto("off", "stopping")
  /\ SendOk(Service, TRUE) \/ SendErr(Service, TRUE)
  /\ UNCHANGED <<handler, running_flag, handle_val, status, late>>
SendOff ==
  /\ Goto("off", "stopping")
  /\ SendOk(Service, FALSE) \/ SendErr(Service, FALSE)
  /\ UNCHANGED <<handler, running_flag, handle_val, status, late>>

\* The last report; then service_main returns and drops its locals.
ReportStopped ==
  /\ Goto("stopping", "returned")
  /\ Report("STOPPED")
  /\ UNCHANGED <<deviceVars, handler, running_flag, handle_val, late>>

Run ==
  \/ Register \/ StoreHandle \/ ReportStartPending \/ ReportRunning \/ OpenApi
  \/ Poll \/ Send \/ Wake \/ LeaveLoop \/ SendOff \/ ReportStopped

-----------------------------------------------------------------------------
(* service_handler, on the dispatcher thread *)

\* The SCM delivers one control at a time, STOP or SHUTDOWN, and only when the last
\* status it holds accepts it, from the first report of service_main on.
Deliverable ==
  /\ status.accepts
  /\ status.state \in {"START_PENDING", "RUNNING"}

Control ==
  /\ handler = "idle"
  /\ pc \notin {"abandoned", "gone"}
  /\ Deliverable
  /\ handler' = "flagged"
  /\ running_flag' = FALSE
  /\ UNCHANGED <<deviceVars, pc, handle_val, status, late>>

\* Nothing is reported when the handle is still null.
ReportStopPending ==
  /\ handler = "flagged"
  /\ handler' = "idle"
  /\ status' = IF handle_val
                 THEN [state |-> "STOP_PENDING", accepts |-> FALSE]
                 ELSE status
  /\ UNCHANGED <<deviceVars, pc, running_flag, handle_val, late>>

-----------------------------------------------------------------------------
(* The SCM and the process *)

\* The dispatcher returns once the service has reported STOPPED and no control
\* is being handled; the process ends, its handle closes, and whatever was
\* reported last, the SCM holds the service STOPPED.
ProcessExit ==
  /\ pc = "returned"
  /\ handler = "idle"
  /\ pc' = "gone"
  /\ Drop(Service)
  /\ status' = [state |-> "STOPPED", accepts |-> FALSE]
  /\ UNCHANGED <<handler, running_flag, handle_val, late>>

\* A boot or StartService creates a new process with fresh statics.
StartService ==
  /\ pc = "gone"
  /\ pc' = "register"
  /\ running_flag' = TRUE
  /\ handle_val' = FALSE
  /\ status' = [state |-> "START_PENDING", accepts |-> FALSE]
  /\ late' = 0
  /\ UNCHANGED <<deviceVars, handler>>

Next ==
  \/ Run
  \/ Control \/ ReportStopPending
  \/ ProcessExit \/ StartService
  \/ Bus /\ UNCHANGED serviceVars

Spec == Init /\ [][Next]_vars

\* Both threads are scheduled, sleeps end, and the SCM lets the process go.
\* Nothing is assumed of the cooler, of controls or of a later start.
Fairness == WF_vars(Run) /\ WF_vars(ReportStopPending) /\ WF_vars(ProcessExit)

FairSpec == Spec /\ Fairness

-----------------------------------------------------------------------------
(* Properties *)

\* Every variable keeps to its declared values.
TypeOK ==
  /\ DeviceTypeOK
  /\ pc \in Locations
  /\ handler \in {"idle", "flagged"}
  /\ running_flag \in BOOLEAN
  /\ handle_val \in BOOLEAN
  /\ status \in Statuses
  /\ late \in Nat

\* When service_handler loads SERVICE_STATUS_HANDLE_VAL it is never null: no
\* control can arrive before service_main has stored it, so no stop request
\* goes unacknowledged (the null check of service_handler never fires).
HandlerFindsHandle == handler = "flagged" => handle_val

\* Whatever the moment of the stop, at most one more telemetry report reaches
\* the display after service_handler cleared the flag.
AtMostOneLateReport == late <= 1

\* "Gracefully blank display before stopping service": once the loop is left
\* and the Screen-OFF packet sent, a service whose handle is still good has a
\* blank display, and nothing it does up to its end lights it again.
BlankedBeforeStopped ==
  pc \in {"stopping", "returned"} /\ device[Service] = "Live" => screen # "lit"

\* The SCM sees STOP_PENDING only of a service that was told to stop, and holds
\* it STOPPED only when service_main has finished; in particular a running
\* loop is never reported as stopped.
StatusIsHonest ==
  /\ status.state = "STOP_PENDING" => ~running_flag
  /\ status.state = "STOPPED" => pc \in {"returned", "gone"}

\* A stop always completes, with or without a cooler: the flag is polled in
\* the streaming loop and in the reconnect loop alike.
StopCompletes == ~running_flag ~> pc = "gone"

\* "Survives the hardware": while the service runs and the cooler eventually
\* stays ready, the display eventually shows telemetry for good, whatever
\* unplugs and write errors came before.
StreamRecovers ==
  <>[](cooler = "ready" /\ running_flag /\ pc \in Loop) => <>[](screen = "lit")

\* docs/architecture.md:157 "ensure screens are never left frozen with outdated
\* values on exit": when service_main tears down while writes to the cooler
\* succeed, the display ends up blank.
NeverLeftFrozen ==
  [][pc = "off" /\ pc' # "off" /\ cooler = "ready" /\ screen = "lit"
       => screen' = "blank"]_vars

\* The phase of docs/architecture.md, section 5, the service is in.
Phase ==
  CASE pc \in {"returned", "abandoned", "gone"}             -> "Exited"
    [] pc \in Loop /\ device[Service] # "None"              -> "Streaming"
    [] pc = "off" /\ device[Service] # "None"               -> "TurningOff"
    [] OTHER                                                -> "Disconnected"

Lifecycle ==
  INSTANCE ScreenLifecycle
    WITH Clients <- {Service}, OneShot <- {}, TurnsOff <- TRUE,
         phase <- [c \in {Service} |-> Phase],
         link <- [c \in {Service} |-> Writable(c)]

\* The service implements the documented lifecycle: it never exits while it
\* streams, and only its reports change the display.
ImplementsLifecycle == Lifecycle!Spec
=============================================================================
