-------------------------- MODULE ServiceMainProofs --------------------------
(***************************************************************************)
(* The safety invariants of ServiceMain, proved for every set of Clients.  *)
(* None of them is inductive alone: what the handler finds depends on what *)
(* the SCM was told and when, and what a late report can do depends on the *)
(* location it was written at.  IInv adds those facts.  Then the refinement *)
(* of ScreenLifecycle, step by step, and what the service finally does.    *)
(***************************************************************************)
EXTENDS ServiceMain, DeviceProofs

\* A control can be delivered, or is being handled, only once the handle is
\* stored: the SCM accepts none before the first report.
HandleBeforeControl ==
  /\ status.accepts => handle_val
  /\ pc \notin {"register", "store", "abandoned", "gone"} => handle_val

\* A handler at work has cleared the flag, and none outlives its process.
HandlerHasCleared ==
  /\ handler = "flagged" => ~running_flag
  /\ pc = "gone" => handler = "idle"

\* The one late report was written by the Send the stop caught; the process has
\* not polled since.
LateOnlyBehindPoll ==
  late # 0 =>
    /\ late = 1
    /\ ~running_flag
    /\ pc \notin Startup \cup {"send", "retry", "abandoned"}

\* The cooler is opened in the loop and closed with the process.
OpenOnlyInside ==
  pc \in Startup \cup {"abandoned", "gone"} => device[Service] = "None"

IInv ==
  /\ TypeOK
  /\ HandleBeforeControl
  /\ HandlerFindsHandle
  /\ HandlerHasCleared
  /\ LateOnlyBehindPoll
  /\ OpenOnlyInside
  /\ BlankedBeforeStopped
  /\ StatusIsHonest

\* IInv holds when the SCM starts the process.
LEMMA IInvInit == Init => IInv
<1> SUFFICES ASSUME Init PROVE IInv
  OBVIOUS
<1> USE ServiceAssumption
<1>1. TypeOK
  BY DEF Init, DeviceInit, TypeOK, DeviceTypeOK, Locations, Startup, Statuses, States
<1>2. OpenOnlyInside
  BY DEF Init, DeviceInit, OpenOnlyInside
<1> QED
  BY <1>1, <1>2 DEF Init, IInv, HandleBeforeControl, HandlerFindsHandle, HandlerHasCleared,
     LateOnlyBehindPoll, BlankedBeforeStopped, StatusIsHonest

\* Every step of either thread, the SCM and the cooler keeps IInv.
LEMMA IInvNext == IInv /\ [Next]_vars => IInv'
<1> SUFFICES ASSUME IInv, [Next]_vars PROVE IInv'
  OBVIOUS
<1> USE ServiceAssumption DEF IInv
<1>1. CASE Register
  <2>1. TypeOK' /\ OpenOnlyInside'
    BY <1>1 DEF Register, deviceVars, TypeOK, DeviceTypeOK, OpenOnlyInside, Locations, Startup
  <2> QED
    BY <1>1, <2>1 DEF Register, deviceVars, HandleBeforeControl, HandlerFindsHandle,
       HandlerHasCleared, LateOnlyBehindPoll, BlankedBeforeStopped, StatusIsHonest, Startup
<1>2. CASE StoreHandle
  <2>1. TypeOK' /\ OpenOnlyInside'
    BY <1>2 DEF StoreHandle, Goto, deviceVars, TypeOK, DeviceTypeOK, OpenOnlyInside,
       Locations, Startup
  <2> QED
    BY <1>2, <2>1 DEF StoreHandle, Goto, deviceVars, HandleBeforeControl, HandlerFindsHandle,
       HandlerHasCleared, LateOnlyBehindPoll, BlankedBeforeStopped, StatusIsHonest, Startup
<1>3. CASE ReportStartPending
  <2>1. TypeOK' /\ OpenOnlyInside'
    BY <1>3 DEF ReportStartPending, Goto, Report, deviceVars, TypeOK, DeviceTypeOK,
       OpenOnlyInside, Locations, Startup, Statuses, States
  <2> QED
    BY <1>3, <2>1 DEF ReportStartPending, Goto, Report, deviceVars, HandleBeforeControl,
       HandlerFindsHandle, HandlerHasCleared, LateOnlyBehindPoll, BlankedBeforeStopped,
       StatusIsHonest, Startup
<1>4. CASE ReportRunning
  <2>1. TypeOK' /\ OpenOnlyInside'
    BY <1>4 DEF ReportRunning, Goto, Report, deviceVars, TypeOK, DeviceTypeOK,
       OpenOnlyInside, Locations, Startup, Statuses, States
  <2> QED
    BY <1>4, <2>1 DEF ReportRunning, Goto, Report, deviceVars, HandleBeforeControl,
       HandlerFindsHandle, HandlerHasCleared, LateOnlyBehindPoll, BlankedBeforeStopped,
       StatusIsHonest, Startup
<1>5. CASE OpenApi
  <2>1. TypeOK'
    <3>1. status' \in Statuses
      <4>1. status' = status \/ Report("STOPPED")
        BY <1>5, Zenon DEF OpenApi
      <4>2. CASE status' = status
        BY <4>2 DEF TypeOK
      <4>3. CASE Report("STOPPED")
        BY <4>3 DEF Report, Statuses, States
      <4> QED BY <4>1, <4>2, <4>3
    <3>2. pc' \in Locations
      BY <1>5 DEF OpenApi, Goto, Locations, Loop
    <3> QED
      BY <1>5, <3>1, <3>2 DEF OpenApi, deviceVars, TypeOK, DeviceTypeOK
  <2>2. OpenOnlyInside' /\ BlankedBeforeStopped'
    BY <1>5 DEF OpenApi, Goto, deviceVars, OpenOnlyInside, BlankedBeforeStopped, Startup
  <2> QED
    BY <1>5, <2>1, <2>2 DEF OpenApi, Goto, Report, HandleBeforeControl, HandlerFindsHandle,
       HandlerHasCleared, LateOnlyBehindPoll, StatusIsHonest, Startup
<1>6. CASE Poll
  <2>1. DeviceTypeOK'
    BY <1>6, DeviceSteps DEF Poll, TypeOK
  <2>2. TypeOK'
    BY <1>6, <2>1 DEF Poll, Goto, TypeOK, Locations, Loop
  <2>3. OpenOnlyInside'
    BY <1>6 DEF Poll, Goto, OpenOnlyInside, Startup
  <2> QED
    BY <1>6, <2>2, <2>3 DEF Poll, Goto, HandleBeforeControl, HandlerFindsHandle,
       HandlerHasCleared, LateOnlyBehindPoll, BlankedBeforeStopped, StatusIsHonest, Startup
<1>7. CASE Send
  <2>1. DeviceTypeOK'
    BY <1>7, DeviceSteps DEF Send, TypeOK
  <2>2. late = 0
    BY <1>7 DEF Send, Goto, LateOnlyBehindPoll
  <2>3. late' = 0 \/ (late' = 1 /\ ~running_flag)
    <3>1. CASE running_flag
      BY <1>7, <2>2, <3>1, Zenon DEF Send
    <3>2. CASE ~running_flag
      <4>1. late' = late \/ late' = late + 1
        BY <1>7, <3>2, Zenon DEF Send
      <4> QED BY <2>2, <3>2, <4>1
    <3> QED BY <3>1, <3>2, Zenon
  <2>4. TypeOK' /\ OpenOnlyInside'
    BY <1>7, <2>1, <2>3 DEF Send, Goto, TypeOK, Locations, Loop, OpenOnlyInside, Startup
  <2>5. LateOnlyBehindPoll'
    BY <1>7, <2>3 DEF Send, Goto, LateOnlyBehindPoll, Startup
  <2> QED
    BY <1>7, <2>4, <2>5 DEF Send, Goto, HandleBeforeControl, HandlerFindsHandle,
       HandlerHasCleared, BlankedBeforeStopped, StatusIsHonest
<1>8. CASE Wake
  <2>1. TypeOK' /\ OpenOnlyInside'
    BY <1>8 DEF Wake, deviceVars, TypeOK, DeviceTypeOK, OpenOnlyInside, Locations, Startup, Loop
  <2> QED
    BY <1>8, <2>1 DEF Wake, deviceVars, HandleBeforeControl, HandlerFindsHandle,
       HandlerHasCleared, LateOnlyBehindPoll, BlankedBeforeStopped, StatusIsHonest, Startup
<1>9. CASE LeaveLoop
  <2>1. TypeOK' /\ OpenOnlyInside'
    BY <1>9 DEF LeaveLoop, Goto, deviceVars, TypeOK, DeviceTypeOK, OpenOnlyInside,
       Locations, Startup, Teardown
  <2> QED
    BY <1>9, <2>1 DEF LeaveLoop, Goto, deviceVars, HandleBeforeControl, HandlerFindsHandle,
       HandlerHasCleared, LateOnlyBehindPoll, BlankedBeforeStopped, StatusIsHonest, Startup
<1>10. CASE SendOff
  <2>1. DeviceTypeOK' /\ BlankedBeforeStopped'
    BY <1>10, DeviceSteps DEF SendOff, TypeOK, BlankedBeforeStopped, Shown
  <2>2. TypeOK' /\ OpenOnlyInside'
    BY <1>10, <2>1 DEF SendOff, Goto, TypeOK, Locations, Teardown, OpenOnlyInside, Startup
  <2> QED
    BY <1>10, <2>1, <2>2 DEF SendOff, Goto, HandleBeforeControl, HandlerFindsHandle,
       HandlerHasCleared, LateOnlyBehindPoll, StatusIsHonest, Startup
<1>11. CASE ReportStopped
  <2>1. TypeOK' /\ OpenOnlyInside'
    BY <1>11 DEF ReportStopped, Goto, Report, deviceVars, TypeOK, DeviceTypeOK,
       OpenOnlyInside, Locations, Startup, Statuses, States
  <2>2. BlankedBeforeStopped'
    BY <1>11 DEF ReportStopped, Goto, deviceVars, BlankedBeforeStopped
  <2> QED
    BY <1>11, <2>1, <2>2 DEF ReportStopped, Goto, Report, HandleBeforeControl,
       HandlerFindsHandle, HandlerHasCleared, LateOnlyBehindPoll, StatusIsHonest, Startup
<1>12. CASE Control
  <2>1. TypeOK' /\ OpenOnlyInside' /\ BlankedBeforeStopped'
    BY <1>12 DEF Control, deviceVars, TypeOK, DeviceTypeOK, OpenOnlyInside, BlankedBeforeStopped
  <2>2. late = 0 \/ ~running_flag
    BY DEF LateOnlyBehindPoll
  <2> QED
    BY <1>12, <2>1, <2>2 DEF Control, Deliverable, HandleBeforeControl, HandlerFindsHandle,
       HandlerHasCleared, LateOnlyBehindPoll, StatusIsHonest
<1>13. CASE ReportStopPending
  <2>1. status' = [state |-> "STOP_PENDING", accepts |-> FALSE]
    BY <1>13 DEF ReportStopPending, HandlerFindsHandle
  <2>2. TypeOK' /\ OpenOnlyInside' /\ BlankedBeforeStopped'
    BY <1>13, <2>1 DEF ReportStopPending, deviceVars, TypeOK, DeviceTypeOK, OpenOnlyInside,
       BlankedBeforeStopped, Statuses, States
  <2> QED
    BY <1>13, <2>1, <2>2 DEF ReportStopPending, HandleBeforeControl, HandlerFindsHandle,
       HandlerHasCleared, LateOnlyBehindPoll, StatusIsHonest
<1>14. CASE ProcessExit
  <2>1. DeviceTypeOK' /\ device'[Service] = "None"
    BY <1>14, DeviceSteps DEF ProcessExit, TypeOK
  <2>2. TypeOK' /\ OpenOnlyInside' /\ BlankedBeforeStopped'
    BY <1>14, <2>1 DEF ProcessExit, TypeOK, OpenOnlyInside, BlankedBeforeStopped, Locations,
       Statuses, States
  <2> QED
    BY <1>14, <2>2 DEF ProcessExit, HandleBeforeControl, HandlerFindsHandle,
       HandlerHasCleared, LateOnlyBehindPoll, StatusIsHonest, Startup
<1>15. CASE StartService
  <2>1. TypeOK' /\ OpenOnlyInside' /\ BlankedBeforeStopped'
    BY <1>15 DEF StartService, deviceVars, TypeOK, DeviceTypeOK, OpenOnlyInside,
       BlankedBeforeStopped, Locations, Startup, Statuses, States
  <2> QED
    BY <1>15, <2>1 DEF StartService, HandleBeforeControl, HandlerFindsHandle,
       HandlerHasCleared, LateOnlyBehindPoll, StatusIsHonest
<1>16. CASE Bus /\ UNCHANGED serviceVars
  <2>1. DeviceTypeOK' /\ OpenOnlyInside' /\ BlankedBeforeStopped'
    BY <1>16, BusSteps DEF TypeOK, OpenOnlyInside, BlankedBeforeStopped, serviceVars
  <2> QED
    BY <1>16, <2>1 DEF serviceVars, TypeOK, HandleBeforeControl, HandlerFindsHandle,
       HandlerHasCleared, LateOnlyBehindPoll, StatusIsHonest
<1>17. CASE UNCHANGED vars
  BY <1>17 DEF vars, deviceVars, serviceVars, TypeOK, DeviceTypeOK, HandleBeforeControl,
     HandlerFindsHandle, HandlerHasCleared, LateOnlyBehindPoll, OpenOnlyInside,
     BlankedBeforeStopped, StatusIsHonest
<1> QED
  BY <1>1, <1>2, <1>3, <1>4, <1>5, <1>6, <1>7, <1>8, <1>9, <1>10, <1>11, <1>12, <1>13,
     <1>14, <1>15, <1>16, <1>17 DEF Next, Run

\* The strengthened invariant holds in every reachable state.
THEOREM ServiceInvariant == Spec => []IInv
  BY IInvInit, IInvNext, PTL DEF Spec

\* Every variable keeps to its declared values, whatever the set of clients.
THEOREM TypeCorrect == Spec => []TypeOK
<1>1. IInv => TypeOK
  BY DEF IInv
<1> QED BY <1>1, ServiceInvariant, PTL

\* service_handler never loads a null SERVICE_STATUS_HANDLE_VAL.
THEOREM HandlerAlwaysFindsHandle == Spec => []HandlerFindsHandle
<1>1. IInv => HandlerFindsHandle
  BY DEF IInv
<1> QED BY <1>1, ServiceInvariant, PTL

\* At most one telemetry report follows the stop request.
THEOREM LateReportBounded == Spec => []AtMostOneLateReport
<1>1. IInv => AtMostOneLateReport
  BY DEF IInv, LateOnlyBehindPoll, AtMostOneLateReport, TypeOK
<1> QED BY <1>1, ServiceInvariant, PTL

\* A service that stops with a good handle leaves a blank display.
THEOREM StopsBlanked == Spec => []BlankedBeforeStopped
<1>1. IInv => BlankedBeforeStopped
  BY DEF IInv
<1> QED BY <1>1, ServiceInvariant, PTL

\* The SCM is never told that a running loop is stopping unasked, or stopped.
THEOREM HonestStatus == Spec => []StatusIsHonest
<1>1. IInv => StatusIsHonest
  BY DEF IInv
<1> QED BY <1>1, ServiceInvariant, PTL

-----------------------------------------------------------------------------
(* The service implements the documented lifecycle.                        *)

\* Lifecycle! takes functions over {Service} for its variables: how they change
\* when the phase or the link of the service does.
LEMMA PhaseMoves ==
  ASSUME NEW to, Phase' = to
  PROVE  Lifecycle!Move(Service, Phase, to)
BY DEF Lifecycle!Move

LEMMA PhaseStays ==
  ASSUME Phase' = Phase
  PROVE  [c \in {Service} |-> Phase]' = [c \in {Service} |-> Phase]
BY Zenon

LEMMA LinkStays ==
  ASSUME Writable(Service)' = Writable(Service)
  PROVE  [c \in {Service} |-> Writable(c)]' = [c \in {Service} |-> Writable(c)]
BY Zenon

LEMMA LinkBecomes ==
  ASSUME NEW b \in BOOLEAN, Writable(Service)' = b
  PROVE  [c \in {Service} |-> Writable(c)]' =
           [[c \in {Service} |-> Writable(c)] EXCEPT ![Service] = b]
BY Zenon

\* A step that changes neither phase, link nor screen stutters.
LEMMA Stutters ==
  ASSUME Phase' = Phase, Writable(Service)' = Writable(Service), screen' = screen
  PROVE  UNCHANGED Lifecycle!lifecycleVars
BY PhaseStays, LinkStays DEF Lifecycle!lifecycleVars

\* A step of the environment: any link, and a screen that may lose power.
LEMMA Disturbs ==
  ASSUME Phase' = Phase, screen' \in {screen, "dark"}
  PROVE  Lifecycle!Disturb
<1>1. [c \in {Service} |-> Writable(c)]' \in [{Service} -> BOOLEAN]
  BY DEF Writable
<1> QED BY <1>1, PhaseStays DEF Lifecycle!Disturb

\* A write that failed through a handle the service held, and then forgot.
LEMMA Loses ==
  ASSUME NEW on \in BOOLEAN, SendErr(Service, on), DeviceTypeOK,
         Phase = IF on THEN "Streaming" ELSE "TurningOff", Phase' = "Disconnected"
  PROVE  Lifecycle!Lose(Service)
<1> USE ServiceAssumption
<1>1. ~Writable(Service) /\ Writable(Service)' = Writable(Service)
  BY DEF SendErr, Writable, HandlesAfterError, DeviceTypeOK
<1>2. screen' \in {screen, IF on THEN "lit" ELSE "blank"}
  BY DEF SendErr, Shown
<1>3. Lifecycle!Move(Service, IF on THEN "Streaming" ELSE "TurningOff", "Disconnected")
  BY PhaseMoves
<1>4. ~[c \in {Service} |-> Writable(c)][Service]
  BY <1>1
<1> QED BY <1>1, <1>2, <1>3, <1>4, LinkStays DEF Lifecycle!Lose

LEMMA RefinementInit == Init => Lifecycle!Init
BY ServiceAssumption
   DEF Init, DeviceInit, Lifecycle!Init, Phase, Loop, Writable

\* Every step of the service is a step of its lifecycle or changes nothing there.
LEMMA RefinementNext == IInv /\ [Next]_vars => [Lifecycle!Next]_(Lifecycle!lifecycleVars)
<1> SUFFICES ASSUME IInv, [Next]_vars
             PROVE  Lifecycle!Next \/ UNCHANGED Lifecycle!lifecycleVars
  OBVIOUS
<1> USE ServiceAssumption
<1>0. TypeOK /\ DeviceTypeOK /\ OpenOnlyInside
  BY DEF IInv, TypeOK
<1> DEFINE d == device[Service]
\* Steps that leave the device alone.
<1>1. ASSUME UNCHANGED deviceVars
      PROVE  Writable(Service)' = Writable(Service) /\ screen' = screen /\ d' = d
  BY <1>1 DEF deviceVars, Writable
<1>2. ASSUME Phase = "Disconnected", Phase' = "Exited", UNCHANGED deviceVars
      PROVE  Lifecycle!Next
  <2>1. Lifecycle!Exit(Service)
    BY <1>1, <1>2, PhaseMoves, LinkStays DEF Lifecycle!Exit
  <2> QED BY <2>1 DEF Lifecycle!Next
<1>3. CASE Register
  <2>1. Phase = "Disconnected" /\ UNCHANGED deviceVars
    BY <1>3 DEF Register, Phase, Loop
  <2>2. Phase' = "Disconnected" \/ Phase' = "Exited"
    BY <1>3 DEF Register, Phase, Loop
  <2> QED BY <1>1, <1>2, <2>1, <2>2, Stutters
<1>4. CASE StoreHandle \/ ReportStartPending \/ ReportRunning
  <2>1. Phase = "Disconnected" /\ Phase' = "Disconnected" /\ UNCHANGED deviceVars
    BY <1>4 DEF StoreHandle, ReportStartPending, ReportRunning, Goto, Phase, Loop
  <2> QED BY <1>1, <2>1, Stutters
<1>5. CASE OpenApi
  <2>1. Phase = "Disconnected" /\ UNCHANGED deviceVars
    BY <1>5 DEF OpenApi, Goto, Phase, Loop
  <2>2. d = "None"
    BY <1>0, <1>5 DEF OpenApi, Goto, OpenOnlyInside, Startup
  <2>3. Phase' = "Disconnected" \/ Phase' = "Exited"
    BY <1>1, <1>5, <2>1, <2>2 DEF OpenApi, Goto, Phase, Loop
  <2> QED BY <1>1, <1>2, <2>1, <2>3, Stutters
<1>6. CASE Poll
  <2>1. pc \in Loop /\ pc' \in Loop
    BY <1>6 DEF Poll, Goto, Loop
  <2>2. screen' = screen
    BY <1>6 DEF Poll, ConnectOk, ConnectErr, deviceVars
  <2>3. CASE UNCHANGED device
    <3>1. UNCHANGED deviceVars
      BY <1>6, <2>3 DEF Poll, ConnectOk, ConnectErr, deviceVars
    <3>2. Phase' = Phase
      BY <2>1, <2>3 DEF Phase, Loop
    <3> QED BY <1>1, <3>1, <3>2, Stutters
  <2>4. CASE d = "None" /\ cooler = "ready" /\ cooler' = "ready" /\ d' = "Live"
    <3>1. Phase = "Disconnected" /\ Phase' = "Streaming"
      BY <2>1, <2>4 DEF Phase, Loop
    <3>2. Writable(Service)' = TRUE
      BY <2>4 DEF Writable
    <3>3. Lifecycle!Open(Service)
      BY <2>2, <3>1, <3>2, PhaseMoves, LinkBecomes DEF Lifecycle!Open
    <3> QED BY <3>3 DEF Lifecycle!Next
  <2> QED BY <1>0, <1>6, <2>3, <2>4 DEF Poll, ConnectOk, ConnectErr, deviceVars, DeviceTypeOK
<1>7. ASSUME NEW on \in BOOLEAN, SendErr(Service, on), d = "None", Phase' = Phase
      PROVE  UNCHANGED Lifecycle!lifecycleVars
  <2>1. screen' = screen
    BY <1>7 DEF SendErr
  <2>2. Writable(Service)' = Writable(Service)
    BY <1>0, <1>7 DEF SendErr, Writable, HandlesAfterError, DeviceTypeOK
  <2> QED BY <1>7, <2>1, <2>2, Stutters
<1>8. CASE Send
  <2>1. pc \in Loop /\ pc' \in Loop
    BY <1>8 DEF Send, Goto, Loop
  <2>2. CASE SendOk(Service, TRUE)
    <3>1. Writable(Service) /\ Writable(Service)' = Writable(Service) /\ d' = d /\ d # "None"
      BY <2>2 DEF SendOk, Writable
    <3>2. Phase = "Streaming" /\ Phase' = Phase
      BY <2>1, <3>1 DEF Phase, Loop
    <3>3. screen' = "lit"
      BY <2>2 DEF SendOk, Shown
    <3>4. Lifecycle!Refresh(Service)
      BY <3>1, <3>2, <3>3, PhaseStays, LinkStays DEF Lifecycle!Refresh
    <3> QED BY <3>4 DEF Lifecycle!Next
  <2>3. CASE SendErr(Service, TRUE)
    <3>1. d' = "None"
      BY <1>0, <2>3, DeviceSteps
    <3>2. Phase' = "Disconnected"
      BY <2>1, <3>1 DEF Phase, Loop
    <3>3. CASE d = "None"
      <4>1. Phase = "Disconnected"
        BY <2>1, <3>3 DEF Phase, Loop
      <4> QED BY <1>7, <2>3, <3>2, <3>3, <4>1
    <3>4. CASE d # "None"
      <4>1. Phase = "Streaming"
        BY <2>1, <3>4 DEF Phase, Loop
      <4>2. Lifecycle!Lose(Service)
        BY <1>0, <2>3, <3>2, <4>1, Loses
      <4> QED BY <4>2 DEF Lifecycle!Next
    <3> QED BY <3>3, <3>4
  <2> QED BY <1>8, <2>2, <2>3 DEF Send
<1>9. CASE Wake
  <2>1. Phase' = Phase /\ UNCHANGED deviceVars
    BY <1>9 DEF Wake, Phase, Loop, deviceVars
  <2> QED BY <1>1, <2>1, Stutters
<1>10. CASE LeaveLoop
  <2>1. UNCHANGED deviceVars
    BY <1>10 DEF LeaveLoop
  <2>2. CASE d = "None"
    <3>1. Phase = "Disconnected" /\ Phase' = "Disconnected"
      BY <1>1, <1>10, <2>1, <2>2 DEF LeaveLoop, Goto, Phase, Loop
    <3> QED BY <1>1, <2>1, <3>1, Stutters
  <2>3. CASE d # "None"
    <3>1. Phase = "Streaming" /\ Phase' = "TurningOff"
      BY <1>1, <1>10, <2>1, <2>3 DEF LeaveLoop, Goto, Phase, Loop
    <3>2. Lifecycle!Stop(Service)
      BY <1>1, <2>1, <3>1, PhaseMoves, LinkStays DEF Lifecycle!Stop
    <3> QED BY <3>2 DEF Lifecycle!Next
  <2> QED BY <2>2, <2>3
<1>11. CASE SendOff
  <2>1. pc = "off" /\ Phase' = "Disconnected"
    BY <1>11 DEF SendOff, Goto, Phase, Loop
  <2>2. CASE SendOk(Service, FALSE)
    <3>1. Writable(Service) /\ Writable(Service)' = Writable(Service) /\ d # "None"
      BY <2>2 DEF SendOk, Writable
    <3>2. Phase = "TurningOff"
      BY <2>1, <3>1 DEF Phase, Loop
    <3>3. screen' = "blank"
      BY <2>2 DEF SendOk, Shown
    <3>4. Lifecycle!Blank(Service)
      BY <2>1, <3>1, <3>2, <3>3, PhaseMoves, LinkStays DEF Lifecycle!Blank
    <3> QED BY <3>4 DEF Lifecycle!Next
  <2>3. CASE SendErr(Service, FALSE)
    <3>1. CASE d = "None"
      <4>1. Phase = "Disconnected"
        BY <2>1, <3>1 DEF Phase, Loop
      <4> QED BY <1>7, <2>1, <2>3, <3>1, <4>1
    <3>2. CASE d # "None"
      <4>1. Phase = "TurningOff"
        BY <2>1, <3>2 DEF Phase, Loop
      <4>2. Lifecycle!Lose(Service)
        BY <1>0, <2>1, <2>3, <4>1, Loses
      <4> QED BY <4>2 DEF Lifecycle!Next
    <3> QED BY <3>1, <3>2
  <2> QED BY <1>11, <2>2, <2>3 DEF SendOff
<1>12. CASE ReportStopped
  <2>1. Phase = "Disconnected" /\ Phase' = "Exited" /\ UNCHANGED deviceVars
    BY <1>12 DEF ReportStopped, Goto, Phase, Loop
  <2> QED BY <1>2, <2>1
<1>13. CASE Control \/ ReportStopPending
  <2>1. Phase' = Phase /\ UNCHANGED deviceVars
    BY <1>13 DEF Control, ReportStopPending, Phase, Loop, deviceVars
  <2> QED BY <1>1, <2>1, Stutters
<1>14. CASE ProcessExit
  <2>1. Phase' = Phase /\ screen' = screen
    BY <1>14 DEF ProcessExit, Phase, Loop, Drop
  <2> QED BY <2>1, Disturbs DEF Lifecycle!Next
<1>15. CASE StartService
  <2>1. Phase = "Exited" /\ Phase' = "Disconnected" /\ UNCHANGED deviceVars
    BY <1>15 DEF StartService, Phase, Loop
  <2>2. Lifecycle!Start(Service)
    BY <1>1, <2>1, PhaseMoves, LinkStays DEF Lifecycle!Start
  <2> QED BY <2>2 DEF Lifecycle!Next
<1>16. CASE Bus /\ UNCHANGED serviceVars
  <2>1. pc' = pc /\ (d' = "None" <=> d = "None")
    BY <1>0, <1>16, BusSteps DEF serviceVars
  <2>2. Phase' = Phase
    BY <2>1 DEF Phase, Loop
  <2>3. screen' \in {screen, "dark"}
    BY <1>16 DEF Bus, Unplug, Plug, Falter, Settle
  <2> QED BY <2>2, <2>3, Disturbs DEF Lifecycle!Next
<1>17. CASE UNCHANGED vars
  <2>1. Phase' = Phase /\ UNCHANGED deviceVars
    BY <1>17 DEF vars, serviceVars, deviceVars, Phase, Loop
  <2> QED BY <1>1, <2>1, Stutters
<1> QED
  BY <1>3, <1>4, <1>5, <1>6, <1>8, <1>9, <1>10, <1>11, <1>12, <1>13, <1>14, <1>15, <1>16,
     <1>17 DEF Next, Run

\* The service implements the documented lifecycle: it never exits while it
\* streams, and the display shows only what it wrote in the right phase.
THEOREM LifecycleImplemented == Spec => ImplementsLifecycle
BY ServiceInvariant, RefinementInit, RefinementNext, PTL
   DEF Spec, ImplementsLifecycle, Lifecycle!Spec
-----------------------------------------------------------------------------
(* What the service finally does.  The prover takes ENABLED as it finds it: *)
(* NeverStuck says of the three fair actions when they can be taken, and    *)
(* the theorems below have it for a hypothesis.                             *)

\* service_main has a next statement until it returns; a handler at work has one; a
\* process whose service_main has returned can end.  Each of these is an exact guard:
\* connect() and send() return Ok or Err whatever the cooler does.
NeverStuck ==
  /\ pc \notin {"returned", "abandoned", "gone"} => ENABLED <<Run>>_vars
  /\ handler = "flagged" => ENABLED <<ReportStopPending>>_vars
  /\ pc = "returned" /\ handler = "idle" => ENABLED <<ProcessExit>>_vars

\* No control is delivered before the first report, or after the last.
ControlsInside ==
  /\ pc \in {"register", "store", "pending", "abandoned"} => running_flag /\ ~status.accepts
  /\ pc = "returned" => ~Deliverable

\* ControlsInside is an invariant.
LEMMA ControlsInsideHolds ==
  /\ Init => ControlsInside
  /\ IInv /\ ControlsInside /\ [Next]_vars => ControlsInside'
<1>1. Init => ControlsInside
  BY DEF Init, ControlsInside
<1>2. ASSUME IInv, ControlsInside, [Next]_vars PROVE ControlsInside'
  <2> USE <1>2
  <2>1. CASE Register \/ StoreHandle
    BY <2>1 DEF Register, StoreHandle, Goto, ControlsInside
  <2>2. CASE ReportStartPending \/ ReportRunning
    BY <2>2 DEF ReportStartPending, ReportRunning, Goto, ControlsInside
  <2>3. CASE OpenApi
    BY <2>3 DEF OpenApi, Goto, Report, ControlsInside, Deliverable
  <2>4. CASE Poll \/ Wake \/ LeaveLoop
    BY <2>4 DEF Poll, Wake, LeaveLoop, Goto, ControlsInside
  <2>5. CASE Send \/ SendOff
    BY <2>5 DEF Send, SendOff, Goto, ControlsInside
  <2>6. CASE ReportStopped
    BY <2>6 DEF ReportStopped, Goto, Report, ControlsInside, Deliverable
  <2>7. CASE Control
    BY <2>7 DEF Control, ControlsInside, Deliverable
  <2>8. CASE ReportStopPending
    <3>1. status' = [state |-> "STOP_PENDING", accepts |-> FALSE]
      BY <2>8 DEF ReportStopPending, IInv, HandlerFindsHandle
    <3> QED BY <2>8, <3>1 DEF ReportStopPending, ControlsInside, Deliverable
  <2>9. CASE ProcessExit \/ StartService
    BY <2>9 DEF ProcessExit, StartService, ControlsInside
  <2>10. CASE UNCHANGED serviceVars
    BY <2>10 DEF serviceVars, ControlsInside, Deliverable
  <2> QED
    BY <2>1, <2>2, <2>3, <2>4, <2>5, <2>6, <2>7, <2>8, <2>9, <2>10 DEF Next, Run, vars
<1> QED BY <1>1, <1>2

\* How many statements of service_main are left once the flag is cleared.
Left ==
  CASE pc = "running" -> 7
    [] pc \in {"api", "send"} -> 6
    [] pc \in {"tick", "retry"} -> 5
    [] pc = "poll" -> 4
    [] pc = "off" -> 3
    [] pc = "stopping" -> 2
    [] OTHER -> 1

\* The service was told to stop and has at most n statements left.
Within(n) == ~running_flag /\ pc # "gone" /\ Left <= n

\* No step but the last takes a service that was told to stop back, and each of its
\* own takes it forward.
LEMMA StopAdvances ==
  ASSUME NEW n \in 1 .. 7, IInv, ControlsInside, Within(n), [Next]_vars
  PROVE  /\ Within(n)' \/ pc' = "gone"
         /\ Run => Within(n - 1)' /\ n > 1
<1> DEFINE Goes(from, to) == pc = from /\ pc' = to /\ running_flag' = running_flag
<1>1. CASE Register \/ StoreHandle \/ ReportStartPending
  BY <1>1 DEF Register, StoreHandle, ReportStartPending, Goto, ControlsInside, Within
<1>2. CASE ReportRunning \/ OpenApi
  <2>1. Goes("running", "api") \/ Goes("api", "poll") \/ Goes("api", "returned")
    BY <1>2 DEF ReportRunning, OpenApi, Goto
  <2> QED BY <2>1 DEF Within, Left
<1>3. CASE Poll
  BY <1>3 DEF Poll, Within
<1>4. CASE Send \/ Wake
  <2>1. Goes("send", "tick") \/ Goes("tick", "poll") \/ Goes("retry", "poll")
    BY <1>4 DEF Send, Wake, Goto
  <2> QED BY <2>1 DEF Within, Left
<1>5. CASE LeaveLoop \/ SendOff \/ ReportStopped
  <2>1. Goes("poll", "off") \/ Goes("off", "stopping") \/ Goes("stopping", "returned")
    BY <1>5 DEF LeaveLoop, SendOff, ReportStopped, Goto
  <2> QED BY <2>1 DEF Within, Left
<1>6. CASE ~Run
  <2>1. Control \/ ReportStopPending \/ ProcessExit \/ UNCHANGED serviceVars
    BY <1>6 DEF Next, vars, StartService, Within
  <2> QED BY <1>6, <2>1 DEF Control, ReportStopPending, ProcessExit, serviceVars, Within, Left
<1> QED BY <1>1, <1>2, <1>3, <1>4, <1>5, <1>6 DEF Run

\* service_main is told to stop, and returns.
LEMMA StopReturns ==
  FairSpec /\ []NeverStuck => (Within(7) ~> Within(1) \/ pc = "gone")
<1>1. IInv /\ ControlsInside /\ [Next]_vars =>
        /\ Within(7) => Within(7)' \/ (pc = "gone")'
        /\ Within(6) => Within(6)' \/ (pc = "gone")'
        /\ Within(5) => Within(5)' \/ (pc = "gone")'
        /\ Within(4) => Within(4)' \/ (pc = "gone")'
        /\ Within(3) => Within(3)' \/ (pc = "gone")'
        /\ Within(2) => Within(2)' \/ (pc = "gone")'
  BY StopAdvances
<1>2. IInv /\ ControlsInside /\ [Next]_vars /\ <<Run>>_vars =>
        /\ Within(7) => Within(6)'
        /\ Within(6) => Within(5)'
        /\ Within(5) => Within(4)'
        /\ Within(4) => Within(3)'
        /\ Within(3) => Within(2)'
        /\ Within(2) => Within(1)'
  <2>1. ASSUME NEW n \in 2 .. 7, NEW m \in 1 .. 6, m = n - 1,
               IInv, ControlsInside, Within(n), [Next]_vars, Run
        PROVE  Within(m)'
    BY <2>1, StopAdvances
  <2> QED BY <2>1
<1>3. NeverStuck /\ ControlsInside /\ Within(7) => Within(1) \/ ENABLED <<Run>>_vars
  <2> SUFFICES ASSUME NeverStuck, ControlsInside, Within(7), ~Within(1)
               PROVE  pc \notin {"returned", "abandoned", "gone"}
    BY DEF NeverStuck
  <2> QED BY DEF Within, Left, ControlsInside
<1>4. Within(6) \/ Within(5) \/ Within(4) \/ Within(3) \/ Within(2) => Within(7)
  BY DEF Within, Left
<1> QED BY <1>1, <1>2, <1>3, <1>4, ControlsInsideHolds, ServiceInvariant, PTL
        DEF FairSpec, Spec, Fairness

\* A service_main that has returned is no longer interrupted: the handler finishes, and
\* the process ends.
LEMMA ReturnedEnds ==
  FairSpec /\ []NeverStuck => (Within(1) ~> pc = "gone")
<1> DEFINE Returned == pc = "returned"
           Quiet == pc = "returned" /\ handler = "idle"
<1>1. IInv /\ ControlsInside /\ Within(1) => Returned
  BY DEF IInv, TypeOK, Locations, Startup, Loop, Teardown, ControlsInside, Within, Left
<1>2. ControlsInside /\ Returned /\ [Next]_vars => Returned' \/ (pc = "gone")'
  <2> SUFFICES ASSUME ControlsInside, Returned, [Next]_vars PROVE Returned' \/ pc' = "gone"
    OBVIOUS
  <2>1. ~Run /\ ~StartService
    BY DEF Run, Register, StoreHandle, ReportStartPending, ReportRunning, OpenApi, Poll, Send,
           Wake, LeaveLoop, SendOff, ReportStopped, StartService, Goto
  <2> QED BY <2>1 DEF Next, Control, ReportStopPending, ProcessExit, vars, serviceVars
<1>3. ControlsInside /\ Quiet /\ [Next]_vars => Quiet' \/ (pc = "gone")'
  <2> SUFFICES ASSUME ControlsInside, Quiet, [Next]_vars PROVE Quiet' \/ pc' = "gone"
    OBVIOUS
  <2>1. ~Run /\ ~StartService
    BY DEF Run, Register, StoreHandle, ReportStartPending, ReportRunning, OpenApi, Poll, Send,
           Wake, LeaveLoop, SendOff, ReportStopped, StartService, Goto
  <2>2. ~Control /\ ~ReportStopPending
    BY DEF ControlsInside, Control, ReportStopPending
  <2> QED BY <2>1, <2>2 DEF Next, ProcessExit, vars, serviceVars
<1>4. ControlsInside /\ Returned /\ [Next]_vars /\ <<ReportStopPending>>_vars => Quiet'
  BY DEF ReportStopPending
<1>5. Quiet /\ <<ProcessExit>>_vars => (pc = "gone")'
  BY DEF ProcessExit
<1>6. IInv /\ NeverStuck /\ Returned => Quiet \/ ENABLED <<ReportStopPending>>_vars
  BY DEF NeverStuck, IInv, TypeOK
<1>7. NeverStuck /\ Quiet => ENABLED <<ProcessExit>>_vars
  BY DEF NeverStuck
<1> HIDE DEF Returned, Quiet
<1>8. FairSpec /\ []NeverStuck => (Returned ~> Quiet \/ pc = "gone")
  BY <1>2, <1>4, <1>6, ControlsInsideHolds, ServiceInvariant, PTL DEF FairSpec, Spec, Fairness
<1>9. FairSpec /\ []NeverStuck => (Quiet ~> pc = "gone")
  BY <1>3, <1>5, <1>7, ControlsInsideHolds, ServiceInvariant, PTL DEF FairSpec, Spec, Fairness
<1> QED BY <1>1, <1>8, <1>9, ControlsInsideHolds, ServiceInvariant, PTL DEF FairSpec, Spec

\* A stop always completes, with or without a cooler, and whatever the cooler does.
THEOREM StopAlwaysCompletes == FairSpec /\ []NeverStuck => StopCompletes
<1>1. ~running_flag => Within(7) \/ pc = "gone"
  BY DEF Within, Left
<1> QED BY <1>1, StopReturns, ReturnedEnds, PTL DEF StopCompletes

\* The service streams or retries, was not told to stop, and the cooler answers.
Undisturbed == cooler = "ready" /\ running_flag /\ pc \in Loop

\* The statements service_main has left to the report that lights the display: it finds
\* a handle of before an unplug dead, opens the cooler again, and writes.
ToReport ==
  CASE device[Service] = "Stale" /\ pc \in {"tick", "retry"} -> 6
    [] device[Service] = "Stale" /\ pc = "poll" -> 5
    [] device[Service] # "Live" /\ pc = "send" -> 4
    [] device[Service] # "Stale" /\ pc \in {"tick", "retry"} -> 3
    [] device[Service] # "Stale" /\ pc = "poll" -> 2
    [] OTHER -> 1

LitWithin(n) == screen = "lit" \/ ToReport <= n

\* Undisturbed, no step takes the report further away, and each statement of
\* service_main brings it nearer; a display that is lit stays so.
LEMMA StreamAdvances ==
  ASSUME NEW n \in 1 .. 6, IInv, Undisturbed, Undisturbed', LitWithin(n), [Next]_vars
  PROVE  LitWithin(n)' /\ (Run => LitWithin(n - 1)')
<1> USE ServiceAssumption
<1> DEFINE d == device[Service]
           Goes(from, to) == pc = from /\ pc' = to
<1>1. d \in {"None", "Live", "Stale"} /\ DeviceTypeOK
  BY DEF IInv, TypeOK, DeviceTypeOK
<1>2. CASE Poll
  <2>1. Goes("poll", "send") /\ ConnectOk(Service)
    BY <1>2 DEF Poll, Goto, ConnectErr, Undisturbed
  <2>2. screen' = screen /\ d' = IF d = "None" THEN "Live" ELSE d
    BY <1>1, <2>1 DEF ConnectOk, DeviceTypeOK
  <2> HIDE DEF d
  <2>3. ToReport' = IF d = "Stale" THEN 4 ELSE 1
    BY <1>1, <2>1, <2>2 DEF ToReport, d
  <2>4. ToReport = IF d = "Stale" THEN 5 ELSE 2
    BY <1>1, <2>1 DEF ToReport, d
  <2> QED BY <2>2, <2>3, <2>4 DEF LitWithin
<1>3. CASE Send
  <2>1. Goes("send", "tick") /\ (SendOk(Service, TRUE) \/ SendErr(Service, TRUE))
    BY <1>3 DEF Send, Goto
  <2>2. CASE SendOk(Service, TRUE)
    BY <2>2 DEF SendOk, Shown, LitWithin
  <2>3. CASE SendErr(Service, TRUE)
    <3>1. d # "Live" /\ screen' = screen /\ d' = "None"
      BY <1>1, <2>3, DeviceSteps DEF SendErr, Writable, Undisturbed
    <3> HIDE DEF d
    <3>2. ToReport = 4 /\ ToReport' = 3
      BY <2>1, <3>1 DEF ToReport, d
    <3> QED BY <3>1, <3>2 DEF LitWithin
  <2> QED BY <2>1, <2>2, <2>3
<1>4. CASE Wake
  <2>1. pc \in {"tick", "retry"} /\ pc' = "poll" /\ screen' = screen /\ d' = d
    BY <1>4 DEF Wake, deviceVars
  <2> HIDE DEF d
  <2>2. ToReport = (IF d = "Stale" THEN 6 ELSE 3) /\ ToReport' = (IF d = "Stale" THEN 5 ELSE 2)
    BY <1>1, <2>1 DEF ToReport, d
  <2> QED BY <2>1, <2>2 DEF LitWithin
<1>5. CASE Run /\ ~Poll /\ ~Send /\ ~Wake
  BY <1>5 DEF Run, Register, StoreHandle, ReportStartPending, ReportRunning, OpenApi,
     LeaveLoop, SendOff, ReportStopped, Goto, Undisturbed, Loop
<1>6. CASE ~Run
  <2>1. UNCHANGED <<pc, deviceVars>>
    BY <1>6 DEF Next, Control, ReportStopPending, ProcessExit, StartService, vars, serviceVars,
       Undisturbed, Loop, Bus, Unplug, Plug, Falter, Settle
  <2> QED BY <1>6, <2>1 DEF LitWithin, ToReport, deviceVars
<1> QED BY <1>2, <1>3, <1>4, <1>5, <1>6

\* Left undisturbed the service lights the display for good, whatever was unplugged,
\* refused or told to stop before.
THEOREM StreamAlwaysRecovers == FairSpec /\ []NeverStuck => StreamRecovers
<1>1. IInv /\ Undisturbed /\ Undisturbed' /\ [Next]_vars =>
        /\ LitWithin(6) => LitWithin(6)'
        /\ LitWithin(5) => LitWithin(5)'
        /\ LitWithin(4) => LitWithin(4)'
        /\ LitWithin(3) => LitWithin(3)'
        /\ LitWithin(2) => LitWithin(2)'
        /\ LitWithin(1) => LitWithin(1)'
        /\ screen = "lit" => (screen = "lit")'
  <2>1. IInv /\ Undisturbed /\ Undisturbed' /\ [Next]_vars /\ screen = "lit" => screen' = "lit"
    <3> SUFFICES ASSUME IInv, Undisturbed, Undisturbed', [Next]_vars, screen = "lit"
                 PROVE  screen' = "lit"
      OBVIOUS
    <3>1. CASE Send
      BY <3>1 DEF Send, SendOk, SendErr, Shown, Writable, Undisturbed
    <3>2. CASE ~Send
      BY <3>2 DEF Undisturbed, Loop, Next, Run, Register, StoreHandle, ReportStartPending,
         ReportRunning, OpenApi, Poll, ConnectOk, ConnectErr, Wake, LeaveLoop, SendOff,
         ReportStopped, Goto, Control, ReportStopPending, ProcessExit, Drop, StartService,
         Bus, Unplug, Plug, Falter, Settle, vars, deviceVars
    <3> QED BY <3>1, <3>2
  <2> QED BY <2>1, StreamAdvances
<1>2. IInv /\ Undisturbed /\ Undisturbed' /\ [Next]_vars /\ <<Run>>_vars =>
        /\ LitWithin(6) => LitWithin(5)'
        /\ LitWithin(5) => LitWithin(4)'
        /\ LitWithin(4) => LitWithin(3)'
        /\ LitWithin(3) => LitWithin(2)'
        /\ LitWithin(2) => LitWithin(1)'
        /\ LitWithin(1) => (screen = "lit")'
  <2>1. ASSUME NEW n \in 1 .. 6, NEW m \in 0 .. 5, m = n - 1,
               IInv, Undisturbed, Undisturbed', LitWithin(n), [Next]_vars, Run
        PROVE  LitWithin(m)'
    BY <2>1, StreamAdvances
  <2>2. LitWithin(0)' => (screen = "lit")'
    BY DEF LitWithin, ToReport
  <2> QED BY <2>1, <2>2
<1>3. Undisturbed => LitWithin(6)
  BY DEF LitWithin, ToReport
<1>4. NeverStuck /\ Undisturbed => ENABLED <<Run>>_vars
  BY DEF NeverStuck, Undisturbed, Loop
<1> QED BY <1>1, <1>2, <1>3, <1>4, ServiceInvariant, PTL
        DEF FairSpec, Spec, Fairness, StreamRecovers, Undisturbed
=============================================================================
