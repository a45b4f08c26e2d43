------------------------- MODULE ServiceControlProofs -------------------------
(***************************************************************************)
(* The safety properties of ServiceControl, proved for every configuration *)
(* and for all timings that meet the condition each theorem names: the     *)
(* sleeps of service_main against the wait hint, and its tick against the  *)
(* sleeps of the two commands.  At the end, what holds of the service      *)
(* alone holds under the commands, and the steps of a deletion.            *)
(***************************************************************************)
EXTENDS ServiceControl, ServiceMainProofs

\* What the state the SCM holds says of the process, beyond StatusIsHonest.
StateFollowsProcess ==
  /\ pc \in {"register", "store", "pending", "abandoned"} =>
       running_flag /\ status.state = "START_PENDING" /\ ~status.accepts
  /\ pc = "running" => status.state \in {"START_PENDING", "STOP_PENDING"}
  /\ status.state = "RUNNING" => status.accepts
  /\ pc \in {"api"} \cup Loop /\ running_flag => status.state = "RUNNING"
  /\ pc \in Teardown => ~running_flag
  /\ pc = "returned" /\ running_flag => status.state = "STOPPED"
  /\ pc = "gone" => status.state = "STOPPED"

\* The process has been told to stop, or has stopped by itself.
Ending == ~running_flag \/ status.state = "STOPPED"

\* Where a command stands tells what the SCM's entry is.
EntryFollowsStep ==
  /\ step \in {"create", "query", "start"} => command = "install"
  /\ step \in {"open", "delete"} => command = "uninstall"
  /\ step \in {"query", "start"} \/ (step \in {"stop", "sleep"} /\ command = "install")
       => record = "installed"
  /\ result = "removed" => step = "idle" /\ record # "installed"
  /\ record = "none" => status.state = "STOPPED"
  /\ record = "none" /\ step \in {"stop", "sleep", "delete"} => pc = "gone"

\* The handler is done before the command that called it wakes up.
HandlerBeforeWake == handler = "flagged" => step = "sleep" /\ wait > 0

\* A stop that was not refused has ended the service, or will.
StopFollowed ==
  /\ step \in {"sleep", "delete"} => stop \notin {"none", "untold"}
  /\ step \in {"sleep", "delete"} => Ending \/ stop = "refused"
  /\ MarkedIsEnding

\* The stop of an install is never refused, and an install that stopped nothing and was
\* not left untold finds the service stopped when it starts it.
InstallMeets ==
  /\ step = "stop" /\ command = "install" => status.state # "START_PENDING"
  /\ step = "start" \/ (step = "sleep" /\ command = "install") => stop # "refused"
  /\ step = "start" /\ stop = "none" => status.state = "STOPPED"

Base ==
  /\ ControlTypeOK
  /\ IInv
  /\ StateFollowsProcess
  /\ EntryFollowsStep
  /\ HandlerBeforeWake
  /\ StopFollowed
  /\ InstallMeets

-----------------------------------------------------------------------------
(* The service process as the commands see it *)

\* The observable steps of service_main: where it goes and what it reports.
Moves ==
  \/ /\ pc \in {"register", "store", "pending"}
     /\ pc' \in {"store", "pending", "running", "abandoned"}
     /\ status'.state = "START_PENDING" /\ (pc' # "running" => status' = status)
  \/ /\ pc = "running" /\ pc' = "api"
     /\ status'.state = "RUNNING" /\ status'.accepts
  \/ pc = "api" /\ pc' = "poll" /\ status' = status
  \/ pc \in {"api", "stopping"} /\ pc' = "returned" /\ status'.state = "STOPPED"
  \/ pc = "poll" /\ running_flag /\ pc' \in {"send", "retry"} /\ status' = status
  \/ pc = "poll" /\ ~running_flag /\ pc' = "off" /\ status' = status
  \/ pc = "send" /\ pc' = "tick" /\ status' = status
  \/ pc \in {"tick", "retry"} /\ pc' = "poll" /\ status' = status
  \/ pc = "off" /\ pc' = "stopping" /\ status' = status

\* service_main makes no other step, and never touches the flag.
LEMMA RunMoves ==
  ASSUME StateFollowsProcess, Run
  PROVE  Moves /\ running_flag' = running_flag /\ handler' = handler
<1>1. CASE Register \/ StoreHandle \/ ReportStartPending \/ ReportRunning
  BY <1>1 DEF Register, StoreHandle, ReportStartPending, ReportRunning, Goto, Report,
     StateFollowsProcess, Moves
<1>2. CASE OpenApi
  BY <1>2 DEF OpenApi, Goto, Report, Moves
<1>3. CASE Poll
  BY <1>3 DEF Poll, Goto, Moves
<1>4. CASE Wake \/ LeaveLoop
  BY <1>4 DEF Wake, LeaveLoop, Goto, Moves
<1>5. CASE SendOff
  BY <1>5 DEF SendOff, Goto, Moves
<1>6. CASE ReportStopped
  BY <1>6 DEF ReportStopped, Goto, Report, Moves
<1>7. CASE Send
  BY <1>7 DEF Send, Goto, Moves
<1> QED BY <1>1, <1>2, <1>3, <1>4, <1>5, <1>6, <1>7 DEF Run

\* Every step of the commands and of time is a step of ServiceMain, or none.
LEMMA ControlSteps == [ControlNext]_allVars => [Next]_vars
<1> SUFFICES ASSUME [ControlNext]_allVars PROVE [Next]_vars
  OBVIOUS
<1>1. CASE ServiceStep \/ HandlerStep \/ ExitStep
  BY <1>1 DEF ServiceStep, HandlerStep, ExitStep, Next
<1>2. CASE Install \/ Uninstall \/ Elapse
  BY <1>2 DEF Install, Uninstall, Elapse
<1>3. CASE CreateOrUpdate \/ Query \/ Open \/ EndWait \/ Delete
  BY <1>3 DEF CreateOrUpdate, Query, Open, EndWait, Delete
<1>4. CASE StopService \/ Start
  BY <1>4 DEF StopService, Start, Next
<1>5. CASE BusStep
  BY <1>5 DEF BusStep, Next
<1>6. CASE UNCHANGED allVars
  BY <1>6 DEF allVars
<1> QED BY <1>1, <1>2, <1>3, <1>4, <1>5, <1>6 DEF ControlNext, CommandStep

LEMMA BaseInit == ControlInit => Base
<1> SUFFICES ASSUME ControlInit PROVE Base
  OBVIOUS
<1> USE ServiceAssumption, ControlAssumption DEF ControlInit
<1>1. TypeOK
  BY DEF DeviceInit, TypeOK, DeviceTypeOK, Locations, Statuses, States
<1>2. IInv
  BY <1>1 DEF DeviceInit, IInv, HandleBeforeControl, HandlerFindsHandle, HandlerHasCleared,
     LateOnlyBehindPoll, OpenOnlyInside, BlankedBeforeStopped, StatusIsHonest
<1>3. ControlTypeOK
  BY <1>1 DEF ControlTypeOK
<1>4. StateFollowsProcess /\ EntryFollowsStep /\ HandlerBeforeWake /\ StopFollowed /\ InstallMeets
  BY DEF StateFollowsProcess, EntryFollowsStep, HandlerBeforeWake, StopFollowed,
         InstallMeets, MarkedIsEnding, Loop, Teardown
<1> QED BY <1>2, <1>3, <1>4 DEF Base

\* What a step of the process, or of the handler, does to what the commands rely on.
LEMMA ProcessKeeps ==
  ASSUME Base, Moves, running_flag' = running_flag
  PROVE  /\ StateFollowsProcess'
         /\ Ending => Ending'
         /\ status'.state = "START_PENDING" => status.state = "START_PENDING"
         /\ pc # "gone" /\ pc' # "gone" /\ status.state # "STOPPED"
<1> USE DEF Base, IInv, StatusIsHonest, StateFollowsProcess, Moves, Loop, Teardown
<1>1. pc # "gone" /\ pc' # "gone" /\ status.state # "STOPPED"
  OBVIOUS
<1>2. StateFollowsProcess'
  <2> HIDE DEF Moves
  <2>1. CASE pc \in {"register", "store", "pending", "running"}
    BY <2>1 DEF Moves
  <2>2. CASE pc \in {"api", "stopping", "off"}
    BY <2>2 DEF Moves
  <2>3. CASE pc \in {"poll", "send", "tick", "retry"}
    BY <2>3 DEF Moves
  <2> QED BY <2>1, <2>2, <2>3 DEF Moves
<1>3. Ending => Ending'
  BY <1>1 DEF Ending
<1>4. status'.state = "START_PENDING" => status.state = "START_PENDING"
  OBVIOUS
<1> QED BY <1>1, <1>2, <1>3, <1>4

\* A step that leaves process, flag and reported state alone keeps what they say.
LEMMA NothingMoves ==
  ASSUME UNCHANGED vars
  PROVE  /\ StateFollowsProcess => StateFollowsProcess'
         /\ Ending' <=> Ending
         /\ status' = status /\ pc' = pc /\ running_flag' = running_flag /\ handler' = handler
BY DEF vars, serviceVars, StateFollowsProcess, Ending

\* Every step of the process, the commands, time and the cooler keeps Base.
LEMMA BaseNext == Base /\ [ControlNext]_allVars => Base'
<1> SUFFICES ASSUME Base, [ControlNext]_allVars PROVE Base'
  OBVIOUS
<1> USE ServiceAssumption, ControlAssumption
<1> DEFINE Entries == EntryFollowsStep /\ HandlerBeforeWake /\ StopFollowed /\ InstallMeets
<1>a. IInv'
  BY ControlSteps, IInvNext DEF Base
<1>b. TypeOK'
  BY <1>a DEF IInv
<1>c. Base => ControlTypeOK /\ StateFollowsProcess /\ Entries
  BY DEF Base
<1>1. CASE ServiceStep
  <2>1. Moves /\ running_flag' = running_flag /\ handler' = handler
    BY <1>1, <1>c, RunMoves DEF ServiceStep
  <2>2. StateFollowsProcess' /\ (Ending => Ending')
        /\ (status'.state = "START_PENDING" => status.state = "START_PENDING")
        /\ pc # "gone" /\ pc' # "gone" /\ status.state # "STOPPED"
    BY <2>1, ProcessKeeps
  <2>3. ControlTypeOK'
    BY <1>1, <1>b, <1>c DEF ServiceStep, ControlTypeOK, NapAfter, scmVars, commandVars
  <2>4. UNCHANGED <<record, command, step, wait, result, stop>>
    BY <1>1 DEF ServiceStep, scmVars, commandVars
  <2>5. EntryFollowsStep' /\ HandlerBeforeWake' /\ InstallMeets'
    BY <1>c, <2>1, <2>2, <2>4 DEF EntryFollowsStep, HandlerBeforeWake, InstallMeets
  <2>6. StopFollowed'
    BY <1>c, <2>2, <2>4 DEF StopFollowed, MarkedIsEnding, Ending
  <2> QED BY <1>a, <2>2, <2>3, <2>5, <2>6 DEF Base
<1>2. CASE HandlerStep
  <2>1. ~running_flag /\ status'.state = "STOP_PENDING"
    BY <1>2 DEF HandlerStep, ReportStopPending, Base, IInv, HandlerHasCleared,
                HandlerFindsHandle
  <2>2. pc # "gone"
    BY <1>2 DEF HandlerStep, ReportStopPending, Base, IInv, HandlerHasCleared
  <2>3. StateFollowsProcess' /\ Ending' /\ pc' # "gone"
    BY <1>2, <1>c, <2>1, <2>2 DEF HandlerStep, ReportStopPending, StateFollowsProcess,
                                  Ending, Loop, Teardown
  <2>4. ControlTypeOK'
    BY <1>2, <1>b, <1>c DEF HandlerStep, controlVars, clockVars, scmVars, commandVars,
                            ControlTypeOK
  <2>5. Entries'
    <3>1. step = "sleep" /\ handler' = "idle"
      BY <1>2, <1>c DEF HandlerStep, ReportStopPending, HandlerBeforeWake
    <3>2. UNCHANGED <<record, command, step, wait, result, stop>>
      BY <1>2 DEF HandlerStep, controlVars, scmVars, commandVars
    <3> QED
      BY <1>c, <2>2, <2>3, <3>1, <3>2 DEF EntryFollowsStep, HandlerBeforeWake, StopFollowed,
         InstallMeets, MarkedIsEnding, Ending
  <2> QED BY <1>a, <2>3, <2>4, <2>5 DEF Base
<1>3. CASE ExitStep
  <2>1. pc' = "gone" /\ status'.state = "STOPPED" /\ running_flag' = running_flag /\ handler' = "idle"
    BY <1>3 DEF ExitStep, ProcessExit
  <2>2. StateFollowsProcess' /\ Ending'
    BY <2>1 DEF StateFollowsProcess, Ending, Loop, Teardown
  <2>3. ControlTypeOK'
    BY <1>3, <1>b, <1>c DEF ExitStep, ControlTypeOK, commandVars
  <2>4. Entries'
    BY <1>3, <1>c, <2>1, <2>2 DEF ExitStep, commandVars, ControlTypeOK,
                                        EntryFollowsStep,
       HandlerBeforeWake, StopFollowed, InstallMeets, MarkedIsEnding, Ending
  <2> QED BY <1>a, <2>2, <2>3, <2>4 DEF Base
<1>4. CASE Install
  <2>1. UNCHANGED vars
    BY <1>4 DEF Install
  <2>2. ControlTypeOK'
    BY <1>4, <1>b, <1>c DEF Install, ControlTypeOK, clockVars, scmVars
  <2>3. Entries'
    BY <1>4, <1>c, <2>1, NothingMoves DEF Install, scmVars, EntryFollowsStep,
       HandlerBeforeWake, StopFollowed, InstallMeets, MarkedIsEnding, Ending
  <2> QED BY <1>a, <1>c, <2>1, <2>2, <2>3, NothingMoves DEF Base
<1>5. CASE Uninstall
  <2>1. UNCHANGED vars
    BY <1>5 DEF Uninstall
  <2>2. ControlTypeOK'
    BY <1>5, <1>b, <1>c DEF Uninstall, ControlTypeOK, clockVars, scmVars
  <2>3. Entries'
    BY <1>5, <1>c, <2>1, NothingMoves DEF Uninstall, scmVars, EntryFollowsStep,
       HandlerBeforeWake, StopFollowed, InstallMeets, MarkedIsEnding, Ending
  <2> QED BY <1>a, <1>c, <2>1, <2>2, <2>3, NothingMoves DEF Base
<1>6. CASE CreateOrUpdate
  <2>1. UNCHANGED vars
    BY <1>6 DEF CreateOrUpdate
  <2>2. ControlTypeOK'
    BY <1>6, <1>b, <1>c DEF CreateOrUpdate, Proceed, Finish, Goes, ControlTypeOK,
                            clockVars, scmVars
  <2>3. Entries'
    BY <1>6, <1>c, <2>1, NothingMoves DEF CreateOrUpdate, Proceed, Finish, Goes, scmVars,
       EntryFollowsStep, HandlerBeforeWake, StopFollowed, InstallMeets, MarkedIsEnding, Ending
  <2> QED BY <1>a, <1>c, <2>1, <2>2, <2>3, NothingMoves DEF Base
<1>7. CASE Query
  <2>1. UNCHANGED vars
    BY <1>7 DEF Query
  <2>2. ControlTypeOK'
    BY <1>7, <1>b, <1>c DEF Query, Goes, ControlTypeOK, clockVars, scmVars
  <2>3. Entries'
    BY <1>7, <1>c, <2>1, NothingMoves DEF Query, Goes, scmVars,
       EntryFollowsStep, HandlerBeforeWake, StopFollowed, InstallMeets, MarkedIsEnding, Ending
  <2> QED BY <1>a, <1>c, <2>1, <2>2, <2>3, NothingMoves DEF Base
<1>8. CASE Open
  <2>1. UNCHANGED vars
    BY <1>8 DEF Open
  <2>2. ControlTypeOK'
    BY <1>8, <1>b, <1>c DEF Open, Proceed, Finish, Goes, ControlTypeOK, clockVars, scmVars
  <2>3. Entries'
    BY <1>8, <1>c, <2>1, NothingMoves DEF Open, Proceed, Finish, Goes, scmVars,
       EntryFollowsStep, HandlerBeforeWake, StopFollowed, InstallMeets, MarkedIsEnding, Ending
  <2> QED BY <1>a, <1>c, <2>1, <2>2, <2>3, NothingMoves DEF Base
<1>9. CASE EndWait
  <2>1. UNCHANGED vars
    BY <1>9 DEF EndWait
  <2>2. ControlTypeOK'
    BY <1>9, <1>b, <1>c DEF EndWait, Proceed, Goes, ControlTypeOK, clockVars, scmVars
  <2>3. Entries'
    BY <1>9, <1>c, <2>1, NothingMoves DEF EndWait, Proceed, Goes, scmVars, ControlTypeOK,
       EntryFollowsStep, HandlerBeforeWake, StopFollowed, InstallMeets, MarkedIsEnding, Ending
  <2> QED BY <1>a, <1>c, <2>1, <2>2, <2>3, NothingMoves DEF Base
<1>10. CASE Delete
  <2>1. UNCHANGED vars
    BY <1>10 DEF Delete
  <2>2. ControlTypeOK'
    BY <1>10, <1>b, <1>c DEF Delete, Finish, Goes, ControlTypeOK, clockVars
  <2>3. Entries'
    BY <1>10, <1>c, <2>1, NothingMoves DEF Delete, Finish, Goes, ControlTypeOK,
       StateFollowsProcess, EntryFollowsStep, HandlerBeforeWake, StopFollowed,
       InstallMeets, MarkedIsEnding, Ending
  <2> QED BY <1>a, <1>c, <2>1, <2>2, <2>3, NothingMoves DEF Base
<1>11. CASE BusStep \/ Elapse
  <2>1. UNCHANGED <<serviceVars, config, scmVars, command, step, result, stop>>
    BY <1>11 DEF BusStep, Elapse, controlVars, commandVars, vars
  <2>2. (UNCHANGED clockVars /\ wait' = wait) \/ Elapse
    BY <1>11 DEF BusStep, controlVars, commandVars
  <2>3. ControlTypeOK'
    <3>1. nap' \in 0 .. (TickTime + RetryTime) /\ wait' \in 0 .. (RestartWait + UninstallWait)
          /\ stopping' \in 0 .. (WaitHint + 1)
      BY <1>c, <2>2 DEF clockVars, Elapse, Less, ControlTypeOK
    <3> QED BY <1>b, <1>c, <2>1, <3>1 DEF ControlTypeOK, scmVars
  <2>4. StateFollowsProcess' /\ Entries'
    <3>1. handler' = handler /\ (handler = "flagged" => wait' = wait)
      BY <2>1, <2>2 DEF serviceVars, Elapse, Busy
    <3> QED BY <1>c, <2>1, <3>1 DEF serviceVars, scmVars, StateFollowsProcess, EntryFollowsStep,
       HandlerBeforeWake, StopFollowed, InstallMeets, MarkedIsEnding, Ending
  <2> QED BY <1>a, <2>3, <2>4 DEF Base
<1>12. CASE StopService
  <2>1. stop' = Fate /\ stop' \notin {"none", "untold"} /\ step = "stop" /\ step' = "sleep"
    BY <1>12 DEF StopService, Goes, Fate
  <2>2. ControlTypeOK'
    BY <1>12, <1>b, <1>c DEF StopService, Goes, Fate, ControlTypeOK, clockVars, scmVars
  <2>3. UNCHANGED <<record, command, result>> /\ wait' > 0
    BY <1>12 DEF StopService, scmVars
  <2>4. command = "install" => stop' # "refused"
    BY <1>c, <2>1 DEF Fate, InstallMeets
  <2>5. CASE Deliverable /\ Control
    <3>1. pc' = pc /\ ~running_flag' /\ status' = status /\ pc # "gone"
      BY <2>5 DEF Control
    <3>2. StateFollowsProcess' /\ Ending'
      BY <1>c, <2>5, <3>1 DEF StateFollowsProcess, Ending, Deliverable
    <3>3. Entries'
      BY <1>c, <2>1, <2>3, <2>4, <3>1, <3>2 DEF EntryFollowsStep, HandlerBeforeWake,
         StopFollowed, InstallMeets, MarkedIsEnding, Ending
    <3> QED BY <1>a, <2>2, <3>2, <3>3 DEF Base
  <2>6. CASE ~Deliverable /\ UNCHANGED vars
    <3>1. Ending \/ stop' = "refused"
      <4>1. status.state \in {"START_PENDING", "RUNNING", "STOP_PENDING", "STOPPED"}
        BY DEF Base, IInv, TypeOK, Statuses, States
      <4>2. status.state = "STOP_PENDING" => ~running_flag
        BY DEF Base, IInv, StatusIsHonest
      <4>3. status.state = "START_PENDING" => stop' = "refused"
        BY <2>1, <2>6 DEF Fate, Deliverable
      <4>4. status.state # "RUNNING"
        BY <1>c, <2>6 DEF StateFollowsProcess, Deliverable
      <4> QED BY <4>1, <4>2, <4>3, <4>4 DEF Ending
    <3>2. handler' = handler /\ handler # "flagged"
      BY <1>c, <2>1, <2>6, NothingMoves DEF HandlerBeforeWake
    <3>3. Entries'
      BY <1>c, <2>1, <2>3, <2>4, <2>6, <3>1, <3>2, NothingMoves DEF EntryFollowsStep,
         HandlerBeforeWake, StopFollowed, InstallMeets, MarkedIsEnding, Ending
    <3> QED BY <1>a, <1>c, <2>2, <2>6, <3>3, NothingMoves DEF Base
  <2> QED BY <1>12, <2>5, <2>6 DEF StopService
<1>13. CASE Start
  <2>1. step' = "idle" /\ result' = "started" /\ UNCHANGED <<command, record, stop>>
        /\ step = "start"
    BY <1>13 DEF Start, Finish, Goes, scmVars
  <2>2. StateFollowsProcess'
    BY <1>13, <1>c DEF Start, StartService, StateFollowsProcess, Loop, Teardown, vars,
                       serviceVars
  <2>3. ControlTypeOK'
    BY <1>13, <1>b, <1>c DEF Start, Finish, Goes, ControlTypeOK, clockVars, scmVars
  <2>4. handler' = handler
    BY <1>13 DEF Start, StartService, vars, serviceVars
  <2>5. Entries'
    BY <1>c, <2>1, <2>4 DEF EntryFollowsStep, HandlerBeforeWake, StopFollowed,
                            InstallMeets, MarkedIsEnding
  <2> QED BY <1>a, <2>2, <2>3, <2>5 DEF Base
<1>14. CASE UNCHANGED allVars
  <2>1. StateFollowsProcess' /\ Entries'
    BY <1>14, <1>c DEF allVars, vars, serviceVars, controlVars, scmVars, commandVars,
       StateFollowsProcess, EntryFollowsStep, HandlerBeforeWake, StopFollowed,
       InstallMeets, MarkedIsEnding, Ending
  <2>2. ControlTypeOK'
    BY <1>14, <1>b, <1>c DEF allVars, controlVars, clockVars, scmVars, commandVars,
                             ControlTypeOK
  <2> QED BY <1>a, <2>1, <2>2 DEF Base
<1> QED
  BY <1>1, <1>2, <1>3, <1>4, <1>5, <1>6, <1>7, <1>8, <1>9, <1>10, <1>11, <1>12, <1>13, <1>14
  DEF ControlNext, CommandStep

LEMMA BaseInvariant == ControlSpec => []Base
  BY BaseInit, BaseNext, PTL DEF ControlSpec

\* Every variable keeps to its declared values, for all timings.
THEOREM ControlTypeCorrect == ControlSpec => []ControlTypeOK
<1>1. Base => ControlTypeOK
  BY DEF Base
<1> QED BY <1>1, BaseInvariant, PTL

\* What stays marked for deletion is ending, or refused the stop, for all timings.
THEOREM MarkedAlwaysEnding == ControlSpec => []MarkedIsEnding
<1>1. Base => MarkedIsEnding
  BY DEF Base, StopFollowed
<1> QED BY <1>1, BaseInvariant, PTL

-----------------------------------------------------------------------------
(* The wait hint *)

Longest == IF TickTime < RetryTime THEN RetryTime ELSE TickTime

\* A process told to stop sleeps at most once more: what has passed since and what is
\* left of its sleep are together no longer than its longest sleep.
Stopwatch ==
  /\ running_flag \/ pc = "gone" => stopping = 0
  /\ pc \in {"running", "api", "send"} => stopping = 0
  /\ nap <= (IF pc = "tick" THEN TickTime ELSE IF pc = "retry" THEN RetryTime ELSE 0)
  /\ stopping + nap <= Longest

\* Stopwatch holds at first, and every step keeps it.
LEMMA StopwatchInit == ControlInit => Stopwatch
  BY ControlAssumption DEF ControlInit, Stopwatch, Longest

LEMMA StopwatchNext == Base /\ Stopwatch /\ [ControlNext]_allVars => Stopwatch'
<1> SUFFICES ASSUME Base, Stopwatch, [ControlNext]_allVars PROVE Stopwatch'
  OBVIOUS
<1>t. /\ TickTime \in Nat /\ RetryTime \in Nat /\ Longest \in Nat /\ nap \in Nat /\ stopping \in Nat
      /\ nap' \in Nat /\ stopping' \in Nat
  BY ControlAssumption, BaseNext DEF Base, ControlTypeOK, Longest
<1>1. CASE ServiceStep
  <2>1. Moves /\ running_flag' = running_flag /\ nap' = NapAfter /\ stopping' = stopping /\ ~Asleep
    BY <1>1, RunMoves DEF Base, ServiceStep
  <2>2. nap' = (IF pc' = "tick" THEN TickTime ELSE IF pc' = "retry" THEN RetryTime ELSE 0)
    BY <2>1 DEF NapAfter
  <2>3. pc' # "gone" /\ pc # "gone" /\ (pc' = "api" => pc = "running") /\ (pc' = "send" => running_flag)
        /\ (pc' = "tick" => pc = "send") /\ (pc' = "retry" => running_flag)
    BY <2>1 DEF Moves, Base, StateFollowsProcess
  <2>4. pc' = "running" => running_flag
    BY <2>1 DEF Moves, Base, StateFollowsProcess
  <2>5. stopping' + nap' <= Longest
    <3>1. CASE pc' \in {"tick", "retry"}
      <4>1. stopping = 0
        BY <2>3, <3>1 DEF Stopwatch
      <4>2. nap' = TickTime \/ nap' = RetryTime
        BY <2>2, <3>1
      <4> QED BY <1>t, <2>1, <4>1, <4>2 DEF Longest
    <3>2. CASE pc' \notin {"tick", "retry"}
      <4>1. nap' = 0 /\ stopping' = stopping
        BY <2>1, <2>2, <3>2
      <4>2. stopping + nap <= Longest
        BY DEF Stopwatch
      <4> QED BY <1>t, <4>1, <4>2
    <3> QED BY <3>1, <3>2
  <2> QED BY <1>t, <2>1, <2>2, <2>3, <2>4, <2>5 DEF Stopwatch
<1>2. CASE UNCHANGED <<pc, running_flag, nap, stopping>>
  BY <1>2 DEF Stopwatch
<1>3. CASE HandlerStep \/ BusStep \/ Install \/ Uninstall \/ UNCHANGED allVars
  <2>1. CASE HandlerStep
    BY <1>2, <2>1 DEF HandlerStep, ReportStopPending, controlVars, clockVars
  <2>2. CASE BusStep
    BY <1>2, <2>2 DEF BusStep, controlVars, clockVars, serviceVars
  <2>3. CASE Install \/ Uninstall \/ UNCHANGED allVars
    BY <1>2, <2>3 DEF Install, Uninstall, controlVars, clockVars, vars, serviceVars, allVars
  <2> QED BY <1>3, <2>1, <2>2, <2>3
<1>4. CASE CreateOrUpdate \/ Query \/ Open \/ EndWait \/ Delete
  BY <1>2, <1>4 DEF CreateOrUpdate, Query, Open, EndWait, Delete, clockVars, vars,
                    serviceVars
<1>5. CASE ExitStep
  BY <1>5, <1>t DEF ExitStep, ProcessExit, Stopwatch
<1>6. CASE StopService
  <2>1. pc' = pc /\ UNCHANGED clockVars /\ (running_flag' => running_flag)
    BY <1>6 DEF StopService, Control, vars, serviceVars
  <2> QED BY <2>1 DEF clockVars, Stopwatch
<1>7. CASE Start
  <2>1. UNCHANGED clockVars
    BY <1>7 DEF Start
  <2>2. CASE pc = "gone" /\ pc' = "register"
    <3>1. stopping' = 0 /\ nap' = 0
      BY <1>t, <2>1, <2>2 DEF Stopwatch, clockVars
    <3> QED BY <1>t, <2>2, <3>1 DEF Stopwatch, Longest
  <2>3. CASE UNCHANGED vars
    BY <1>2, <2>1, <2>3 DEF clockVars, vars, serviceVars
  <2> QED BY <1>7, <2>2, <2>3 DEF Start, StartService
<1>8. CASE Elapse
  <2>1. UNCHANGED <<pc, running_flag>> /\ nap' = Less(nap)
    BY <1>8 DEF Elapse, vars, serviceVars
  <2>2. stopping' = stopping \/ (~running_flag /\ pc # "gone" /\ stopping' = stopping + 1)
    BY <1>8 DEF Elapse
  <2>3. (pc \in {"tick", "retry"} /\ nap > 0) \/ running_flag \/ pc = "gone"
    BY <1>8 DEF Elapse, Busy, Awake, Asleep, Base, StateFollowsProcess
  <2>4. CASE stopping' = stopping
    BY <1>t, <2>1, <2>4 DEF Stopwatch, Less
  <2>5. CASE ~running_flag /\ pc # "gone" /\ stopping' = stopping + 1
    <3>1. pc \in {"tick", "retry"} /\ nap > 0 /\ pc' = pc /\ ~running_flag'
      BY <2>1, <2>3, <2>5
    <3>2. nap' = nap - 1
      BY <1>t, <2>1, <3>1 DEF Less
    <3>3. /\ stopping + nap <= Longest
          /\ nap <= (IF pc = "tick" THEN TickTime ELSE IF pc = "retry" THEN RetryTime ELSE 0)
      BY DEF Stopwatch
    <3>4. stopping' + nap' <= Longest
      BY <1>t, <2>5, <3>2, <3>3
    <3>5. nap' <= (IF pc' = "tick" THEN TickTime ELSE IF pc' = "retry" THEN RetryTime ELSE 0)
      <4>1. CASE pc = "tick"
        BY <1>t, <3>1, <3>2, <3>3, <4>1
      <4>2. CASE pc = "retry"
        BY <1>t, <3>1, <3>2, <3>3, <4>2
      <4> QED BY <3>1, <4>1, <4>2
    <3>6. pc' # "gone" /\ pc' \notin {"running", "api", "send"}
      BY <3>1
    <3> QED BY <3>1, <3>4, <3>5, <3>6 DEF Stopwatch
  <2> QED BY <2>2, <2>4, <2>5
<1> QED
  BY <1>1, <1>3, <1>4, <1>5, <1>6, <1>7, <1>8 DEF ControlNext, CommandStep

\* The service stops within the wait hint whenever each of its sleeps is within it.
THEOREM StopBounded ==
  ASSUME TickTime <= WaitHint, RetryTime <= WaitHint
  PROVE  ControlSpec => []StopsWithinHint
<1>1. Base /\ Stopwatch => StopsWithinHint
  BY ControlAssumption DEF Base, ControlTypeOK, Stopwatch, Longest, StopsWithinHint
<1> QED
  BY <1>1, BaseInvariant, StopwatchInit, StopwatchNext, PTL DEF ControlSpec

-----------------------------------------------------------------------------
(* The sleeps of the commands *)

\* A process that heard the stop is gone before the command that sent it wakes up.
InTime ==
  step \in {"sleep", "start", "delete"} /\ stop = "heard" /\ pc # "gone" =>
    /\ step = "sleep" /\ pc # "retry"
    /\ wait > nap
    /\ pc \in {"running", "api", "send"} => wait > TickTime

\* Without an entry there is no process, unless the stop came to nothing in time.
NoneIsGone == record = "none" => pc = "gone" \/ stop \in {"overslept", "refused"}

\* A longer sleep of the command than the tick is what InTime takes.
LEMMA InTimeNext ==
  ASSUME TickTime < RestartWait, TickTime < UninstallWait,
         Base, Stopwatch, InTime, NoneIsGone, [ControlNext]_allVars
  PROVE  InTime' /\ NoneIsGone'
<1>t. /\ TickTime \in Nat /\ RestartWait \in Nat /\ UninstallWait \in Nat
      /\ nap \in Nat /\ wait \in Nat /\ nap' \in Nat /\ wait' \in Nat
  BY ControlAssumption, BaseNext DEF Base, ControlTypeOK
<1>e. step \in {"sleep", "delete"} /\ stop = "heard" => Ending
  BY DEF Base, StopFollowed
<1>s. pc # "gone" /\ Ending => pc \notin {"register", "store", "pending", "abandoned"}
  BY DEF Base, IInv, StatusIsHonest, StateFollowsProcess, Ending
<1>1. CASE ServiceStep
  <2>1. Moves /\ running_flag' = running_flag /\ nap' = NapAfter
    BY <1>1, RunMoves DEF Base, ServiceStep
  <2>2. UNCHANGED <<record, step, wait, stop>>
    BY <1>1 DEF ServiceStep, scmVars, commandVars
  <2>3. pc # "gone" /\ status.state # "STOPPED"
    BY <2>1, ProcessKeeps
  <2>4. record # "none"
    BY <2>3 DEF Base, EntryFollowsStep
  <2>5. ASSUME step \in {"sleep", "start", "delete"}, stop = "heard"
        PROVE  /\ step = "sleep" /\ pc' # "retry" /\ wait > nap'
               /\ pc' \in {"running", "api", "send"} => wait > TickTime
    <3>1. step = "sleep" /\ wait > nap /\ (pc \in {"running", "send"} => wait > TickTime)
      BY <2>3, <2>5 DEF InTime
    <3>2. Ending /\ ~running_flag
      BY <1>e, <2>3, <2>5, <3>1 DEF Ending
    <3>3. pc' \notin {"running", "send", "retry"} /\ (pc' = "tick" => pc = "send")
          /\ (pc' = "api" => pc = "running")
      BY <1>s, <2>1, <2>3, <3>2 DEF Moves
    <3>4. nap' = (IF pc' = "tick" THEN TickTime ELSE 0)
      BY <2>1, <3>3 DEF NapAfter
    <3>5. wait > nap'
      <4>1. CASE pc' = "tick"
        BY <3>1, <3>3, <3>4, <4>1
      <4>2. CASE pc' # "tick"
        BY <1>t, <3>1, <3>4, <4>2
      <4> QED BY <4>1, <4>2
    <3> QED BY <3>1, <3>3, <3>5
  <2> QED BY <2>2, <2>4, <2>5 DEF InTime, NoneIsGone
<1>2. CASE UNCHANGED <<pc, nap, wait, step, stop, record>>
  BY <1>2 DEF InTime, NoneIsGone
<1>3. CASE HandlerStep
  BY <1>2, <1>3 DEF HandlerStep, ReportStopPending, controlVars, clockVars, commandVars,
                    scmVars
<1>4. CASE BusStep
  BY <1>2, <1>4 DEF BusStep, serviceVars, controlVars, clockVars, commandVars, scmVars
<1>5. CASE UNCHANGED allVars
  BY <1>2, <1>5 DEF allVars, vars, serviceVars, controlVars, clockVars, commandVars, scmVars
<1>6. CASE ExitStep
  BY <1>6 DEF ExitStep, ProcessExit, InTime, NoneIsGone
<1>7. CASE Install \/ Uninstall \/ CreateOrUpdate \/ Query \/ Open
  <2>1. pc' = pc /\ ((record' = record /\ stop' = stop) \/ record' = "installed" \/ record = "installed")
    BY <1>7 DEF Install, Uninstall, CreateOrUpdate, Query, Open, Finish, Proceed, vars,
                serviceVars,
       scmVars, Base, EntryFollowsStep, Goes
  <2>2. record' = "none" => record = "none" /\ stop' = stop
    BY <1>7 DEF Install, Uninstall, CreateOrUpdate, Query, Open, Finish, Proceed,
       scmVars, Base, EntryFollowsStep, Goes
  <2>3. step' \notin {"sleep", "delete"} /\ (step' = "start" => stop' # "heard")
    BY <1>7 DEF Install, Uninstall, CreateOrUpdate, Query, Open, Finish, Proceed, Goes
  <2> QED BY <2>1, <2>2, <2>3 DEF InTime, NoneIsGone
<1>8. CASE StopService
  <2>1. pc' = pc /\ nap' = nap /\ record' = record /\ stop' = Fate /\ step = "stop"
    BY <1>8 DEF StopService, Control, Goes, vars, serviceVars, clockVars, scmVars
  <2>2. wait' > TickTime /\ step' = "sleep"
    BY <1>8 DEF StopService, Goes
  <2>3. stop' = "heard" => pc # "retry"
    BY <2>1 DEF Fate
  <2>4. pc # "retry" => nap <= TickTime
    BY <1>t DEF Stopwatch
  <2>5. InTime'
    <3>1. CASE pc = "retry"
      BY <2>1, <2>3, <3>1 DEF InTime
    <3>2. CASE pc # "retry"
      <4>1. wait' > nap'
        BY <1>t, <2>1, <2>2, <2>4, <3>2
      <4> QED BY <2>1, <2>2, <3>2, <4>1 DEF InTime
    <3> QED BY <3>1, <3>2
  <2>6. NoneIsGone'
    BY <2>1 DEF NoneIsGone, Base, EntryFollowsStep
  <2> QED BY <2>5, <2>6
<1>9. CASE EndWait
  <2>1. step = "sleep" /\ wait = 0 /\ UNCHANGED <<pc, stop, record>>
    BY <1>9 DEF EndWait, Proceed, Goes, vars, serviceVars, scmVars
  <2>2. stop = "heard" => pc = "gone"
    BY <1>t, <2>1 DEF InTime
  <2> QED BY <2>1, <2>2 DEF InTime, NoneIsGone
<1>10. CASE Delete
  <2>1. step = "delete" /\ step' = "idle" /\ UNCHANGED <<pc, stop>>
    BY <1>10 DEF Delete, Finish, Goes, vars, serviceVars
  <2>2. stop = "heard" => pc = "gone"
    BY <2>1 DEF InTime
  <2>3. stop \in {"heard", "overslept", "refused"}
    BY <2>1 DEF Base, ControlTypeOK, StopFollowed
  <2> QED BY <2>1, <2>2, <2>3 DEF InTime, NoneIsGone
<1>11. CASE Start
  BY <1>11 DEF Start, Finish, Goes, scmVars, InTime, NoneIsGone, Base, EntryFollowsStep
<1>12. CASE Elapse
  <2>1. UNCHANGED <<pc, step, stop, record>> /\ nap' = Less(nap) /\ wait' = Less(wait) /\ ~Busy
    BY <1>12 DEF Elapse, vars, serviceVars, scmVars
  <2>2. ASSUME step \in {"sleep", "start", "delete"}, stop = "heard", pc # "gone"
        PROVE  /\ step = "sleep" /\ pc # "retry" /\ wait' > nap'
               /\ pc \notin {"running", "api", "send"}
    <3>1. step = "sleep" /\ wait > nap /\ pc # "retry"
      BY <2>2 DEF InTime
    <3>2. Asleep
      BY <1>e, <1>s, <2>1, <2>2, <3>1 DEF Busy, Awake
    <3>3. nap > 0 /\ pc \in {"tick", "retry"}
      BY <3>2 DEF Asleep
    <3>4. wait' > nap'
      BY <1>t, <2>1, <3>1, <3>3 DEF Less
    <3> QED BY <3>1, <3>3, <3>4
  <2> QED BY <2>1, <2>2 DEF InTime, NoneIsGone
<1> QED
  BY <1>1, <1>3, <1>4, <1>5, <1>6, <1>7, <1>8, <1>9, <1>10, <1>11, <1>12
  DEF ControlNext, CommandStep

\* When the tick is shorter than the sleep of each command, an install that reports
\* success leaves a service running with its arguments, whenever it is given and for all
\* timings; unless it met the service starting or stopping, or asleep after a failed
\* connect, the exceptions InstalledMeansStarted names.
THEOREM StartsAfterInstall ==
  ASSUME TickTime < RestartWait, TickTime < UninstallWait
  PROVE  ControlSpec => InstalledMeansStarted
<1> DEFINE Timely == Base /\ Stopwatch /\ InTime /\ NoneIsGone
<1>1. ControlInit => Timely
  BY BaseInit, StopwatchInit DEF ControlInit, InTime, NoneIsGone
<1>2. Timely /\ [ControlNext]_allVars => Timely'
  BY BaseNext, StopwatchNext, InTimeNext
<1>3. Timely /\ [ControlNext]_allVars =>
        (result' = "started" /\ result # "started" /\ stop \notin {"untold", "overslept"} =>
           running_flag' /\ pc' # "gone" /\ config' = entry')
  <2> SUFFICES ASSUME Timely, [ControlNext]_allVars,
                      result' = "started", result # "started",
                      stop \notin {"untold", "overslept"}
               PROVE  running_flag' /\ pc' # "gone" /\ config' = entry'
    OBVIOUS
  <2>1. Start
    <3>1. ~ServiceStep /\ ~HandlerStep /\ ~ExitStep /\ ~BusStep /\ ~Elapse /\ ~UNCHANGED allVars
      BY DEF ServiceStep, HandlerStep, ExitStep, BusStep, Elapse, allVars, controlVars,
             commandVars
    <3>2. ~Install /\ ~Uninstall /\ ~CreateOrUpdate /\ ~Query /\ ~Open
      BY DEF Install, Uninstall, CreateOrUpdate, Query, Open, Proceed, Finish
    <3>3. ~StopService /\ ~EndWait /\ ~Delete
      BY DEF StopService, EndWait, Delete, Proceed, Finish
    <3> QED BY <3>1, <3>2, <3>3 DEF ControlNext, CommandStep
  <2>2. step = "start" /\ UNCHANGED entry
    BY <2>1 DEF Start, Finish, Goes, scmVars
  <2>3. status.state = "STOPPED"
    BY <2>2 DEF Base, ControlTypeOK, StateFollowsProcess, InstallMeets, InTime
  <2> QED BY <2>1, <2>2, <2>3 DEF Start, StartService
<1>4. ControlSpec => []Timely
  BY <1>1, <1>2, PTL DEF ControlSpec
<1> QED BY <1>3, <1>4, PTL DEF ControlSpec, InstalledMeansStarted

\* Under the same condition an uninstall that reports success leaves no entry and no
\* process, for all timings; unless its stop met the service asleep after a failed
\* connect, or starting and not accepting it yet.
THEOREM GoneAfterRemoval ==
  ASSUME TickTime < RestartWait, TickTime < UninstallWait
  PROVE  ControlSpec => RemovedMeansGone
<1> DEFINE Timely == Base /\ Stopwatch /\ InTime /\ NoneIsGone
<1>1. ControlInit => Timely
  BY BaseInit, StopwatchInit DEF ControlInit, InTime, NoneIsGone
<1>2. Timely /\ [ControlNext]_allVars => Timely'
  BY BaseNext, StopwatchNext, InTimeNext
<1>3. Timely /\ [ControlNext]_allVars =>
        (result' = "removed" /\ result # "removed" /\ stop \notin {"overslept", "refused"} =>
           record' = "none" /\ pc' = "gone")
  <2> SUFFICES ASSUME Timely, [ControlNext]_allVars, result' = "removed", result # "removed",
                      stop \notin {"overslept", "refused"}
               PROVE  record' = "none" /\ pc' = "gone"
    OBVIOUS
  <2>1. Open \/ Delete
    <3>1. ~ServiceStep /\ ~HandlerStep /\ ~ExitStep /\ ~BusStep /\ ~Elapse /\ ~UNCHANGED allVars
      BY DEF ServiceStep, HandlerStep, ExitStep, BusStep, Elapse, allVars, controlVars,
             commandVars
    <3>2. ~Install /\ ~Uninstall /\ ~CreateOrUpdate /\ ~Query
      BY DEF Install, Uninstall, CreateOrUpdate, Query, Proceed, Finish
    <3>3. ~StopService /\ ~EndWait /\ ~Start
      BY DEF StopService, EndWait, Start, Proceed, Finish
    <3> QED BY <3>1, <3>2, <3>3 DEF ControlNext, CommandStep
  <2>2. CASE Open
    <3>1. record = "none" /\ UNCHANGED <<record, pc>>
      BY <2>2 DEF Open, Proceed, scmVars, vars, serviceVars
    <3> QED BY <3>1 DEF NoneIsGone
  <2>3. CASE Delete
    <3>1. step = "delete" /\ UNCHANGED vars
          /\ record' = IF status.state = "STOPPED" THEN "none" ELSE "deleting"
      BY <2>3 DEF Delete, Finish, Goes
    <3>2. pc = "gone"
      BY <3>1 DEF Base, ControlTypeOK, StopFollowed, InTime
    <3>3. status.state = "STOPPED"
      BY <3>2 DEF Base, StateFollowsProcess
    <3> QED BY <3>1, <3>2, <3>3 DEF vars, serviceVars
  <2> QED BY <2>1, <2>2, <2>3
<1>4. ControlSpec => []Timely
  BY <1>1, <1>2, PTL DEF ControlSpec
<1> QED BY <1>3, <1>4, PTL DEF ControlSpec, RemovedMeansGone

-----------------------------------------------------------------------------
(* What is proved of the service alone holds under the commands             *)

\* The commands, the SCM and the sleeps only choose among the steps of ServiceMain.
THEOREM ControlRunsService == ControlSpec => [][Next]_vars
BY ControlSteps, PTL DEF ControlSpec

\* Installed, updated, started and removed in any order, the service keeps the
\* invariants of its process: the handler finds a handle, at most one report follows a
\* stop, the display is blanked before STOPPED is reported, and the SCM is told the truth.
THEOREM ControlKeepsService ==
  ControlSpec =>
    [](HandlerFindsHandle /\ AtMostOneLateReport /\ BlankedBeforeStopped /\ StatusIsHonest)
<1>1. IInv => HandlerFindsHandle /\ AtMostOneLateReport /\ BlankedBeforeStopped /\ StatusIsHonest
  BY DEF IInv, LateOnlyBehindPoll, AtMostOneLateReport
<1>2. Base => IInv
  BY DEF Base
<1> QED BY <1>1, <1>2, BaseInvariant, PTL

\* Nor do the commands make the service leave its documented lifecycle.
THEOREM ControlKeepsLifecycle == ControlSpec => [][Lifecycle!Next]_(Lifecycle!lifecycleVars)
<1>1. Base /\ [ControlNext]_allVars => [Lifecycle!Next]_(Lifecycle!lifecycleVars)
  BY ControlSteps, RefinementNext DEF Base
<1> QED BY <1>1, BaseInvariant, PTL DEF ControlSpec

-----------------------------------------------------------------------------
(* The way to the end of a deletion: the steps that DeletionCompletes is    *)
(* made of, for sleeps of any length.                                       *)

\* A stop is delivered once: when the handler is done with it, the SCM knows.  A stop
\* heard before the RUNNING report is overwritten by it; the command that sent it then
\* sleeps until the process is through.
HeardOnce ==
  ~running_flag =>
    \/ handler = "flagged" /\ pc # "running"
    \/ status.state \in {"STOP_PENDING", "STOPPED"} /\ pc # "running"
    \/ /\ pc \in {"running", "api", "poll"} \cup Teardown
       /\ step = "sleep" /\ wait > 0

\* HeardOnce is an invariant.
LEMMA HeardOnceHolds == ControlSpec => []HeardOnce
<1>1. ControlInit => HeardOnce
  BY DEF ControlInit, HeardOnce
<1>2. Base /\ HeardOnce /\ [ControlNext]_allVars => HeardOnce'
  <2> SUFFICES ASSUME Base, HeardOnce, [ControlNext]_allVars PROVE HeardOnce'
    OBVIOUS
  <2>1. CASE ServiceStep
    <3>1. Moves /\ running_flag' = running_flag /\ handler' = handler
      BY <2>1, RunMoves DEF Base, ServiceStep
    <3>2. UNCHANGED <<step, wait>>
      BY <2>1 DEF ServiceStep, commandVars
    <3>3. pc \in {"register", "store", "pending"} => running_flag
      BY DEF Base, StateFollowsProcess
    <3> QED BY <3>1, <3>2, <3>3 DEF Moves, HeardOnce, Teardown
  <2>2. CASE HandlerStep
    <3>1. status'.state = "STOP_PENDING" /\ UNCHANGED <<pc, step, wait, running_flag>>
      BY <2>2 DEF HandlerStep, ReportStopPending, controlVars, commandVars, Base, IInv,
                  HandlerFindsHandle
    <3> QED BY <3>1 DEF HeardOnce
  <2>3. CASE ExitStep
    BY <2>3 DEF ExitStep, ProcessExit, HeardOnce
  <2>4. CASE UNCHANGED serviceVars /\ (step # "sleep" \/ wait = 0 \/ UNCHANGED <<step, wait>>)
    BY <2>4, ControlAssumption DEF serviceVars, HeardOnce, Base, ControlTypeOK
  <2>5. CASE Install \/ Uninstall \/ CreateOrUpdate \/ Query \/ Open \/ EndWait \/ Delete
    BY <2>4, <2>5 DEF Install, Uninstall, CreateOrUpdate, Query, Open, EndWait, Delete,
       Proceed, Finish, Goes, vars
  <2>6. CASE StopService
    <3>1. step = "stop" /\ step' = "sleep" /\ wait' > 0
      BY <2>6, ControlAssumption DEF StopService, Goes
    <3>2. CASE Control
      BY <3>1, <3>2 DEF Control, HeardOnce
    <3>3. CASE UNCHANGED vars
      BY <2>4, <3>1, <3>3 DEF vars
    <3> QED BY <2>6, <3>2, <3>3 DEF StopService
  <2>7. CASE Start
    BY <2>4, <2>7 DEF Start, StartService, Finish, Goes, vars, HeardOnce
  <2>8. CASE Elapse
    <3>1. UNCHANGED serviceVars /\ step' = step /\ ~Busy
      BY <2>8 DEF Elapse, vars
    <3>2. pc \notin {"running", "api", "poll"} \cup Teardown
      BY <3>1 DEF Busy, Awake, Asleep, Teardown
    <3> QED BY <3>1, <3>2 DEF serviceVars, HeardOnce
  <2>9. CASE BusStep \/ UNCHANGED allVars
    BY <2>4, <2>9 DEF BusStep, controlVars, commandVars, allVars, vars
  <2> QED
    BY <2>1, <2>2, <2>3, <2>5, <2>6, <2>7, <2>8, <2>9 DEF ControlNext, CommandStep
<1> QED BY <1>1, <1>2, BaseInvariant, PTL DEF ControlSpec

\* An entry marked for deletion whose process has heard the stop, or has stopped.
Doomed == record = "deleting" /\ Ending

\* The statements such a process has left, with that of its handler.
Statements == Left + (IF handler = "flagged" THEN 1 ELSE 0)

\* What is left of a deletion: statements first, then the sleep before the next one.
Nearer == Statements' < Statements \/ (Statements' = Statements /\ nap' < nap)
NoFarther == Nearer \/ (Statements' = Statements /\ nap' = nap)

\* A statement of the process, of its handler, and the passing of time: each is nearer
\* to the end; the last is the end.
LEMMA EachStepNearer ==
  ASSUME Base, Doomed, ServiceStep \/ HandlerStep \/ ExitStep \/ Elapse
  PROVE  record' = "none" \/ (Doomed' /\ Nearer)
<1>1. CASE ServiceStep
  <2>1. Moves /\ running_flag' = running_flag /\ handler' = handler /\ record' = record
    BY <1>1, RunMoves DEF Base, ServiceStep, scmVars
  <2>2. status.state # "STOPPED" /\ (Ending => Ending')
    BY <2>1, ProcessKeeps
  <2>3. ~running_flag
    BY <2>2 DEF Doomed, Ending
  <2>4. pc \notin {"register", "store", "pending"}
    BY <2>3 DEF Base, StateFollowsProcess
  <2>5. Statements' < Statements
    <3>1. CASE handler = "flagged"
      BY <2>1, <2>3, <2>4, <3>1 DEF Moves, Statements, Left
    <3>2. CASE handler # "flagged"
      BY <2>1, <2>3, <2>4, <3>2 DEF Moves, Statements, Left
    <3> QED BY <3>1, <3>2
  <2> QED BY <2>1, <2>2, <2>5 DEF Doomed, Nearer
<1>2. CASE HandlerStep
  <2>1. pc' = pc /\ running_flag' = running_flag /\ record' = record
        /\ handler = "flagged" /\ handler' = "idle"
    BY <1>2 DEF HandlerStep, ReportStopPending, controlVars, scmVars
  <2>2. ~running_flag
    BY <2>1 DEF Base, IInv, HandlerHasCleared
  <2>3. Left' = Left /\ Left \in Nat
    BY <2>1 DEF Left
  <2> QED BY <2>1, <2>2, <2>3 DEF Doomed, Ending, Nearer, Statements
<1>3. CASE ExitStep
  BY <1>3 DEF ExitStep, Doomed
<1>4. CASE Elapse
  <2>1. UNCHANGED <<pc, handler, running_flag, status, record>> /\ nap' = Less(nap)
    BY <1>4 DEF Elapse, vars, serviceVars, scmVars
  <2>2. pc \notin {"abandoned", "gone"}
    BY DEF Base, StateFollowsProcess, StopFollowed, MarkedIsEnding, Doomed, Ending
  <2>3. nap > 0
    BY <1>4, <2>2 DEF Elapse, Busy, Awake, Asleep
  <2>4. nap \in Nat
    BY ControlAssumption DEF Base, ControlTypeOK
  <2>5. nap' < nap
    BY <2>1, <2>3, <2>4 DEF Less
  <2>6. Statements' = Statements
    BY <2>1 DEF Statements, Left
  <2> QED BY <2>1, <2>5, <2>6 DEF Doomed, Ending, Nearer
<1> QED BY <1>1, <1>2, <1>3, <1>4

\* No command, and nothing the cooler does, takes it farther.
LEMMA NoStepFarther ==
  ASSUME Base, HeardOnce, Doomed, Install \/ Uninstall \/ CommandStep \/ BusStep
  PROVE  record' = "none" \/ (Doomed' /\ NoFarther)
<1> DEFINE Same == UNCHANGED <<pc, handler, running_flag, status, nap>>
<1>1. Same /\ record' = record => Doomed' /\ NoFarther
  BY DEF Doomed, Ending, NoFarther, Statements, Left
<1>2. CASE Install \/ Uninstall
  BY <1>1, <1>2 DEF Install, Uninstall, vars, serviceVars, clockVars, scmVars
<1>3. CASE CreateOrUpdate
  BY <1>1, <1>3 DEF CreateOrUpdate, Doomed, vars, serviceVars, clockVars, scmVars
<1>4. CASE Query \/ Open \/ EndWait
  BY <1>1, <1>4 DEF Query, Open, EndWait, vars, serviceVars, clockVars, scmVars
<1>5. CASE StopService
  <2>1. ~Control
    BY <1>5 DEF Control, Deliverable, HeardOnce, Doomed, Ending, StopService, Goes
  <2> QED BY <1>1, <1>5, <2>1 DEF StopService, vars, serviceVars, clockVars, scmVars
<1>6. CASE Start
  BY <1>6 DEF Start, Finish, Goes, Base, EntryFollowsStep, Doomed
<1>7. CASE Delete
  BY <1>1, <1>7 DEF Delete, Doomed, vars, serviceVars, clockVars
<1>8. CASE BusStep
  BY <1>1, <1>8 DEF BusStep, controlVars, serviceVars, clockVars, scmVars
<1> QED BY <1>2, <1>3, <1>4, <1>5, <1>6, <1>7, <1>8 DEF CommandStep

\* Until it is completed a deletion only comes nearer, with each of the steps that are
\* sure to be taken, whatever commands are given and whatever the cooler does.  Two
\* natural numbers measure what is left of it, so no more than finitely many remain.
THEOREM DeletionAdvances ==
  ControlSpec =>
    [][record = "deleting" /\ stop # "refused" /\ record' # "none" =>
         /\ Statements \in Nat /\ nap \in Nat
         /\ NoFarther
         /\ ServiceStep \/ HandlerStep \/ ExitStep \/ Elapse => Nearer]_allVars
<1>1. Base /\ HeardOnce /\ [ControlNext]_allVars =>
        [record = "deleting" /\ stop # "refused" /\ record' # "none" =>
           /\ Statements \in Nat /\ nap \in Nat
           /\ NoFarther
           /\ ServiceStep \/ HandlerStep \/ ExitStep \/ Elapse => Nearer]_allVars
  <2> SUFFICES ASSUME Base, HeardOnce, ControlNext,
                      record = "deleting", stop # "refused", record' # "none"
               PROVE  /\ Statements \in Nat /\ nap \in Nat
                      /\ NoFarther
                      /\ ServiceStep \/ HandlerStep \/ ExitStep \/ Elapse => Nearer
    OBVIOUS
  <2>1. Doomed
    BY DEF Base, StopFollowed, MarkedIsEnding, Doomed, Ending
  <2>2. Statements \in Nat /\ nap \in Nat
    BY ControlAssumption DEF Statements, Left, Base, ControlTypeOK
  <2>3. CASE ServiceStep \/ HandlerStep \/ ExitStep \/ Elapse
    BY <2>1, <2>2, <2>3, EachStepNearer DEF NoFarther
  <2>4. CASE ~(ServiceStep \/ HandlerStep \/ ExitStep \/ Elapse)
    BY <2>1, <2>2, <2>4, NoStepFarther DEF ControlNext
  <2> QED BY <2>3, <2>4
<1> QED BY <1>1, BaseInvariant, HeardOnceHolds, PTL DEF ControlSpec
=============================================================================
