--------------------------- MODULE CliDriverProofs ---------------------------
(***************************************************************************)
(* The safety invariants of CliDriver, proved for every set of processes,  *)
(* of --screen-off processes and of signals.  Each is a statement about    *)
(* one process at a time, and IInv is the conjunction over the processes   *)
(* of what such a process knows (Own).  Then the refinement of             *)
(* ScreenLifecycle, step by step, and what a process finally does.         *)
(***************************************************************************)
EXTENDS CliDriver, DeviceProofs

\* Outside the loop a process that is starting or has ended holds no handle,
\* and one that is starting does not believe it does.
ClosedOutside(c) ==
  /\ pc[c] \in {"trap", "api"} \cup Ended => device[c] = "None"
  /\ pc[c] \in {"trap", "api"} => ~is_connected[c]

\* The two records of the connection agree in the loop.
FlagAgrees(c) == pc[c] \in Loop => (is_connected[c] <=> device[c] # "None")

\* The one late report was written by the Send the signal caught; the process
\* has not polled since.
LateOnlyBehindPoll(c) ==
  late[c] # 0 => late[c] = 1 /\ ~running[c] /\ pc[c] \notin {"trap", "api", "send", "retry"}

Own(c) == ClosedOutside(c) /\ FlagAgrees(c) /\ LateOnlyBehindPoll(c)

IInv == TypeOK /\ \A c \in Clients : Own(c)

\* A step that leaves the variables of a process alone keeps what it knows.
LEMMA OwnFrame ==
  ASSUME NEW d \in Clients, Own(d),
         pc'[d] = pc[d], running'[d] = running[d], is_connected'[d] = is_connected[d],
         late'[d] = late[d], device'[d] = "None" <=> device[d] = "None"
  PROVE  Own(d)'
BY DEF Own, ClosedOutside, FlagAgrees, LateOnlyBehindPoll

\* IInv holds initially.
LEMMA IInvInit == Init => IInv
BY DEF Init, DeviceInit, IInv, TypeOK, DeviceTypeOK, Locations, Loop, Ended,
   Own, ClosedOutside, FlagAgrees, LateOnlyBehindPoll

\* A step of main() keeps IInv.
LEMMA IInvRun ==
  ASSUME IInv, NEW c \in Clients, Run(c)
  PROVE  IInv'
<1> USE DEF IInv
<1>1. CASE SetHandler(c)
  <2>1. TypeOK'
    BY <1>1 DEF SetHandler, Goto, deviceVars, TypeOK, DeviceTypeOK, Locations
  <2>2. Own(c)'
    BY <1>1 DEF SetHandler, Goto, deviceVars, TypeOK, Own, ClosedOutside, FlagAgrees,
       LateOnlyBehindPoll, Loop, Ended
  <2>3. ASSUME NEW d \in Clients, d # c PROVE Own(d)'
    BY <1>1, <2>3, OwnFrame DEF SetHandler, Goto, deviceVars, TypeOK
  <2> QED BY <2>1, <2>2, <2>3
<1>2. CASE OpenApi(c)
  <2>1. TypeOK'
    BY <1>2 DEF OpenApi, Goto, deviceVars, TypeOK, DeviceTypeOK, Locations, Loop, Ended
  <2>2. Own(c)'
    BY <1>2 DEF OpenApi, Goto, deviceVars, TypeOK, Own, ClosedOutside, FlagAgrees,
       LateOnlyBehindPoll, Loop, Ended
  <2>3. ASSUME NEW d \in Clients, d # c PROVE Own(d)'
    BY <1>2, <2>3, OwnFrame DEF OpenApi, Goto, deviceVars, TypeOK
  <2> QED BY <2>1, <2>2, <2>3
<1>3. CASE Poll(c)
  <2>1. DeviceTypeOK'
    BY <1>3, DeviceSteps DEF Poll, TypeOK
  <2>2. TypeOK'
    BY <1>3, <2>1 DEF Poll, Goto, TypeOK, Locations, Loop
  <2>3. Own(c)'
    <3>1. is_connected'[c] <=> device'[c] # "None"
      BY <1>3, ConnectResult DEF Poll, TypeOK
    <3> QED
      BY <1>3, <3>1 DEF Poll, Goto, TypeOK, Own, ClosedOutside, FlagAgrees,
         LateOnlyBehindPoll, Loop, Ended
  <2>4. ASSUME NEW d \in Clients, d # c PROVE Own(d)'
    <3>1. device'[d] = device[d]
      BY <1>3, <2>4, DeviceFrame DEF Poll, TypeOK
    <3> QED BY <1>3, <2>4, <3>1, OwnFrame DEF Poll, Goto, TypeOK
  <2> QED BY <2>2, <2>3, <2>4
<1>4. CASE Send(c)
  <2> DEFINE on == c \notin ScreenOff
  <2>1. on \in BOOLEAN
    OBVIOUS
  <2>2. DeviceTypeOK'
    BY <1>4, <2>1, DeviceSteps DEF Send, TypeOK
  <2>3. AfterSend(c) \in {"tick", "leaving"}
    BY DEF AfterSend
  <2>4. late[c] = 0
    BY <1>4 DEF Send, Goto, Own, LateOnlyBehindPoll
  <2>5. \/ late' = late
        \/ ~running[c] /\ late' = [late EXCEPT ![c] = 1]
    <3>1. CASE running[c]
      BY <1>4, <3>1 DEF Send, TypeOK
    <3>2. CASE ~running[c]
      BY <1>4, <2>4, <3>2 DEF Send, TypeOK
    <3> QED BY <3>1, <3>2
  <2>6. TypeOK'
    <3>1. pc' \in [Clients -> Locations]
      BY <1>4, <2>3 DEF Send, Goto, TypeOK, Locations, Loop
    <3>2. late' \in [Clients -> Nat]
      BY <2>5 DEF TypeOK
    <3>3. is_connected' \in [Clients -> BOOLEAN]
      BY <1>4 DEF Send, TypeOK
    <3> QED BY <1>4, <2>2, <3>1, <3>2, <3>3 DEF Send, TypeOK
  <2>7. Own(c)'
    BY ZenonT(60), <1>4, <2>1, <2>3, <2>4, <2>5, DeviceSteps DEF Send, Goto, TypeOK, Own, ClosedOutside,
       FlagAgrees, LateOnlyBehindPoll, Loop, Ended, SendOk
  <2>8. ASSUME NEW d \in Clients, d # c PROVE Own(d)'
    <3>1. device'[d] = device[d]
      BY <1>4, <2>1, <2>8, DeviceFrame DEF Send, TypeOK
    <3>2. late'[d] = late[d] /\ is_connected'[d] = is_connected[d]
      BY <1>4, <2>5, <2>8 DEF Send, TypeOK
    <3> QED BY <1>4, <2>8, <3>1, <3>2, OwnFrame DEF Send, Goto, TypeOK
  <2> QED BY <2>6, <2>7, <2>8
<1>5. CASE Wake(c)
  <2>1. TypeOK'
    BY <1>5 DEF Wake, Goto, deviceVars, TypeOK, DeviceTypeOK, Locations, Loop
  <2>2. Own(c)'
    BY <1>5 DEF Wake, Goto, deviceVars, TypeOK, Own, ClosedOutside, FlagAgrees,
       LateOnlyBehindPoll, Loop, Ended
  <2>3. ASSUME NEW d \in Clients, d # c PROVE Own(d)'
    BY <1>5, <2>3, OwnFrame DEF Wake, Goto, deviceVars, TypeOK
  <2> QED BY <2>1, <2>2, <2>3
<1>6. CASE Leave(c)
  <2>1. DeviceTypeOK' /\ device'[c] = "None"
    BY <1>6, DeviceSteps DEF Leave, TypeOK
  <2>2. TypeOK'
    BY <1>6, <2>1 DEF Leave, Goto, TypeOK, Locations, Ended
  <2>3. Own(c)'
    BY <1>6, <2>1 DEF Leave, Goto, TypeOK, Own, ClosedOutside, FlagAgrees,
       LateOnlyBehindPoll, Loop, Ended
  <2>4. ASSUME NEW d \in Clients, d # c PROVE Own(d)'
    <3>1. device'[d] = device[d]
      BY <1>6, <2>4, DeviceFrame DEF Leave, TypeOK
    <3> QED BY <1>6, <2>4, <3>1, OwnFrame DEF Leave, Goto, TypeOK
  <2> QED BY <2>2, <2>3, <2>4
<1> QED BY <1>1, <1>2, <1>3, <1>4, <1>5, <1>6 DEF Run

\* The death of a process keeps IInv.
LEMMA IInvDie ==
  ASSUME IInv, NEW c \in Clients, Die(c)
  PROVE  IInv'
<1> USE DEF IInv, Die
<1>1. DeviceTypeOK' /\ device'[c] = "None"
  BY DeviceSteps DEF TypeOK
<1>2. TypeOK'
  BY <1>1 DEF TypeOK, Locations, Ended
<1>3. Own(c)'
  BY <1>1 DEF TypeOK, Own, ClosedOutside, FlagAgrees, LateOnlyBehindPoll, Loop, Ended
<1>4. ASSUME NEW d \in Clients, d # c PROVE Own(d)'
  <2>1. device'[d] = device[d]
    BY <1>4, DeviceFrame DEF TypeOK
  <2> QED BY <1>4, <2>1, OwnFrame DEF TypeOK
<1> QED BY <1>2, <1>3, <1>4

\* Every step of the processes, their signals and starts, and the cooler keeps
\* IInv.
LEMMA IInvNext == IInv /\ [Next]_vars => IInv'
<1> SUFFICES ASSUME IInv, [Next]_vars PROVE IInv'
  OBVIOUS
<1>1. ASSUME NEW c \in Clients, Run(c) PROVE IInv'
  BY <1>1, IInvRun
<1>2. ASSUME NEW c \in Clients, Interrupt(c) PROVE IInv'
  <2>1. CASE Die(c)
    BY <2>1, IInvDie
  <2>2. CASE running[c] /\ ~Die(c)
    <3>1. TypeOK'
      BY <1>2, <2>2 DEF IInv, Interrupt, deviceVars, TypeOK, DeviceTypeOK
    <3>2. Own(c)'
      BY <1>2, <2>2 DEF IInv, Interrupt, deviceVars, TypeOK, Own, ClosedOutside, FlagAgrees,
         LateOnlyBehindPoll
    <3>3. ASSUME NEW d \in Clients, d # c PROVE Own(d)'
      BY <1>2, <2>2, <3>3, OwnFrame DEF IInv, Interrupt, deviceVars, TypeOK
    <3> QED BY <3>1, <3>2, <3>3 DEF IInv
  <2> QED BY <1>2, <2>1, <2>2 DEF Interrupt
<1>3. ASSUME NEW c \in Clients, Terminate(c) PROVE IInv'
  BY <1>3, IInvDie DEF Terminate
<1>4. ASSUME NEW c \in Clients, Start(c) PROVE IInv'
  <2>1. TypeOK'
    BY <1>4 DEF IInv, Start, deviceVars, TypeOK, DeviceTypeOK, Locations
  <2>2. Own(c)'
    BY <1>4 DEF IInv, Start, deviceVars, TypeOK, Own, ClosedOutside, FlagAgrees,
       LateOnlyBehindPoll, Loop, Ended
  <2>3. ASSUME NEW d \in Clients, d # c PROVE Own(d)'
    BY <1>4, <2>3, OwnFrame DEF IInv, Start, deviceVars, TypeOK
  <2> QED BY <2>1, <2>2, <2>3 DEF IInv
<1>5. CASE Bus /\ UNCHANGED cliVars
  <2>1. DeviceTypeOK' /\ \A d \in Clients : device'[d] = "None" <=> device[d] = "None"
    BY <1>5, BusSteps DEF IInv, TypeOK
  <2>2. TypeOK'
    BY <1>5, <2>1 DEF IInv, TypeOK, cliVars
  <2>3. ASSUME NEW d \in Clients PROVE Own(d)'
    BY <1>5, <2>1, OwnFrame DEF IInv, cliVars
  <2> QED BY <2>2, <2>3 DEF IInv
<1>6. CASE UNCHANGED vars
  BY <1>6 DEF vars, cliVars, deviceVars, IInv, TypeOK, DeviceTypeOK, Own, ClosedOutside,
     FlagAgrees, LateOnlyBehindPoll
<1> QED BY <1>1, <1>2, <1>3, <1>4, <1>5, <1>6 DEF Next

\* The strengthened invariant holds in every reachable state.
THEOREM CliInvariant == Spec => []IInv
BY IInvInit, IInvNext, PTL DEF Spec

\* Every variable keeps to its declared values, for any number of processes.
THEOREM TypeCorrect == Spec => []TypeOK
<1>1. IInv => TypeOK
  BY DEF IInv
<1> QED BY <1>1, CliInvariant, PTL

\* is_connected and the device never disagree while the loop runs.
THEOREM ConnectedFlagAgrees == Spec => []ConnectedFlag
<1>1. IInv => ConnectedFlag
  BY DEF IInv, Own, FlagAgrees, ConnectedFlag
<1> QED BY <1>1, CliInvariant, PTL

\* At most one report of a process follows the signal that stops it.
THEOREM LateReportBounded == Spec => []AtMostOneLateReport
<1>1. IInv => AtMostOneLateReport
  <2> SUFFICES ASSUME IInv, NEW c \in Clients PROVE late[c] <= 1
    BY DEF AtMostOneLateReport
  <2>1. late[c] = 0 \/ late[c] = 1
    BY DEF IInv, Own, LateOnlyBehindPoll
  <2> QED BY <2>1
<1> QED BY <1>1, CliInvariant, PTL

-----------------------------------------------------------------------------
(* The driver implements the documented lifecycle, with exits from the     *)
(* Streaming phase.                                                        *)

\* A step of one process: the place and the handle of every other stay.
OthersKeep(c) ==
  \A d \in Clients \ {c} : pc'[d] = pc[d] /\ device'[d] = device[d]

\* The variables of Lifecycle! as functions over Clients, and how a step of one
\* process changes them.
LEMMA PhaseMoves ==
  ASSUME NEW c \in Clients, NEW to, OthersKeep(c), Phase(c)' = to
  PROVE  Lifecycle!Move(c, Phase(c), to)
<1>1. ASSUME NEW d \in Clients \ {c} PROVE Phase(d)' = Phase(d)
  BY <1>1 DEF OthersKeep, Phase
<1> QED BY <1>1 DEF Lifecycle!Move

LEMMA PhasesStay ==
  ASSUME NEW c \in Clients, OthersKeep(c), Phase(c)' = Phase(c)
  PROVE  [d \in Clients |-> Phase(d)]' = [d \in Clients |-> Phase(d)]
<1>1. ASSUME NEW d \in Clients PROVE Phase(d)' = Phase(d)
  BY <1>1 DEF OthersKeep, Phase
<1> QED BY <1>1, Zenon

LEMMA LinksStay ==
  ASSUME NEW c \in Clients, OthersKeep(c), cooler' = cooler, Writable(c)' = Writable(c)
  PROVE  [d \in Clients |-> Writable(d)]' = [d \in Clients |-> Writable(d)]
<1>1. ASSUME NEW d \in Clients PROVE Writable(d)' = Writable(d)
  <2>1. CASE d = c
    BY <2>1, Zenon
  <2>2. CASE d # c
    BY <2>2 DEF OthersKeep, Writable
  <2> QED BY <2>1, <2>2
<1> QED BY <1>1, Zenon

LEMMA LinkBecomes ==
  ASSUME NEW c \in Clients, NEW b \in BOOLEAN, OthersKeep(c), cooler' = cooler,
         Writable(c)' = b
  PROVE  [d \in Clients |-> Writable(d)]' = [[d \in Clients |-> Writable(d)] EXCEPT ![c] = b]
<1>1. ASSUME NEW d \in Clients, d # c PROVE Writable(d)' = Writable(d)
  BY <1>1 DEF OthersKeep, Writable
<1> QED BY <1>1, Zenon

\* A process is in the phase Exited exactly when it has ended.
LEMMA PhaseExited ==
  ASSUME NEW c \in Clients, pc[c] \notin Ended, pc'[c] \in Ended
  PROVE  Phase(c) # "Exited" /\ Phase(c)' = "Exited"
<1>1. Phase(c) \in {"Streaming", "TurningOff", "Disconnected"}
  BY DEF Phase
<1>2. Phase(c)' = "Exited"
  BY DEF Phase, Loop, Ended
<1> QED BY <1>1, <1>2

\* A step that changes neither phases, links nor screen stutters.
LEMMA Stutters ==
  ASSUME NEW c \in Clients, OthersKeep(c), cooler' = cooler, screen' = screen,
         Phase(c)' = Phase(c), Writable(c)' = Writable(c)
  PROVE  UNCHANGED Lifecycle!lifecycleVars
BY PhasesStay, LinksStay DEF Lifecycle!lifecycleVars

\* A process that ends drops its handle, from whatever phase.
LEMMA Exits ==
  ASSUME NEW c \in Clients, OthersKeep(c), Drop(c), DeviceTypeOK,
         Phase(c) # "Exited", Phase(c)' = "Exited"
  PROVE  Lifecycle!Exit(c)
<1>1. screen' = screen /\ cooler' = cooler
  BY DEF Drop
<1>2. Writable(c)' = FALSE
  BY DEF Drop, Writable, DeviceTypeOK
<1>3. [d \in Clients |-> Writable(d)]' = [[d \in Clients |-> Writable(d)] EXCEPT ![c] = FALSE]
  BY <1>1, <1>2, LinkBecomes
<1>4. [d \in Clients |-> Phase(d)]' = [[d \in Clients |-> Phase(d)] EXCEPT ![c] = "Exited"]
  BY PhaseMoves DEF Lifecycle!Move
<1>5. [d \in Clients |-> Phase(d)][c] # "Exited"
  OBVIOUS
<1> QED BY <1>1, <1>3, <1>4, <1>5 DEF Lifecycle!Exit

\* A write that failed through a handle the process held, and then forgot.
LEMMA Loses ==
  ASSUME NEW c \in Clients, NEW on \in BOOLEAN, SendErr(c, on), DeviceTypeOK, OthersKeep(c),
         Phase(c) = IF on THEN "Streaming" ELSE "TurningOff", Phase(c)' = "Disconnected"
  PROVE  Lifecycle!Lose(c)
<1>1. ~Writable(c) /\ Writable(c)' = Writable(c) /\ cooler' = cooler
  BY DEF SendErr, Writable, HandlesAfterError, DeviceTypeOK
<1>2. screen' \in {screen, IF on THEN "lit" ELSE "blank"}
  BY DEF SendErr, Shown
<1>3. Lifecycle!Move(c, IF on THEN "Streaming" ELSE "TurningOff", "Disconnected")
  BY PhaseMoves
<1>4. ~[d \in Clients |-> Writable(d)][c]
  BY <1>1
<1> QED BY <1>1, <1>2, <1>3, <1>4, LinksStay DEF Lifecycle!Lose

LEMMA RefinementInit == Init => Lifecycle!Init
<1> SUFFICES ASSUME Init PROVE Lifecycle!Init
  OBVIOUS
<1>1. \A c \in Clients : Phase(c) = "Disconnected" /\ Writable(c) = FALSE
  BY DEF Init, DeviceInit, Phase, Loop, Ended, Writable
<1> QED BY <1>1 DEF Init, DeviceInit, Lifecycle!Init

-----------------------------------------------------------------------------
\* connect(): the phase a process enters with a new handle.
LEMMA PollRefines ==
  ASSUME IInv, NEW c \in Clients, Poll(c)
  PROVE  Lifecycle!Next \/ UNCHANGED Lifecycle!lifecycleVars
<1>0. TypeOK /\ DeviceTypeOK
  BY DEF IInv, TypeOK
<1>1. pc[c] \in Loop /\ pc'[c] \in Loop
  BY <1>0 DEF Poll, Goto, Loop, TypeOK
<1>2. screen' = screen /\ cooler' = cooler
  BY DEF Poll, ConnectOk, ConnectErr, deviceVars
<1>3. OthersKeep(c)
  BY <1>0, DeviceFrame DEF Poll, Goto, OthersKeep, TypeOK
<1>4. CASE UNCHANGED device
  <2>1. Phase(c)' = Phase(c) /\ Writable(c)' = Writable(c)
    BY <1>1, <1>2, <1>4 DEF Phase, Loop, Ended, Writable
  <2> QED BY <1>2, <1>3, <2>1, Stutters
<1>5. CASE device[c] = "None" /\ cooler = "ready" /\ device'[c] = "Live"
  <2>1. Phase(c) = "Disconnected"
    BY <1>1, <1>5 DEF Phase, Loop, Ended
  <2>2. Phase(c)' = IF c \in ScreenOff THEN "TurningOff" ELSE "Streaming"
    BY <1>1, <1>5 DEF Phase, Loop, Ended
  <2>3. Writable(c)' = TRUE
    BY <1>2, <1>5 DEF Writable
  <2>4. Lifecycle!Open(c)
    BY <1>2, <1>3, <2>1, <2>2, <2>3, PhaseMoves, LinkBecomes DEF Lifecycle!Open
  <2> QED BY <2>4 DEF Lifecycle!Next
<1> QED BY <1>0, <1>4, <1>5 DEF Poll, ConnectOk, ConnectErr, deviceVars, DeviceTypeOK

\* send(): a refresh, the Screen-OFF report, or the loss of the connection.
LEMMA SendRefines ==
  ASSUME IInv, NEW c \in Clients, Send(c)
  PROVE  Lifecycle!Next \/ UNCHANGED Lifecycle!lifecycleVars
<1> DEFINE on == c \notin ScreenOff
<1>0. TypeOK /\ DeviceTypeOK /\ on \in BOOLEAN
  BY DEF IInv, TypeOK
<1>1. pc[c] \in Loop /\ pc'[c] = AfterSend(c)
  BY <1>0 DEF Send, Goto, Loop, TypeOK
<1>2. OthersKeep(c)
  BY <1>0, DeviceFrame DEF Send, Goto, OthersKeep, TypeOK
<1>3. CASE SendOk(c, on)
  <2>1. Writable(c) /\ Writable(c)' = Writable(c) /\ device'[c] = device[c] /\ device[c] # "None"
    BY <1>3 DEF SendOk, Writable
  <2>2. cooler' = cooler
    BY <1>3 DEF SendOk
  <2>3. [d \in Clients |-> Writable(d)][c]
    BY <2>1
  <2>4. CASE c \notin ScreenOff
    <3>1. Phase(c) = "Streaming" /\ Phase(c)' = Phase(c)
      BY <1>1, <2>1, <2>4 DEF Phase, AfterSend, Loop, Ended
    <3>2. screen' = "lit"
      BY <1>3, <2>4 DEF SendOk, Shown
    <3>3. Lifecycle!Refresh(c)
      BY <1>2, <2>1, <2>2, <2>3, <3>1, <3>2, PhasesStay, LinksStay DEF Lifecycle!Refresh
    <3> QED BY <3>3 DEF Lifecycle!Next
  <2>5. CASE c \in ScreenOff
    <3>1. Phase(c) = "TurningOff" /\ Phase(c)' = "Disconnected"
      BY <1>1, <2>1, <2>5 DEF Phase, AfterSend, Loop, Ended
    <3>2. screen' = "blank"
      BY <1>3, <2>5 DEF SendOk, Shown
    <3>3. Lifecycle!Blank(c)
      BY <1>2, <2>1, <2>2, <2>3, <3>1, <3>2, PhaseMoves, LinksStay DEF Lifecycle!Blank
    <3> QED BY <3>3 DEF Lifecycle!Next
  <2> QED BY <2>4, <2>5
<1>4. CASE SendErr(c, on)
  <2>1. device'[c] = "None" /\ cooler' = cooler
    BY <1>0, <1>4, DeviceSteps DEF SendErr
  <2>2. Phase(c)' = "Disconnected"
    BY <1>1, <2>1 DEF Phase, AfterSend, Loop, Ended
  <2>3. CASE device[c] = "None"
    <3>1. Phase(c) = "Disconnected"
      BY <1>1, <2>3 DEF Phase, Loop, Ended
    <3>2. screen' = screen
      BY <1>4, <2>3 DEF SendErr
    <3>3. Writable(c)' = Writable(c)
      BY <2>1, <2>3 DEF Writable
    <3> QED BY <1>2, <2>1, <2>2, <3>1, <3>2, <3>3, Stutters
  <2>4. CASE device[c] # "None"
    <3>1. Phase(c) = IF on THEN "Streaming" ELSE "TurningOff"
      BY <1>1, <2>4 DEF Phase, Loop, Ended
    <3>2. Lifecycle!Lose(c)
      BY <1>0, <1>2, <1>4, <2>2, <3>1, Loses
    <3> QED BY <3>2 DEF Lifecycle!Next
  <2> QED BY <2>3, <2>4
<1> QED BY <1>3, <1>4 DEF Send

\* The steps that leave the device alone, and the end of main().
LEMMA RunRefines ==
  ASSUME IInv, NEW c \in Clients, Run(c)
  PROVE  Lifecycle!Next \/ UNCHANGED Lifecycle!lifecycleVars
<1>0. TypeOK /\ DeviceTypeOK /\ Own(c)
  BY DEF IInv, TypeOK
<1>1. ASSUME UNCHANGED deviceVars
      PROVE  Writable(c)' = Writable(c) /\ screen' = screen /\ cooler' = cooler
             /\ device' = device
  BY <1>1 DEF deviceVars, Writable
<1>2. CASE SetHandler(c) \/ Wake(c)
  <2>1. UNCHANGED deviceVars
    BY <1>2 DEF SetHandler, Wake
  <2>2. OthersKeep(c)
    BY <1>0, <1>1, <1>2, <2>1 DEF SetHandler, Wake, Goto, OthersKeep, TypeOK
  <2>3. Phase(c)' = Phase(c)
    BY <1>0, <1>1, <1>2, <2>1 DEF SetHandler, Wake, Goto, Phase, Loop, Ended, TypeOK
  <2> QED BY <1>1, <2>1, <2>2, <2>3, Stutters
<1>3. CASE OpenApi(c)
  <2>1. UNCHANGED deviceVars /\ device[c] = "None"
    BY <1>0, <1>3 DEF OpenApi, Goto, Own, ClosedOutside
  <2>2. OthersKeep(c)
    BY <1>0, <1>1, <1>3, <2>1 DEF OpenApi, Goto, OthersKeep, TypeOK
  <2>3. Phase(c) = "Disconnected"
    BY <1>3 DEF OpenApi, Goto, Phase, Loop, Ended
  <2>4. Phase(c)' = "Disconnected" \/ Phase(c)' = "Exited"
    BY <1>0, <1>1, <1>3, <2>1 DEF OpenApi, Goto, Phase, Loop, Ended, TypeOK
  <2>5. CASE Phase(c)' = "Disconnected"
    BY <1>1, <2>1, <2>2, <2>3, <2>5, Stutters
  <2>6. CASE Phase(c)' = "Exited"
    <3>1. Lifecycle!Move(c, "Disconnected", "Exited")
      BY <2>2, <2>3, <2>6, PhaseMoves
    <3>2. [d \in Clients |-> Writable(d)]' = [d \in Clients |-> Writable(d)]
      BY <1>1, <2>1, <2>2, LinksStay
    <3>3. Lifecycle!Exit(c)
      BY <1>1, <2>1, <3>1, <3>2 DEF Lifecycle!Move, Lifecycle!Exit
    <3> QED BY <3>3 DEF Lifecycle!Next
  <2> QED BY <2>4, <2>5, <2>6
<1>4. CASE Leave(c)
  <2>1. Drop(c) /\ OthersKeep(c)
    BY <1>0, <1>4 DEF Leave, Goto, OthersKeep, Drop, TypeOK, DeviceTypeOK
  <2>2. pc[c] \notin Ended /\ pc'[c] \in Ended
    BY <1>0, <1>4 DEF Leave, Goto, Ended, TypeOK
  <2>3. Phase(c) # "Exited" /\ Phase(c)' = "Exited"
    BY <2>2, PhaseExited
  <2>4. Lifecycle!Exit(c)
    BY <1>0, <2>1, <2>3, Exits
  <2> QED BY <2>4 DEF Lifecycle!Next
<1> QED BY <1>2, <1>3, <1>4, PollRefines, SendRefines DEF Run

\* A killed process exits from whatever phase it was in.
LEMMA DieRefines ==
  ASSUME IInv, NEW c \in Clients, Die(c)
  PROVE  Lifecycle!Next
<1>0. TypeOK /\ DeviceTypeOK
  BY DEF IInv, TypeOK
<1>1. Drop(c) /\ OthersKeep(c)
  BY <1>0 DEF Die, OthersKeep, Drop, TypeOK, DeviceTypeOK
<1>2. pc[c] \notin Ended /\ pc'[c] \in Ended
  BY <1>0 DEF Die, Ended, TypeOK
<1>3. Phase(c) # "Exited" /\ Phase(c)' = "Exited"
  BY <1>2, PhaseExited
<1>4. Lifecycle!Exit(c)
  BY <1>0, <1>1, <1>3, Exits
<1> QED BY <1>4 DEF Lifecycle!Next

\* Every step of the driver is a step of its lifecycle or changes nothing there.
LEMMA RefinementNext == IInv /\ [Next]_vars => [Lifecycle!Next]_(Lifecycle!lifecycleVars)
<1> SUFFICES ASSUME IInv, [Next]_vars
             PROVE  Lifecycle!Next \/ UNCHANGED Lifecycle!lifecycleVars
  OBVIOUS
<1>0. TypeOK /\ DeviceTypeOK
  BY DEF IInv, TypeOK
<1>1. ASSUME UNCHANGED <<deviceVars, pc>>
      PROVE  UNCHANGED Lifecycle!lifecycleVars
  <2>1. ASSUME NEW d \in Clients
        PROVE  Phase(d)' = Phase(d) /\ Writable(d)' = Writable(d)
    BY <1>1 DEF deviceVars, Phase, Writable
  <2>2. [d \in Clients |-> Phase(d)]' = [d \in Clients |-> Phase(d)]
    BY <2>1, Zenon
  <2>3. [d \in Clients |-> Writable(d)]' = [d \in Clients |-> Writable(d)]
    BY <2>1, Zenon
  <2>4. screen' = screen
    BY <1>1 DEF deviceVars
  <2> QED BY <2>2, <2>3, <2>4 DEF Lifecycle!lifecycleVars
<1>2. ASSUME NEW c \in Clients, Run(c)
      PROVE  Lifecycle!Next \/ UNCHANGED Lifecycle!lifecycleVars
  BY <1>2, RunRefines
<1>3. ASSUME NEW c \in Clients, Interrupt(c) \/ Terminate(c)
      PROVE  Lifecycle!Next \/ UNCHANGED Lifecycle!lifecycleVars
  <2>1. CASE Die(c)
    BY <2>1, DieRefines
  <2>2. CASE UNCHANGED <<deviceVars, pc>>
    BY <1>1, <2>2
  <2> QED BY <1>3, <2>1, <2>2 DEF Interrupt, Terminate
<1>4. ASSUME NEW c \in Clients, Start(c)
      PROVE  Lifecycle!Next
  <2>1. Phase(c) = "Exited" /\ device[c] = "None" /\ device' = device /\ cooler' = cooler
        /\ screen' = screen
    BY <1>4 DEF IInv, Own, ClosedOutside, Start, Phase, deviceVars
  <2>2. Phase(c)' = "Disconnected" /\ OthersKeep(c) /\ Writable(c)' = Writable(c)
    BY <1>0, <1>4, <2>1 DEF Start, Phase, OthersKeep, Writable, Loop, Ended, TypeOK
  <2>3. Lifecycle!Start(c)
    BY <2>1, <2>2, PhaseMoves, LinksStay DEF Lifecycle!Start
  <2> QED BY <2>3 DEF Lifecycle!Next
<1>5. CASE Bus /\ UNCHANGED cliVars
  <2>1. ASSUME NEW d \in Clients PROVE Phase(d)' = Phase(d)
    <3>1. pc' = pc /\ (device'[d] = "None" <=> device[d] = "None")
      BY <1>0, <1>5, BusSteps DEF cliVars
    <3> QED BY <3>1 DEF Phase
  <2>2. [d \in Clients |-> Phase(d)]' = [d \in Clients |-> Phase(d)]
    BY <2>1, Zenon
  <2>3. [d \in Clients |-> Writable(d)]' \in [Clients -> BOOLEAN]
    BY DEF Writable
  <2>4. screen' \in {screen, "dark"}
    BY <1>5 DEF Bus, Unplug, Plug, Falter, Settle
  <2>5. Lifecycle!Disturb
    BY <2>2, <2>3, <2>4 DEF Lifecycle!Disturb
  <2> QED BY <2>5 DEF Lifecycle!Next
<1>6. CASE UNCHANGED vars
  BY <1>1, <1>6 DEF vars, cliVars
<1> QED BY <1>2, <1>3, <1>4, <1>5, <1>6 DEF Next

\* The driver implements the documented lifecycle, for any number of processes,
\* but for exits from the Streaming phase.
THEOREM LifecycleImplemented == Spec => ImplementsLifecycle
BY CliInvariant, RefinementInit, RefinementNext, PTL
   DEF Spec, ImplementsLifecycle, Lifecycle!Spec

-----------------------------------------------------------------------------
(* What a process finally does.  The prover takes ENABLED as it finds it:   *)
(* NeverStuck says when a process can take its next step, and the theorems  *)
(* below have it for a hypothesis.                                          *)

\* main() has a next statement until the process ends: connect() and send() return
\* Ok or Err whatever the cooler does.
CanRun(c) == pc[c] \notin Ended => ENABLED <<Run(c)>>_vars
NeverStuck == \A c \in Clients : CanRun(c)

\* What the theorems use of the fairness and of NeverStuck, for one process.
LEMMA OneProcess ==
  ASSUME NEW c \in Clients
  PROVE  FairSpec /\ []NeverStuck => Scheduled(c) /\ []CanRun(c)
<1>1. Fairness => Scheduled(c)
  BY DEF Fairness
<1>2. NeverStuck => CanRun(c)
  BY DEF NeverStuck
<1> QED BY <1>1, <1>2, PTL DEF FairSpec

\* Whatever another process does, or is made to do, a process keeps its place, its flag
\* and its handle.
LEMMA OthersLeave ==
  ASSUME IInv, NEW c \in Clients, NEW d \in Clients, d # c,
         Run(d) \/ Interrupt(d) \/ Terminate(d) \/ Start(d)
  PROVE  pc'[c] = pc[c] /\ running'[c] = running[c] /\ device'[c] = device[c]
<1> USE DEF IInv, TypeOK
<1>1. CASE SetHandler(d) \/ OpenApi(d) \/ Wake(d) \/ Start(d)
  BY <1>1 DEF SetHandler, OpenApi, Wake, Start, Goto, deviceVars
<1>2. CASE Poll(d)
  BY <1>2, DeviceFrame DEF Poll, Goto
<1>3. CASE Send(d)
  <2>1. (d \notin ScreenOff) \in BOOLEAN
    OBVIOUS
  <2> QED BY <1>3, <2>1, DeviceFrame DEF Send, Goto
<1>4. CASE Leave(d)
  BY <1>4, DeviceFrame DEF Leave, Goto
<1>5. CASE Die(d)
  BY <1>5, DeviceFrame DEF Die
<1>6. CASE Interrupt(d) /\ ~Die(d)
  BY <1>6 DEF Interrupt, deviceVars
<1> QED BY <1>1, <1>2, <1>3, <1>4, <1>5, <1>6 DEF Run, Terminate

\* What can happen to a process that has not ended, but its own next statement: it dies,
\* or stays where it is, perhaps with its flag cleared.
LEMMA ProcessStays ==
  ASSUME IInv, NEW c \in Clients, pc[c] \notin Ended, [Next]_vars, ~Run(c)
  PROVE  /\ pc'[c] \in Ended \/ pc'[c] = pc[c]
         /\ running'[c] => running[c]
         /\ cooler = "ready" /\ cooler' = "ready" /\ pc'[c] \notin Ended
            => device'[c] = device[c]
<1>1. CASE \E d \in Clients \ {c} : Run(d) \/ Interrupt(d) \/ Terminate(d) \/ Start(d)
  BY <1>1, OthersLeave
<1>2. CASE Die(c)
  BY <1>2 DEF Die, Ended, IInv, TypeOK
<1>3. CASE Interrupt(c) /\ ~Die(c)
  BY <1>3 DEF Interrupt, deviceVars, IInv, TypeOK
<1>4. CASE Bus /\ UNCHANGED cliVars
  BY <1>4 DEF cliVars, Bus, Unplug, Plug, Falter, Settle
<1>5. CASE UNCHANGED vars
  BY <1>5 DEF vars, cliVars, deviceVars
<1> QED BY <1>1, <1>2, <1>3, <1>4, <1>5 DEF Next, Terminate, Start

\* How many statements main() has left once the flag is cleared.
Left(c) ==
  CASE pc[c] = "trap" -> 6
    [] pc[c] = "api" -> 5
    [] pc[c] = "send" -> 4
    [] pc[c] \in {"tick", "retry"} -> 3
    [] pc[c] = "poll" -> 2
    [] OTHER -> 1

\* The process was told to stop and has at most n statements left.
Within(c, n) == ~running[c] /\ pc[c] \notin Ended /\ Left(c) <= n

HasEnded(c) == pc[c] \in Ended

\* No step takes a process that was told to stop back, and each of its own takes it
\* forward.
LEMMA StopAdvances ==
  ASSUME NEW c \in Clients, NEW n \in 1 .. 6, IInv, Within(c, n), [Next]_vars
  PROVE  /\ Within(c, n)' \/ HasEnded(c)'
         /\ Run(c) => HasEnded(c)' \/ (n > 1 /\ Within(c, n - 1)')
<1> DEFINE Goes(from, to) == pc[c] = from /\ pc'[c] = to /\ running'[c] = running[c]
<1> USE DEF IInv, TypeOK
<1>1. CASE SetHandler(c) \/ OpenApi(c)
  <2>1. Goes("trap", "api") \/ Goes("api", "poll") \/ Goes("api", "exited")
    BY <1>1 DEF SetHandler, OpenApi, Goto
  <2> QED BY <2>1 DEF Within, Left, HasEnded, Ended
<1>2. CASE Poll(c)
  BY <1>2 DEF Poll, Within
<1>3. CASE Send(c) \/ Wake(c)
  <2>1. Goes("send", "tick") \/ Goes("send", "leaving") \/ Goes("tick", "poll") \/ Goes("retry", "poll")
    BY <1>3 DEF Send, AfterSend, Wake, Goto
  <2> QED BY <2>1 DEF Within, Left, HasEnded, Ended
<1>4. CASE Leave(c)
  BY <1>4 DEF Leave, Goto, HasEnded, Ended
<1>5. CASE ~Run(c)
  <2>1. /\ pc'[c] \in Ended \/ pc'[c] = pc[c]
        /\ running'[c] => running[c]
    BY <1>5, ProcessStays DEF Within
  <2> QED BY <1>5, <2>1 DEF Within, Left, HasEnded
<1> QED BY <1>1, <1>2, <1>3, <1>4, <1>5 DEF Run

\* A process told to stop ends, whatever the cooler and the other processes do.
THEOREM InterruptAlwaysEnds == FairSpec /\ []NeverStuck => InterruptEnds
<1> SUFFICES ASSUME NEW c \in Clients
             PROVE  FairSpec /\ []NeverStuck => (~running[c] ~> pc[c] \in Ended)
  BY DEF InterruptEnds
<1>1. IInv /\ [Next]_vars =>
        /\ Within(c, 6) => Within(c, 6)' \/ HasEnded(c)'
        /\ Within(c, 5) => Within(c, 5)' \/ HasEnded(c)'
        /\ Within(c, 4) => Within(c, 4)' \/ HasEnded(c)'
        /\ Within(c, 3) => Within(c, 3)' \/ HasEnded(c)'
        /\ Within(c, 2) => Within(c, 2)' \/ HasEnded(c)'
        /\ Within(c, 1) => Within(c, 1)' \/ HasEnded(c)'
  BY StopAdvances
<1>2. IInv /\ [Next]_vars /\ <<Run(c)>>_vars =>
        /\ Within(c, 6) => Within(c, 5)' \/ HasEnded(c)'
        /\ Within(c, 5) => Within(c, 4)' \/ HasEnded(c)'
        /\ Within(c, 4) => Within(c, 3)' \/ HasEnded(c)'
        /\ Within(c, 3) => Within(c, 2)' \/ HasEnded(c)'
        /\ Within(c, 2) => Within(c, 1)' \/ HasEnded(c)'
        /\ Within(c, 1) => HasEnded(c)'
  <2>1. ASSUME NEW n \in 1 .. 6, NEW m \in 0 .. 5, m = n - 1,
               IInv, Within(c, n), [Next]_vars, Run(c)
        PROVE  HasEnded(c)' \/ (n > 1 /\ Within(c, m)')
    BY <2>1, StopAdvances
  <2> QED BY <2>1
<1>3. CanRun(c) /\ Within(c, 6) => ENABLED <<Run(c)>>_vars
  BY DEF CanRun, Within
<1>4. ~running[c] => Within(c, 6) \/ HasEnded(c)
  BY DEF Within, Left, HasEnded
<1>5. HasEnded(c) <=> pc[c] \in Ended
  BY DEF HasEnded
<1>6. Within(c, 5) \/ Within(c, 4) \/ Within(c, 3) \/ Within(c, 2) \/ Within(c, 1) => Within(c, 6)
  BY DEF Within, Left
<1>7. FairSpec /\ []NeverStuck => Scheduled(c) /\ []CanRun(c)
  BY OneProcess
<1> QED BY <1>1, <1>2, <1>3, <1>4, <1>5, <1>6, <1>7, CliInvariant, PTL
        DEF FairSpec, Spec, Scheduled

\* How many statements a --screen-off process has left while the cooler is ready.
ToExit(c) ==
  CASE pc[c] = "trap" -> 6
    [] pc[c] = "api" -> 5
    [] pc[c] \in {"tick", "retry"} -> 4
    [] pc[c] = "poll" -> 3
    [] pc[c] = "send" -> 2
    [] OTHER -> 1

ExitWithin(c, n) == HasEnded(c) \/ ToExit(c) <= n

Ready == cooler = "ready"

\* While the cooler is ready no step takes a --screen-off process back, and each of its
\* own takes it forward: connect() succeeds, and send() breaks out of the loop.
LEMMA ScreenOffAdvances ==
  ASSUME NEW c \in ScreenOff, NEW n \in 1 .. 6, IInv, Ready, Ready', [Next]_vars,
         ~HasEnded(c), ExitWithin(c, n)
  PROVE  /\ ExitWithin(c, n)'
         /\ Run(c) => ExitWithin(c, n - 1)'
<1> DEFINE Goes(from, to) == pc[c] = from /\ pc'[c] = to
<1> USE DEF IInv, TypeOK
<1>0. c \in Clients
  BY CliAssumption
<1>1. CASE SetHandler(c) \/ OpenApi(c)
  <2>1. Goes("trap", "api") \/ Goes("api", "poll") \/ Goes("api", "exited")
    BY <1>0, <1>1 DEF SetHandler, OpenApi, Goto
  <2> QED BY <2>1 DEF ExitWithin, ToExit, HasEnded, Ended
<1>2. CASE Poll(c)
  <2>1. Goes("poll", "send")
    BY <1>0, <1>2 DEF Poll, Goto, ConnectErr, Ready
  <2> QED BY <2>1 DEF ExitWithin, ToExit, HasEnded, Ended
<1>3. CASE Send(c) \/ Wake(c)
  <2>1. Goes("send", "leaving") \/ Goes("tick", "poll") \/ Goes("retry", "poll")
    BY <1>0, <1>3 DEF Send, AfterSend, Wake, Goto
  <2> QED BY <2>1 DEF ExitWithin, ToExit, HasEnded, Ended
<1>4. CASE Leave(c)
  BY <1>0, <1>4 DEF Leave, Goto, ExitWithin, HasEnded, Ended
<1>5. CASE ~Run(c)
  <2>1. pc'[c] \in Ended \/ pc'[c] = pc[c]
    BY <1>0, <1>5, ProcessStays DEF HasEnded
  <2> QED BY <1>5, <2>1 DEF ExitWithin, ToExit, HasEnded
<1> QED BY <1>1, <1>2, <1>3, <1>4, <1>5 DEF Run

\* Once the cooler stays ready a --screen-off process ends.
THEOREM ScreenOffAlwaysEnds == FairSpec /\ []NeverStuck => ScreenOffEnds
<1> SUFFICES ASSUME NEW c \in ScreenOff
             PROVE  FairSpec /\ []NeverStuck =>
                      (<>[](cooler = "ready") => (pc[c] = "poll" ~> pc[c] \in Ended))
  BY DEF ScreenOffEnds
<1>1. IInv /\ Ready /\ Ready' /\ [Next]_vars /\ ~HasEnded(c) =>
        /\ ExitWithin(c, 6) => ExitWithin(c, 6)'
        /\ ExitWithin(c, 5) => ExitWithin(c, 5)'
        /\ ExitWithin(c, 4) => ExitWithin(c, 4)'
        /\ ExitWithin(c, 3) => ExitWithin(c, 3)'
        /\ ExitWithin(c, 2) => ExitWithin(c, 2)'
        /\ ExitWithin(c, 1) => ExitWithin(c, 1)'
  BY ScreenOffAdvances
<1>2. IInv /\ Ready /\ Ready' /\ [Next]_vars /\ <<Run(c)>>_vars /\ ~HasEnded(c) =>
        /\ ExitWithin(c, 6) => ExitWithin(c, 5)'
        /\ ExitWithin(c, 5) => ExitWithin(c, 4)'
        /\ ExitWithin(c, 4) => ExitWithin(c, 3)'
        /\ ExitWithin(c, 3) => ExitWithin(c, 2)'
        /\ ExitWithin(c, 2) => ExitWithin(c, 1)'
        /\ ExitWithin(c, 1) => HasEnded(c)'
  <2>1. ASSUME NEW n \in 1 .. 6, NEW m \in 0 .. 5, m = n - 1, IInv, Ready, Ready',
               ~HasEnded(c), ExitWithin(c, n), [Next]_vars, Run(c)
        PROVE  ExitWithin(c, m)'
    BY <2>1, ScreenOffAdvances
  <2>2. ExitWithin(c, 0)' => HasEnded(c)'
    BY DEF ExitWithin, ToExit
  <2> QED BY <2>1, <2>2
<1>3. CanRun(c) => HasEnded(c) \/ ENABLED <<Run(c)>>_vars
  BY DEF CanRun, HasEnded
<1>4. ExitWithin(c, 6)
  BY DEF ExitWithin, ToExit
<1>5. FairSpec /\ []NeverStuck => Scheduled(c) /\ []CanRun(c)
  BY OneProcess, CliAssumption
<1> QED BY <1>1, <1>2, <1>3, <1>4, <1>5, CliInvariant, PTL
        DEF FairSpec, Spec, Scheduled, Ready, HasEnded

\* The process streams or retries, was not told to stop, and the cooler answers.
Undisturbed(c) == cooler = "ready" /\ running[c] /\ pc[c] \in Loop

\* The statements main() has left to its next report: it finds a handle of before an
\* unplug dead, opens the cooler again, and writes.
ToReport(c) ==
  CASE device[c] = "Stale" /\ pc[c] \in {"tick", "retry"} -> 6
    [] device[c] = "Stale" /\ pc[c] = "poll" -> 5
    [] device[c] # "Live" /\ pc[c] = "send" -> 4
    [] device[c] # "Stale" /\ pc[c] \in {"tick", "retry"} -> 3
    [] device[c] # "Stale" /\ pc[c] = "poll" -> 2
    [] OTHER -> 1

ReportWithin(c, n) == ToReport(c) <= n

\* Undisturbed, no step of any process takes the next report of this one further away,
\* and each of its own brings it nearer or writes it.
LEMMA StreamAdvances ==
  ASSUME NEW c \in Clients \ ScreenOff, NEW n \in 1 .. 6, IInv, Undisturbed(c),
         Undisturbed(c)', ReportWithin(c, n), [Next]_vars
  PROVE  IF Run(c) THEN ReportWithin(c, n - 1)' \/ screen' = "lit" ELSE ReportWithin(c, n)'
<1> DEFINE d == device[c]
           Goes(from, to) == pc[c] = from /\ pc'[c] = to
<1>1. d \in {"None", "Live", "Stale"} /\ DeviceTypeOK
  BY DEF IInv, TypeOK, DeviceTypeOK
<1>2. CASE Poll(c)
  <2>1. Goes("poll", "send") /\ ConnectOk(c)
    BY <1>2 DEF Poll, Goto, ConnectErr, Undisturbed, IInv, TypeOK
  <2>2. d' = IF d = "None" THEN "Live" ELSE d
    BY <1>1, <2>1 DEF ConnectOk, DeviceTypeOK
  <2> HIDE DEF d
  <2>3. ToReport(c)' = IF d = "Stale" THEN 4 ELSE 1
    BY <1>1, <2>1, <2>2 DEF ToReport, d
  <2>4. ToReport(c) = IF d = "Stale" THEN 5 ELSE 2
    BY <1>1, <2>1 DEF ToReport, d
  <2> QED BY <1>2, <2>3, <2>4 DEF ReportWithin, Run
<1>3. CASE Send(c)
  <2>1. Goes("send", "tick") /\ (SendOk(c, TRUE) \/ SendErr(c, TRUE))
    BY <1>3 DEF Send, AfterSend, Goto, IInv, TypeOK
  <2>2. CASE SendOk(c, TRUE)
    BY <1>3, <2>2 DEF SendOk, Shown, Run
  <2>3. CASE SendErr(c, TRUE)
    <3>1. d # "Live" /\ d' = "None"
      BY <1>1, <2>3, DeviceSteps DEF SendErr, Writable, Undisturbed
    <3> HIDE DEF d
    <3>2. ToReport(c) = 4 /\ ToReport(c)' = 3
      BY <2>1, <3>1 DEF ToReport, d
    <3> QED BY <1>3, <3>2 DEF ReportWithin, Run
  <2> QED BY <2>1, <2>2, <2>3
<1>4. CASE Wake(c)
  <2>1. pc[c] \in {"tick", "retry"} /\ pc'[c] = "poll" /\ d' = d
    BY <1>4 DEF Wake, Goto, deviceVars, IInv, TypeOK
  <2> HIDE DEF d
  <2>2. ToReport(c) = (IF d = "Stale" THEN 6 ELSE 3) /\ ToReport(c)' = (IF d = "Stale" THEN 5 ELSE 2)
    BY <1>1, <2>1 DEF ToReport, d
  <2> QED BY <1>4, <2>2 DEF ReportWithin, Run
<1>5. CASE SetHandler(c) \/ OpenApi(c) \/ Leave(c)
  BY <1>5 DEF SetHandler, OpenApi, Leave, Goto, Undisturbed, Loop, IInv, TypeOK, Ended
<1>6. CASE ~Run(c)
  <2>1. pc[c] \notin Ended /\ pc'[c] \notin Ended
    BY DEF Undisturbed, Loop, Ended
  <2>2. pc'[c] = pc[c] /\ d' = d
    BY <1>6, <2>1, ProcessStays DEF Undisturbed
  <2> QED BY <1>6, <2>2 DEF ReportWithin, ToReport
<1> QED BY <1>2, <1>3, <1>4, <1>5, <1>6 DEF Run

\* Left undisturbed a streaming process lights the display again and again, whatever
\* was unplugged before and whoever else blanks it.
THEOREM StreamAlwaysRecovers == FairSpec /\ []NeverStuck => StreamRecovers
<1> SUFFICES ASSUME NEW c \in Clients \ ScreenOff
             PROVE  FairSpec /\ []NeverStuck =>
                      (<>[](cooler = "ready" /\ running[c] /\ pc[c] \in Loop) => []<>(screen = "lit"))
  BY DEF StreamRecovers
<1>1. IInv /\ Undisturbed(c) /\ Undisturbed(c)' /\ [Next]_vars =>
        /\ ReportWithin(c, 6) => ReportWithin(c, 6)' \/ (screen = "lit")'
        /\ ReportWithin(c, 5) => ReportWithin(c, 5)' \/ (screen = "lit")'
        /\ ReportWithin(c, 4) => ReportWithin(c, 4)' \/ (screen = "lit")'
        /\ ReportWithin(c, 3) => ReportWithin(c, 3)' \/ (screen = "lit")'
        /\ ReportWithin(c, 2) => ReportWithin(c, 2)' \/ (screen = "lit")'
        /\ ReportWithin(c, 1) => ReportWithin(c, 1)' \/ (screen = "lit")'
  <2>1. ASSUME NEW n \in 1 .. 6, IInv, Undisturbed(c), Undisturbed(c)', ReportWithin(c, n),
               [Next]_vars
        PROVE  ReportWithin(c, n)' \/ screen' = "lit"
    <3>1. ReportWithin(c, n - 1)' => ReportWithin(c, n)'
      BY DEF ReportWithin, ToReport
    <3> QED BY <2>1, <3>1, StreamAdvances
  <2> QED BY <2>1
<1>2. IInv /\ Undisturbed(c) /\ Undisturbed(c)' /\ [Next]_vars /\ <<Run(c)>>_vars =>
        /\ ReportWithin(c, 6) => ReportWithin(c, 5)' \/ (screen = "lit")'
        /\ ReportWithin(c, 5) => ReportWithin(c, 4)' \/ (screen = "lit")'
        /\ ReportWithin(c, 4) => ReportWithin(c, 3)' \/ (screen = "lit")'
        /\ ReportWithin(c, 3) => ReportWithin(c, 2)' \/ (screen = "lit")'
        /\ ReportWithin(c, 2) => ReportWithin(c, 1)' \/ (screen = "lit")'
        /\ ReportWithin(c, 1) => (screen = "lit")'
  <2>1. ASSUME NEW n \in 1 .. 6, NEW m \in 0 .. 5, m = n - 1, IInv, Undisturbed(c),
               Undisturbed(c)', ReportWithin(c, n), [Next]_vars, Run(c)
        PROVE  ReportWithin(c, m)' \/ screen' = "lit"
    BY <2>1, StreamAdvances
  <2>2. ~ReportWithin(c, 0)'
    BY DEF ReportWithin, ToReport
  <2> QED BY <2>1, <2>2
<1>3. Undisturbed(c) => ReportWithin(c, 6)
  BY DEF ReportWithin, ToReport
<1>4. CanRun(c) /\ Undisturbed(c) => ENABLED <<Run(c)>>_vars
  BY DEF CanRun, Undisturbed, Loop, Ended
<1>5. FairSpec /\ []NeverStuck => Scheduled(c) /\ []CanRun(c)
  BY OneProcess
<1> QED BY <1>1, <1>2, <1>3, <1>4, <1>5, CliInvariant, PTL
        DEF FairSpec, Spec, Scheduled, Undisturbed
=============================================================================
