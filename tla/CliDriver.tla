------------------------------ MODULE CliDriver ------------------------------
(***************************************************************************)
(* The command-line driver of src/main.rs: any number of processes on      *)
(* one cooler, each running the polling loop of main() with its signal     *)
(* handler thread, the signals sent to them and the starts that follow     *)
(* (systemd's Restart=always, or a user).  Each variable holds one value   *)
(* per process; one atomic step per call another actor can observe.        *)
(***************************************************************************)
EXTENDS SegotepDevice, Naturals

CONSTANTS
  ScreenOff,    \* the processes run with --screen-off
  Signals       \* the signals sent: a subset of {"SIGINT", "SIGTERM"}

ASSUME CliAssumption ==
  /\ ScreenOff \subseteq Clients
  /\ Signals \subseteq {"SIGINT", "SIGTERM"}

VARIABLES
  pc,             \* the next statement of main()
  running,        \* the flag shared with the ctrlc handler
  trapped,        \* ctrlc::set_handler succeeded
  is_connected,   \* the local of that name
  late            \* history: reports written since the flag was cleared

cliVars == <<pc, running, trapped, is_connected, late>>
vars == <<deviceVars, cliVars>>

Loop == {"poll", "send", "tick", "retry"}
Ended == {"exited", "killed"}
Locations == {"trap", "api", "leaving"} \cup Loop \cup Ended

Init ==
  /\ DeviceInit
  /\ pc = [c \in Clients |-> "trap"]
  /\ running = [c \in Clients |-> TRUE]
  /\ trapped = [c \in Clients |-> FALSE]
  /\ is_connected = [c \in Clients |-> FALSE]
  /\ late = [c \in Clients |-> 0]

Goto(c, from, to) ==
  /\ pc[c] = from
  /\ pc' = [pc EXCEPT ![c] = to]

-----------------------------------------------------------------------------
(* main() *)

\* A handler that cannot be installed is only warned about.
SetHandler(c) ==
  /\ Goto(c, "trap", "api")
  /\ \E installed \in BOOLEAN : trapped' = [trapped EXCEPT ![c] = installed]
  /\ UNCHANGED <<deviceVars, running, is_connected, late>>

\* SegotepDevice::with_custom_ids: without a HID API main() returns.
OpenApi(c) ==
  /\ Goto(c, "api", "poll") \/ Goto(c, "api", "exited")
  /\ UNCHANGED <<deviceVars, running, trapped, is_connected, late>>

\* The top of the loop: the flag, connect(), and the local that follows it.
Poll_IgnoresFlag(c) ==
  /\ \/ /\ Goto(c, "poll", "send")
        /\ ConnectOk(c)
        /\ is_connected' = [is_connected EXCEPT ![c] = TRUE]
     \/ /\ Goto(c, "poll", "retry")
        /\ ConnectErr(c)
        /\ is_connected' = [is_connected EXCEPT ![c] = FALSE]
  /\ UNCHANGED <<running, trapped, late>>
Poll(c) ==
  /\ running[c]
  /\ \/ /\ Goto(c, "poll", "send")
        /\ ConnectOk(c)
        /\ is_connected' = [is_connected EXCEPT ![c] = TRUE]
     \/ /\ Goto(c, "poll", "retry")
        /\ ConnectErr(c)
        /\ is_connected' = [is_connected EXCEPT ![c] = FALSE]
  /\ UNCHANGED <<running, trapped, late>>

\* Where send() leads: --screen-off breaks out of the loop, sent or not.
AfterSend_Streams(c) == "tick"
AfterSend(c) == IF c \in ScreenOff THEN "leaving" ELSE "tick"

\* telemetry.sample(), the packet and send().
Send_Forgets(c) ==
  /\ Goto(c, "send", AfterSend(c))
  /\ \/ SendOk(c, c \notin ScreenOff)
     \/ SendErr(c, c \notin ScreenOff)
  /\ UNCHANGED <<running, trapped, is_connected, late>>
Send_AlwaysOn(c) ==
  /\ Goto(c, "send", AfterSend(c))
  /\ SendOk(c, TRUE) \/ SendErr(c, TRUE)
  /\ UNCHANGED <<running, trapped, is_connected, late>>
Send(c) ==
  /\ Goto(c, "send", AfterSend(c))
  /\ \/ /\ SendOk(c, c \notin ScreenOff)
        /\ late' = [late EXCEPT ![c] = IF running[c] THEN @ ELSE @ + 1]
        /\ UNCHANGED is_connected
     \/ /\ SendErr(c, c \notin ScreenOff)
        /\ is_connected' = [is_connected EXCEPT ![c] = FALSE]
        /\ UNCHANGED late
  /\ UNCHANGED <<running, trapped>>

\* The end of sleep(tick_interval) or of the two seconds after a failed connect.
Wake(c) ==
  /\ Goto(c, "tick", "poll") \/ Goto(c, "retry", "poll")
  /\ UNCHANGED <<deviceVars, running, trapped, is_connected, late>>

\* main() returns, after the loop condition failed or by the break, and drops
\* the device: its last report stays on the display.
Leave(c) ==
  /\ Goto(c, "leaving", "exited") \/ (~running[c] /\ Goto(c, "poll", "exited"))
  /\ Drop(c)
  /\ UNCHANGED <<running, trapped, is_connected, late>>

Run(c) ==
  \/ SetHandler(c) \/ OpenApi(c) \/ Poll(c) \/ Send(c) \/ Wake(c) \/ Leave(c)

-----------------------------------------------------------------------------
(* Signals and starts *)

\* The process dies where it is; the kernel closes its handle.
Die(c) ==
  /\ pc[c] \notin Ended
  /\ pc' = [pc EXCEPT ![c] = "killed"]
  /\ Drop(c)
  /\ UNCHANGED <<running, trapped, is_connected, late>>

\* Ctrl+C: the ctrlc handler clears the flag; without a handler it kills.
Interrupt(c) ==
  /\ "SIGINT" \in Signals
  /\ \/ /\ trapped[c]
        /\ pc[c] \notin Ended
        /\ running[c]
        /\ running' = [running EXCEPT ![c] = FALSE]
        /\ UNCHANGED <<deviceVars, pc, trapped, is_connected, late>>
     \/ ~trapped[c] /\ Die(c)

\* `systemctl stop' or kill: ctrlc is built without its "termination" feature
\* and leaves SIGTERM at its default action.
Terminate(c) == "SIGTERM" \in Signals /\ Die(c)

\* A new process in the place of one that ended.
Start(c) ==
  /\ pc[c] \in Ended
  /\ pc' = [pc EXCEPT ![c] = "trap"]
  /\ running' = [running EXCEPT ![c] = TRUE]
  /\ trapped' = [trapped EXCEPT ![c] = FALSE]
  /\ is_connected' = [is_connected EXCEPT ![c] = FALSE]
  /\ late' = [late EXCEPT ![c] = 0]
  /\ UNCHANGED deviceVars

Next ==
  \/ \E c \in Clients : Run(c) \/ Interrupt(c) \/ Terminate(c) \/ Start(c)
  \/ Bus /\ UNCHANGED cliVars

Spec == Init /\ [][Next]_vars

\* Every process is scheduled and its sleeps end.  Nothing is assumed of the
\* cooler, of signals or of restarts.
Scheduled(c) == WF_vars(Run(c))
Fairness == \A c \in Clients : Scheduled(c)

FairSpec == Spec /\ Fairness

-----------------------------------------------------------------------------
(* Properties *)

\* Every variable keeps to its declared values.
TypeOK ==
  /\ DeviceTypeOK
  /\ pc \in [Clients -> Locations]
  /\ running \in [Clients -> BOOLEAN]
  /\ trapped \in [Clients -> BOOLEAN]
  /\ is_connected \in [Clients -> BOOLEAN]
  /\ late \in [Clients -> Nat]

\* main()'s is_connected is a second copy of what send() and connect() record
\* in the device: the two never disagree while the loop runs, so "Device
\* connected" is logged once per handle opened.
ConnectedFlag ==
  \A c \in Clients : pc[c] \in Loop => (is_connected[c] <=> device[c] # "None")

\* Whatever the moment of Ctrl+C, at most one more report of that process
\* reaches the display.
AtMostOneLateReport == \A c \in Clients : late[c] <= 1

\* A process told to stop ends, with or without a cooler.
InterruptEnds == \A c \in Clients : ~running[c] ~> pc[c] \in Ended

\* --screen-off: once the cooler stays ready a process waiting for it ends.
ScreenOffEnds ==
  \A c \in ScreenOff :
    <>[](cooler = "ready") => (pc[c] = "poll" ~> pc[c] \in Ended)

\* A streaming process that is left alone keeps returning telemetry to a cooler
\* that is eventually ready, whatever unplugs came before and whatever other
\* process blanks the display (docs/deployment.md:76).
StreamRecovers ==
  \A c \in Clients \ ScreenOff :
    <>[](cooler = "ready" /\ running[c] /\ pc[c] \in Loop) => []<>(screen = "lit")

\* docs/architecture.md:103 and :178: a caught signal (Ctrl+C, systemd's SIGTERM)
\* writes the Screen-OFF report before the handle is closed, so a process whose
\* handler is installed and whose cooler works does not leave its loop with the digits lit.
SignalBlanks ==
  [][\A c \in Clients :
       /\ trapped[c] /\ pc[c] \in Loop /\ Writable(c)
       /\ pc'[c] \in Ended
       => screen # "lit"]_vars

\* The phase of docs/architecture.md, section 5, a process is in.
Phase(c) ==
  CASE pc[c] \in Ended                                                 -> "Exited"
    [] pc[c] \in Loop /\ device[c] # "None" /\ c \notin ScreenOff      -> "Streaming"
    [] pc[c] \in Loop /\ device[c] # "None" /\ c \in ScreenOff         -> "TurningOff"
    [] OTHER                                                           -> "Disconnected"

Lifecycle ==
  INSTANCE ScreenLifecycle
    WITH OneShot <- ScreenOff, TurnsOff <- FALSE,
         phase <- [c \in Clients |-> Phase(c)],
         link <- [c \in Clients |-> Writable(c)]

\* The driver implements the lifecycle, but for the stop, which leaves the
\* Streaming phase without turning the screen off: phases change only as drawn,
\* a connection is given up only when its link is broken, and the display shows
\* only what some process in the right phase wrote.
ImplementsLifecycle == Lifecycle!Spec
=============================================================================
