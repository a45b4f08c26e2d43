--------------------------- MODULE ScreenLifecycle ---------------------------
(***************************************************************************)
(* The abstract promise of a driver process: the screen state machine of   *)
(* docs/architecture.md, section 5, for every process in Clients and the   *)
(* one screen they share.  Probing and Initializing are part of the step   *)
(* Open.  TurnsOff says whether a stop must pass through TurningOff, as    *)
(* the document draws it, or may leave a streaming process directly.       *)
(***************************************************************************)

CONSTANTS
  Clients,    \* driver processes
  OneShot,    \* those of them started only to turn the screen off
  TurnsOff    \* TRUE: no process leaves the Streaming phase by exiting

VARIABLES
  phase,      \* phase[c]: "Disconnected", "Streaming", "TurningOff" or "Exited"
  link,       \* link[c]: a report written by c now would reach the display
  screen      \* what the display shows

lifecycleVars == <<phase, link, screen>>

Move(c, from, to) ==
  /\ phase[c] = from
  /\ phase' = [phase EXCEPT ![c] = to]

Init ==
  /\ phase = [c \in Clients |-> "Disconnected"]
  /\ link = [c \in Clients |-> FALSE]
  /\ screen = "dark"

\* The cooler was found and opened.
Open(c) ==
  /\ Move(c, "Disconnected", IF c \in OneShot THEN "TurningOff" ELSE "Streaming")
  /\ link' = [link EXCEPT ![c] = TRUE]
  /\ UNCHANGED screen

\* A telemetry report refreshed the digits.
Refresh(c) ==
  /\ phase[c] = "Streaming"
  /\ link[c]
  /\ screen' = "lit"
  /\ UNCHANGED <<phase, link>>

\* A write failed, which needs a broken link.  It may have reached the display
\* all the same.
Lose(c) ==
  /\ ~link[c]
  /\ \/ Move(c, "Streaming", "Disconnected") /\ screen' \in {screen, "lit"}
     \/ Move(c, "TurningOff", "Disconnected") /\ screen' \in {screen, "blank"}
  /\ UNCHANGED link

\* A stop was noticed while streaming.
Stop(c) ==
  /\ Move(c, "Streaming", "TurningOff")
  /\ UNCHANGED <<link, screen>>

\* The Screen-OFF report was written.
Blank(c) ==
  /\ link[c]
  /\ Move(c, "TurningOff", "Disconnected")
  /\ screen' = "blank"
  /\ UNCHANGED link

Exit(c) ==
  /\ phase[c] = "Disconnected" \/ (~TurnsOff /\ phase[c] # "Exited")
  /\ phase' = [phase EXCEPT ![c] = "Exited"]
  /\ link' \in {link, [link EXCEPT ![c] = FALSE]}
  /\ UNCHANGED screen

Start(c) == Move(c, "Exited", "Disconnected") /\ UNCHANGED <<link, screen>>

\* The cooler is unplugged, plugged, stops or resumes answering, or loses power.
Disturb ==
  /\ link' \in [Clients -> BOOLEAN]
  /\ screen' \in {screen, "dark"}
  /\ UNCHANGED phase

Next ==
  \/ \E c \in Clients :
       Open(c) \/ Refresh(c) \/ Lose(c) \/ Stop(c) \/ Blank(c) \/ Exit(c) \/ Start(c)
  \/ Disturb

Spec == Init /\ [][Next]_lifecycleVars
=============================================================================
