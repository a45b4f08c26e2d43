---------------------------- MODULE DeviceProofs ----------------------------
(***************************************************************************)
(* What the accesses of SegotepDevice preserve: the facts the proofs about *)
(* the drivers share.                                                      *)
(***************************************************************************)
EXTENDS SegotepDevice, TLAPS

\* What each access to the cooler leaves to rely on: the types, and the handle
\* of the process that made it.
LEMMA DeviceSteps ==
  ASSUME DeviceTypeOK, NEW c \in Clients, NEW on \in BOOLEAN
  PROVE  /\ ConnectOk(c) => DeviceTypeOK'
         /\ ConnectErr(c) => DeviceTypeOK'
         /\ SendOk(c, on) => DeviceTypeOK' /\ screen' = Shown(on)
         /\ SendErr(c, on) => DeviceTypeOK' /\ device'[c] = "None"
         /\ Drop(c) => DeviceTypeOK' /\ device'[c] = "None"
<1>1. ConnectOk(c) => DeviceTypeOK'
  BY DEF ConnectOk, DeviceTypeOK
<1>2. ConnectErr(c) => DeviceTypeOK'
  BY DEF ConnectErr, DeviceTypeOK, deviceVars
<1>3. SendOk(c, on) => DeviceTypeOK' /\ screen' = Shown(on)
  BY DEF SendOk, DeviceTypeOK, Shown
<1>4. SendErr(c, on) => DeviceTypeOK' /\ device'[c] = "None"
  BY DEF SendErr, HandlesAfterError, DeviceTypeOK, Shown
<1>5. Drop(c) => DeviceTypeOK' /\ device'[c] = "None"
  BY DEF Drop, DeviceTypeOK
<1> QED BY <1>1, <1>2, <1>3, <1>4, <1>5

\* What the cooler does to the handles: an unplug spoils them all at once, and
\* nothing but the process itself makes one or closes one.
LEMMA BusSteps ==
  ASSUME DeviceTypeOK, Bus
  PROVE  /\ DeviceTypeOK'
         /\ \A c \in Clients : /\ device'[c] = "None" <=> device[c] = "None"
                               /\ device'[c] = "Live" => device[c] = "Live"
         /\ screen' = "lit" => screen = "lit"
<1>1. CASE Unplug
  BY <1>1 DEF Unplug, DeviceTypeOK
<1>2. CASE Plug
  BY <1>2 DEF Plug, DeviceTypeOK
<1>3. CASE Falter \/ Settle
  BY <1>3 DEF Falter, Settle, DeviceTypeOK
<1> QED BY <1>1, <1>2, <1>3 DEF Bus

\* An access by one process leaves the handles of the others alone.
LEMMA DeviceFrame ==
  ASSUME DeviceTypeOK, NEW c \in Clients, NEW d \in Clients, d # c, NEW on \in BOOLEAN,
         ConnectOk(c) \/ ConnectErr(c) \/ SendOk(c, on) \/ SendErr(c, on) \/ Drop(c)
  PROVE  device'[d] = device[d]
BY DEF ConnectOk, ConnectErr, SendOk, SendErr, HandlesAfterError, Drop, DeviceTypeOK, deviceVars

\* connect() leaves a handle exactly when it succeeds.
LEMMA ConnectResult ==
  ASSUME DeviceTypeOK, NEW c \in Clients
  PROVE  /\ ConnectOk(c) => device'[c] # "None"
         /\ ConnectErr(c) => device'[c] = "None"
BY DEF ConnectOk, ConnectErr, DeviceTypeOK, deviceVars
=============================================================================
