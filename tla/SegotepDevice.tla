---------------------------- MODULE SegotepDevice ----------------------------
(***************************************************************************)
(* The cooler on the USB bus and the HID handles that client processes     *)
(* hold on it: struct SegotepDevice of src/device.rs, one handle per       *)
(* process in Clients.  `device' is the field of that name, an             *)
(* Option<HidDevice>; a handle opened before an unplug stays Some(_) but   *)
(* is "Stale": every write through it fails, also after a replug.          *)
(*                                                                         *)
(* `cooler' and `screen' are the hardware.  A "faulty" cooler is on the    *)
(* bus but refuses opens and writes (asleep, udev rule not applied yet,    *)
(* bus error); any call that fails in the real system is a call made while *)
(* the cooler is not "ready".                                              *)
(***************************************************************************)

CONSTANT Clients      \* the processes that may open the cooler

VARIABLES
  cooler,   \* "absent" (unplugged), "faulty" or "ready"
  screen,   \* "dark" (nothing shown since power-up), "lit" or "blank"
  device    \* device[c]: "None", "Live" or "Stale"

deviceVars == <<cooler, screen, device>>

DeviceTypeOK ==
  /\ cooler \in {"absent", "faulty", "ready"}
  /\ screen \in {"dark", "lit", "blank"}
  /\ device \in [Clients -> {"None", "Live", "Stale"}]

DeviceInit ==
  /\ cooler \in {"absent", "faulty", "ready"}
  /\ screen = "dark"
  /\ device = [c \in Clients |-> "None"]

-----------------------------------------------------------------------------
\* What the display controller does with a report: State byte 0x00 refreshes
\* the digits, 0x0E blanks them.
Shown(screen_on) == IF screen_on THEN "lit" ELSE "blank"

\* connect() returns Ok: at once when a handle is held, whether or not the
\* cooler behind it is still there, otherwise by opening the cooler.
ConnectOk(c) ==
  /\ \/ /\ device[c] # "None"
        /\ UNCHANGED device
     \/ /\ device[c] = "None"
        /\ cooler = "ready"
        /\ device' = [device EXCEPT ![c] = "Live"]
  /\ UNCHANGED <<cooler, screen>>

\* connect() returns Err: nothing was held and the open failed.
ConnectErr(c) ==
  /\ device[c] = "None"
  /\ cooler # "ready"
  /\ UNCHANGED deviceVars

Writable(c) == device[c] = "Live" /\ cooler = "ready"

\* send() returns Ok: the report was written.
SendOk(c, screen_on) ==
  /\ Writable(c)
  /\ screen' = Shown(screen_on)
  /\ UNCHANGED <<cooler, device>>

\* After a failed write send() forgets the handle, so that the next connect()
\* opens a new one.
HandlesAfterError_Kept(c) == device
HandlesAfterError_Stray(c) == [device EXCEPT ![c] = "Closed"]
HandlesAfterError(c) == [device EXCEPT ![c] = "None"]

\* send() returns Err: no handle, or the write failed.  A write to a faulty
\* cooler may have reached the display before the error was reported.
SendErr(c, screen_on) ==
  /\ ~Writable(c)
  /\ device' = HandlesAfterError(c)
  /\ \/ UNCHANGED screen
     \/ device[c] = "Live" /\ screen' = Shown(screen_on)
  /\ UNCHANGED cooler

\* Dropping the SegotepDevice closes its handle.
Drop(c) ==
  /\ device' = [device EXCEPT ![c] = "None"]
  /\ UNCHANGED <<cooler, screen>>

-----------------------------------------------------------------------------
(* The environment.  Whether the digits survive the loss of USB depends on *)
(* how the pump block is powered, so an unplug and a replug may or may not *)
(* darken them.                                                            *)

Unplug ==
  /\ cooler # "absent"
  /\ cooler' = "absent"
  /\ screen' \in {screen, "dark"}
  /\ device' = [c \in Clients |-> IF device[c] = "None" THEN "None" ELSE "Stale"]

Plug ==
  /\ cooler = "absent"
  /\ cooler' \in {"faulty", "ready"}
  /\ screen' \in {screen, "dark"}
  /\ UNCHANGED device

Falter ==
  /\ cooler = "ready"
  /\ cooler' = "faulty"
  /\ UNCHANGED <<screen, device>>

Settle ==
  /\ cooler = "faulty"
  /\ cooler' = "ready"
  /\ UNCHANGED <<screen, device>>

Bus == Unplug \/ Plug \/ Falter \/ Settle
=============================================================================
