---------------------------- MODULE SegotepPacket ----------------------------
(***************************************************************************)
(* The 34-byte report: the packets the drivers build from their arguments  *)
(* and a telemetry sample (main() and service_main) and the serialisation  *)
(* of src/protocol.rs, against the layout its comment documents and        *)
(* against the display, which reads the fields back.  A u8 is 0..255, a    *)
(* u16 is 0..65535, written little-endian.                                 *)
(***************************************************************************)
EXTENDS Naturals, Sequences

Byte == 0 .. 255
Word == 0 .. 65535

Metrics ==
  [cpu_temp : Byte, cpu_load : Byte, cpu_power_watts : Word, cpu_clock_mhz : Word,
   gpu_temp : Byte, gpu_load : Byte, gpu_power_watts : Word, gpu_clock_mhz : Word]

Args == [model_id : Byte, screen_off : BOOLEAN, fahrenheit : BOOLEAN, service : BOOLEAN]

CONSTANTS
  Arguments,    \* the command lines considered
  Samples       \* the telemetry samples considered

ASSUME PacketAssumption == Arguments \subseteq Args /\ Samples \subseteq Metrics

VARIABLES
  args,         \* the arguments of the process
  metrics,      \* its last telemetry sample, in degrees Celsius
  packet,       \* the last packet built
  report        \* its serialisation, as passed to the HID write

vars == <<args, metrics, packet, report>>

-----------------------------------------------------------------------------
(* Packets *)

Packets == [screen_on : BOOLEAN, model_id : Byte, is_fahrenheit : BOOLEAN, metrics : Metrics]

MAGIC_HEADER == <<220, 221>>
SCREEN_STATE_ON == 0
SCREEN_STATE_OFF == 14
FLASH_VALUE1_OFF == 15

NoMetrics ==
  [cpu_temp |-> 0, cpu_load |-> 0, cpu_power_watts |-> 0, cpu_clock_mhz |-> 0,
   gpu_temp |-> 0, gpu_load |-> 0, gpu_power_watts |-> 0, gpu_clock_mhz |-> 0]

\* The packet of one iteration of the loop; service_main knows no --screen-off.
TickPacket_On(a, m) ==
  [screen_on |-> TRUE, model_id |-> a.model_id, is_fahrenheit |-> a.fahrenheit, metrics |-> m]
TickPacket(a, m) ==
  [screen_on |-> a.service \/ ~a.screen_off, model_id |-> a.model_id,
   is_fahrenheit |-> a.fahrenheit, metrics |-> m]

\* The packet of service_main's teardown.
OffPacket(a) ==
  [screen_on |-> FALSE, model_id |-> a.model_id, is_fahrenheit |-> a.fahrenheit,
   metrics |-> NoMetrics]

-----------------------------------------------------------------------------
(* serialize() *)

\* to_le_bytes() of a u16.
Low_Whole(w) == w
Low(w) == w % 256
High_Dropped(w) == 0
High(w) == w \div 256

\* All but the screen's state.
Metered(p) ==
  LET m == p.metrics IN
  [i \in 0 .. 33 |->
     CASE i = 1  -> MAGIC_HEADER[1]          [] i = 2  -> MAGIC_HEADER[2]
       [] i = 4  -> p.model_id
       [] i = 13 -> 1                        [] i = 17 -> 12
       [] i = 21 -> m.cpu_temp               [] i = 22 -> m.cpu_load
       [] i = 23 -> Low(m.cpu_power_watts)   [] i = 24 -> High(m.cpu_power_watts)
       [] i = 25 -> Low(m.cpu_clock_mhz)     [] i = 26 -> High(m.cpu_clock_mhz)
       [] i = 27 -> m.gpu_temp               [] i = 28 -> m.gpu_load
       [] i = 29 -> Low(m.gpu_power_watts)   [] i = 30 -> High(m.gpu_power_watts)
       [] i = 31 -> Low(m.gpu_clock_mhz)     [] i = 32 -> High(m.gpu_clock_mhz)
       [] i = 33 -> IF p.is_fahrenheit THEN 1 ELSE 0
       [] OTHER  -> 0]

\* An off screen overrides the state byte and the model id, whatever came before.
Serialize_KeepsModel(p) ==
  IF p.screen_on THEN Metered(p) ELSE [Metered(p) EXCEPT ![3] = SCREEN_STATE_OFF]
Serialize(p) ==
  IF p.screen_on
    THEN Metered(p)
    ELSE [Metered(p) EXCEPT ![3] = SCREEN_STATE_OFF, ![4] = FLASH_VALUE1_OFF]

-----------------------------------------------------------------------------
(* A driver process, as far as its reports go: it builds and writes packets *)
(* until one turns the screen off.                                         *)

Write(p) ==
  /\ packet' = p
  /\ report' = Serialize(p)

\* The state after the first iteration; a service stopped before it found a
\* cooler builds its off packet first.
Init ==
  /\ args \in Arguments
  /\ metrics \in Samples
  /\ packet = TickPacket(args, metrics) \/ (args.service /\ packet = OffPacket(args))
  /\ report = Serialize(packet)

Tick ==
  /\ packet.screen_on
  /\ metrics' \in Samples
  /\ Write(TickPacket(args, metrics'))
  /\ UNCHANGED args

Teardown ==
  /\ args.service
  /\ packet.screen_on
  /\ Write(OffPacket(args))
  /\ UNCHANGED <<args, metrics>>

Next == Tick \/ Teardown

Spec == Init /\ [][Next]_vars

-----------------------------------------------------------------------------
(* Properties *)

\* Packets and reports are within their types: no byte exceeds 255.
TypeOK ==
  /\ args \in Args
  /\ metrics \in Metrics
  /\ packet \in Packets
  /\ report \in [0 .. 33 -> Byte]

\* The little-endian word at offset i of a report.
WordAt(r, i) == r[i] + 256 * r[i + 1]

\* What a reader of the documented layout finds in a report.
ReadBack(r) ==
  [screen_on |-> r[3] = SCREEN_STATE_ON,
   model_id |-> r[4],
   is_fahrenheit |-> r[33] = 1,
   metrics |->
     [cpu_temp |-> r[21], cpu_load |-> r[22],
      cpu_power_watts |-> WordAt(r, 23), cpu_clock_mhz |-> WordAt(r, 25),
      gpu_temp |-> r[27], gpu_load |-> r[28],
      gpu_power_watts |-> WordAt(r, 29), gpu_clock_mhz |-> WordAt(r, 31)]]

\* The display reads back every field of the packet, for every u8 and u16, on or
\* off; only the model id is lost, and only while the screen is off.
DisplayReadsPacket ==
  ReadBack(report) =
    [packet EXCEPT !.model_id = IF packet.screen_on THEN @ ELSE FLASH_VALUE1_OFF]

\* The layout of the comment on serialize(), src/protocol.rs:64, in order: 34 bytes,
\* with everything it does not name zero.
Layout(p) ==
  LET m == p.metrics IN
  << 0, 220, 221,
     IF p.screen_on THEN 0 ELSE 14, IF p.screen_on THEN p.model_id ELSE 15,
     0, 0, 0, 0, 0, 0, 0, 0, 1, 0, 0, 0, 12, 0, 0, 0,
     m.cpu_temp, m.cpu_load,
     Low(m.cpu_power_watts), High(m.cpu_power_watts), Low(m.cpu_clock_mhz), High(m.cpu_clock_mhz),
     m.gpu_temp, m.gpu_load,
     Low(m.gpu_power_watts), High(m.gpu_power_watts), Low(m.gpu_clock_mhz), High(m.gpu_clock_mhz),
     IF p.is_fahrenheit THEN 1 ELSE 0 >>

\* serialize() writes exactly the documented layout.
MatchesLayout ==
  /\ Len(Layout(packet)) = 34
  /\ \A i \in 0 .. 33 : report[i] = Layout(packet)[i + 1]

\* The temperatures, the only fields that have a unit.
Temperatures == {"cpu_temp", "gpu_temp"}

\* What a lit display shows is the last sample, field by field, under the model
\* id and the unit of the command line; a CLI process run with --screen-off never
\* lights it, and a service does, with the same argument, until it is torn down.
\* Under the Fahrenheit flag the temperatures are left out: src/protocol.rs:23 says they
\* are then in Fahrenheit, and the code sends what was sampled, in Celsius.
DisplayShowsSample ==
  LET seen == ReadBack(report)
      Unitless == DOMAIN metrics \ Temperatures
  IN
  IF seen.screen_on
    THEN /\ args.service \/ ~args.screen_off
         /\ \A f \in IF seen.is_fahrenheit THEN Unitless ELSE DOMAIN metrics :
              seen.metrics[f] = metrics[f]
         /\ seen.model_id = args.model_id
         /\ seen.is_fahrenheit = args.fahrenheit
    ELSE args.service \/ args.screen_off
===============================================================================
