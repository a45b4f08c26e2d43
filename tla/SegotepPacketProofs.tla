------------------------- MODULE SegotepPacketProofs -------------------------
(***************************************************************************)
(* The report round trip, proved for every command line, every sample and  *)
(* so for every u8 and u16, of which the runs try the boundaries.          *)
(***************************************************************************)
EXTENDS SegotepPacket, TLAPS

\* to_le_bytes(): the two halves of a word are bytes and make it up again.
LEMMA LittleEndian ==
  ASSUME NEW w \in Word
  PROVE  Low(w) \in Byte /\ High(w) \in Byte /\ Low(w) + 256 * High(w) = w
<1>1. w \in Nat /\ w <= 65535
  BY SMTT(60) DEF Word
<1>2. w % 256 \in 0 .. 255 /\ w \div 256 \in Nat /\ (w % 256) + 256 * (w \div 256) = w
  BY <1>1, SMTT(60)
<1>3. w \div 256 <= 255
  BY <1>1, <1>2, SMTT(60)
<1> QED BY SMTT(60), <1>2, <1>3 DEF Byte, Low, High

\* The bytes of a serialised packet, offset by offset, where a field is read.
LEMMA SerializeAt ==
  ASSUME NEW p \in Packets
  PROVE  LET r == Serialize(p)  m == p.metrics IN
         /\ r[3] = IF p.screen_on THEN 0 ELSE 14
         /\ r[4] = IF p.screen_on THEN p.model_id ELSE 15
         /\ r[21] = m.cpu_temp /\ r[22] = m.cpu_load
         /\ r[23] = Low(m.cpu_power_watts) /\ r[24] = High(m.cpu_power_watts)
         /\ r[25] = Low(m.cpu_clock_mhz) /\ r[26] = High(m.cpu_clock_mhz)
         /\ r[27] = m.gpu_temp /\ r[28] = m.gpu_load
         /\ r[29] = Low(m.gpu_power_watts) /\ r[30] = High(m.gpu_power_watts)
         /\ r[31] = Low(m.gpu_clock_mhz) /\ r[32] = High(m.gpu_clock_mhz)
         /\ r[33] = IF p.is_fahrenheit THEN 1 ELSE 0
<1>1. CASE p.screen_on
  BY <1>1 DEF Serialize, Metered
<1>2. CASE ~p.screen_on
  <2>1. /\ \A i \in 5 .. 33 : Serialize(p)[i] = Metered(p)[i]
        /\ Serialize(p)[3] = 14 /\ Serialize(p)[4] = 15
    <3>1. Metered(p) = [i \in 0 .. 33 |-> Metered(p)[i]]
      BY DEF Metered
    <3> HIDE DEF Metered
    <3> QED BY <1>2, <3>1 DEF Serialize, SCREEN_STATE_OFF, FLASH_VALUE1_OFF
  <2> QED BY <1>2, <2>1 DEF Metered
<1> QED BY <1>1, <1>2

\* Every report is 34 bytes.
LEMMA SerializeType ==
  ASSUME NEW p \in Packets
  PROVE  Serialize(p) \in [0 .. 33 -> Byte]
<1>1. /\ p.metrics \in Metrics
      /\ p.model_id \in Byte
  BY DEF Packets
<1>2. /\ p.metrics.cpu_temp \in Byte /\ p.metrics.cpu_load \in Byte
      /\ p.metrics.gpu_temp \in Byte /\ p.metrics.gpu_load \in Byte
  BY <1>1 DEF Metrics
<1>3. /\ p.metrics.cpu_power_watts \in Word /\ p.metrics.cpu_clock_mhz \in Word
      /\ p.metrics.gpu_power_watts \in Word /\ p.metrics.gpu_clock_mhz \in Word
  BY <1>1 DEF Metrics
<1>4. \A w \in Word : Low(w) \in Byte /\ High(w) \in Byte
  BY LittleEndian
<1>5. \A n \in {0, 1, 12, 14, 15, 220, 221} : n \in Byte
  BY DEF Byte
<1>6. Metered(p) \in [0 .. 33 -> Byte]
  <2>1. ASSUME NEW i \in 0 .. 33 PROVE Metered(p)[i] \in Byte
    BY <1>1, <1>2, <1>3, <1>4, <1>5 DEF Metered, MAGIC_HEADER
  <2> QED BY <2>1 DEF Metered
<1> QED BY <1>5, <1>6 DEF Serialize, SCREEN_STATE_OFF, FLASH_VALUE1_OFF

\* A display that follows the documented layout reads back every field.
THEOREM RoundTrip ==
  ASSUME NEW p \in Packets
  PROVE  ReadBack(Serialize(p)) =
           [p EXCEPT !.model_id = IF p.screen_on THEN @ ELSE FLASH_VALUE1_OFF]
<1> DEFINE r == Serialize(p)
           m == p.metrics
<1>1. m \in Metrics /\ p.screen_on \in BOOLEAN /\ p.is_fahrenheit \in BOOLEAN
  BY DEF Packets
<1>2. /\ WordAt(r, 23) = m.cpu_power_watts /\ WordAt(r, 25) = m.cpu_clock_mhz
      /\ WordAt(r, 29) = m.gpu_power_watts /\ WordAt(r, 31) = m.gpu_clock_mhz
  <2>1. /\ m.cpu_power_watts \in Word /\ m.cpu_clock_mhz \in Word
        /\ m.gpu_power_watts \in Word /\ m.gpu_clock_mhz \in Word
    BY <1>1 DEF Metrics
  <2>2. /\ r[23] = Low(m.cpu_power_watts) /\ r[24] = High(m.cpu_power_watts)
        /\ r[25] = Low(m.cpu_clock_mhz) /\ r[26] = High(m.cpu_clock_mhz)
        /\ r[29] = Low(m.gpu_power_watts) /\ r[30] = High(m.gpu_power_watts)
        /\ r[31] = Low(m.gpu_clock_mhz) /\ r[32] = High(m.gpu_clock_mhz)
    BY SerializeAt
  <2> HIDE DEF r, m
  <2> QED BY <2>1, <2>2, LittleEndian DEF WordAt
<1>3. ReadBack(r).metrics = m
  <2>1. r[21] = m.cpu_temp /\ r[22] = m.cpu_load /\ r[27] = m.gpu_temp /\ r[28] = m.gpu_load
    BY SerializeAt
  <2> HIDE DEF r, m
  <2> QED BY <1>1, <1>2, <2>1 DEF ReadBack, Metrics
<1>4. /\ r[3] = SCREEN_STATE_ON <=> p.screen_on
      /\ r[33] = 1 <=> p.is_fahrenheit
      /\ r[4] = IF p.screen_on THEN p.model_id ELSE FLASH_VALUE1_OFF
  BY SerializeAt DEF SCREEN_STATE_ON, FLASH_VALUE1_OFF
<1>5. ReadBack(r) = [screen_on |-> p.screen_on, model_id |-> r[4],
                     is_fahrenheit |-> p.is_fahrenheit, metrics |-> m]
  <2> HIDE DEF r, m
  <2> QED BY <1>1, <1>3, <1>4 DEF ReadBack
<1> HIDE DEF r
<1>6. ReadBack(r) = [p EXCEPT !.model_id = IF p.screen_on THEN @ ELSE FLASH_VALUE1_OFF]
  BY <1>4, <1>5 DEF Packets
<1> QED BY <1>6 DEF r

\* Packets and reports are within their types.
THEOREM TypeCorrect == Spec => []TypeOK
<1>1. \A a \in Args, m \in Metrics : TickPacket(a, m) \in Packets /\ OffPacket(a) \in Packets
  <2>1. NoMetrics \in Metrics
    BY DEF NoMetrics, Metrics, Byte, Word
  <2> SUFFICES ASSUME NEW a \in Args, NEW m \in Metrics
               PROVE  TickPacket(a, m) \in Packets /\ OffPacket(a) \in Packets
    OBVIOUS
  <2>2. a.model_id \in Byte /\ a.fahrenheit \in BOOLEAN
    BY DEF Args
  <2>3. (a.service \/ ~a.screen_off) \in BOOLEAN
    OBVIOUS
  <2>4. TickPacket(a, m) \in Packets
    BY <2>2, <2>3, Zenon DEF Packets, TickPacket
  <2>5. OffPacket(a) \in Packets
    BY <2>1, <2>2 DEF Packets, OffPacket
  <2> QED BY <2>4, <2>5
<1>2. Init => TypeOK
  BY <1>1, PacketAssumption, SerializeType DEF Init, TypeOK
<1>3. TypeOK /\ [Next]_vars => TypeOK'
  <2> SUFFICES ASSUME TypeOK, [Next]_vars PROVE TypeOK'
    OBVIOUS
  <2>1. CASE Tick
    BY <1>1, <2>1, PacketAssumption, SerializeType DEF Tick, Write, TypeOK
  <2>2. CASE Teardown
    BY <1>1, <2>2, SerializeType DEF Teardown, Write, TypeOK
  <2>3. CASE UNCHANGED vars
    BY <2>3 DEF vars, TypeOK
  <2> QED BY <2>1, <2>2, <2>3 DEF Next
<1> QED BY <1>2, <1>3, PTL DEF Spec

\* The display reads back every field of the packet on the wire.
THEOREM DisplayAlwaysReadsPacket == Spec => []DisplayReadsPacket
<1>1. Init => report = Serialize(packet)
  BY DEF Init
<1>2. report = Serialize(packet) /\ [Next]_vars => (report = Serialize(packet))'
  BY DEF Next, Tick, Teardown, Write, vars
<1>3. TypeOK /\ report = Serialize(packet) => DisplayReadsPacket
  BY RoundTrip DEF TypeOK, DisplayReadsPacket
<1> QED BY <1>1, <1>2, <1>3, TypeCorrect, PTL DEF Spec

\* The bytes of a serialised packet that hold no field.
LEMMA SerializeElsewhere ==
  ASSUME NEW p \in Packets
  PROVE  LET r == Serialize(p) IN
         /\ \A i \in {0} \cup 5 .. 12 \cup 14 .. 16 \cup 18 .. 20 : r[i] = 0
         /\ r[1] = 220 /\ r[2] = 221 /\ r[13] = 1 /\ r[17] = 12
<1>1. \A i \in (0 .. 33) \ {3, 4} : Serialize(p)[i] = Metered(p)[i]
  <2>1. CASE p.screen_on
    BY <2>1 DEF Serialize
  <2>2. CASE ~p.screen_on
    <3>1. Metered(p) = [i \in 0 .. 33 |-> Metered(p)[i]]
      BY DEF Metered
    <3> HIDE DEF Metered
    <3> QED BY <2>2, <3>1 DEF Serialize
  <2> QED BY <2>1, <2>2
<1>2. /\ Metered(p)[1] = 220 /\ Metered(p)[2] = 221
      /\ Metered(p)[13] = 1 /\ Metered(p)[17] = 12
  BY DEF Metered, MAGIC_HEADER
<1>3. \A i \in {0} \cup 5 .. 12 \cup 14 .. 16 \cup 18 .. 20 : Metered(p)[i] = 0
  BY DEF Metered
<1> QED BY <1>1, <1>2, <1>3

\* serialize() writes the documented layout, byte by byte, for every packet.
LEMMA SerializeIsLayout ==
  ASSUME NEW p \in Packets
  PROVE  Len(Layout(p)) = 34 /\ \A i \in 0 .. 33 : Serialize(p)[i] = Layout(p)[i + 1]
<1> DEFINE r == Serialize(p)
           l == Layout(p)
           m == p.metrics
<1>1. Len(l) = 34
  BY DEF Layout
<1>2. /\ l[1] = 0 /\ l[2] = 220 /\ l[3] = 221
      /\ l[4] = (IF p.screen_on THEN 0 ELSE 14) /\ l[5] = (IF p.screen_on THEN p.model_id ELSE 15)
      /\ l[14] = 1 /\ l[18] = 12
      /\ \A i \in 6 .. 13 \cup 15 .. 17 \cup 19 .. 21 : l[i] = 0
  BY DEF Layout
<1>3. /\ l[22] = m.cpu_temp /\ l[23] = m.cpu_load
      /\ l[24] = Low(m.cpu_power_watts) /\ l[25] = High(m.cpu_power_watts)
      /\ l[26] = Low(m.cpu_clock_mhz) /\ l[27] = High(m.cpu_clock_mhz)
      /\ l[28] = m.gpu_temp /\ l[29] = m.gpu_load
      /\ l[30] = Low(m.gpu_power_watts) /\ l[31] = High(m.gpu_power_watts)
      /\ l[32] = Low(m.gpu_clock_mhz) /\ l[33] = High(m.gpu_clock_mhz)
      /\ l[34] = IF p.is_fahrenheit THEN 1 ELSE 0
  BY DEF Layout
<1>4. \A i \in 0 .. 20 : r[i] = l[i + 1]
  <2>1. r[0] = l[1] /\ r[1] = l[2] /\ r[2] = l[3] /\ r[3] = l[4] /\ r[4] = l[5]
        /\ r[13] = l[14] /\ r[17] = l[18]
    BY <1>2, SerializeElsewhere, SerializeAt
  <2>2. \A i \in 5 .. 12 \cup 14 .. 16 \cup 18 .. 20 : r[i] = 0 /\ l[i + 1] = 0
    <3> HIDE DEF r, l
    <3>1. \A i \in {0} \cup 5 .. 12 \cup 14 .. 16 \cup 18 .. 20 : r[i] = 0
      BY SerializeElsewhere DEF r
    <3> QED BY <1>2, <3>1
  <2> HIDE DEF r, l
  <2> QED BY <2>1, <2>2
<1>5. \A i \in 21 .. 33 : r[i] = l[i + 1]
  <2>1. /\ r[21] = l[22] /\ r[22] = l[23] /\ r[23] = l[24] /\ r[24] = l[25] /\ r[25] = l[26]
        /\ r[26] = l[27] /\ r[27] = l[28] /\ r[28] = l[29] /\ r[29] = l[30] /\ r[30] = l[31]
        /\ r[31] = l[32] /\ r[32] = l[33] /\ r[33] = l[34]
    BY <1>3, SerializeAt
  <2> HIDE DEF r, l
  <2> QED BY <2>1
<1> HIDE DEF r, l
<1>6. \A i \in 0 .. 33 : r[i] = l[i + 1]
  BY <1>4, <1>5
<1> QED BY <1>1, <1>6 DEF r, l

\* The packet on the wire is that of a tick, or of a service's teardown, and was built
\* from the arguments and the last sample.
Built ==
  /\ report = Serialize(packet)
  /\ packet = TickPacket(args, metrics) \/ (args.service /\ packet = OffPacket(args))

\* Init, the loop and the teardown write nothing else.
LEMMA AlwaysBuilt == Spec => []Built
<1>1. Init => Built
  BY DEF Init, Built
<1>2. Built /\ [Next]_vars => Built'
  BY DEF Built, Next, Tick, Teardown, Write, vars
<1> QED BY <1>1, <1>2, PTL DEF Spec

\* Every report in every reachable state is laid out as documented.
THEOREM LayoutAlwaysMatches == Spec => []MatchesLayout
<1>1. TypeOK /\ Built => MatchesLayout
  BY SerializeIsLayout DEF TypeOK, Built, MatchesLayout
<1> QED BY <1>1, TypeCorrect, AlwaysBuilt, PTL

\* What main() and service_main send is what was sampled, in every reachable state; the
\* temperatures of a report in Fahrenheit are left out, as DisplayShowsSample says.
THEOREM DisplayAlwaysShowsSample == Spec => []DisplayShowsSample
<1>1. TypeOK /\ Built => DisplayShowsSample
  <2> SUFFICES ASSUME TypeOK, Built PROVE DisplayShowsSample
    OBVIOUS
  <2> DEFINE seen == ReadBack(report)
  <2>1. seen = [packet EXCEPT !.model_id = IF packet.screen_on THEN @ ELSE FLASH_VALUE1_OFF]
    BY RoundTrip DEF TypeOK, Built
  <2>2. /\ seen.screen_on = packet.screen_on /\ seen.metrics = packet.metrics
        /\ seen.is_fahrenheit = packet.is_fahrenheit
        /\ packet.screen_on => seen.model_id = packet.model_id
    <3> HIDE DEF seen
    <3> QED BY <2>1 DEF TypeOK, Packets
  <2>3. CASE packet = TickPacket(args, metrics)
    <3>1. /\ packet.screen_on <=> args.service \/ ~args.screen_off
          /\ packet.metrics = metrics /\ packet.model_id = args.model_id
          /\ packet.is_fahrenheit = args.fahrenheit
      BY <2>3 DEF TickPacket
    <3> HIDE DEF seen
    <3> QED BY <2>2, <3>1 DEF DisplayShowsSample, seen
  <2>4. CASE args.service /\ packet = OffPacket(args)
    <3>1. ~packet.screen_on
      BY <2>4 DEF OffPacket
    <3> HIDE DEF seen
    <3> QED BY <2>2, <2>4, <3>1 DEF DisplayShowsSample, seen
  <2> QED BY <2>3, <2>4 DEF Built
<1> QED BY <1>1, TypeCorrect, AlwaysBuilt, PTL
=============================================================================
