---------------------------- MODULE TelemetryProofs ----------------------------
(***************************************************************************)
(* Proofs about Telemetry, for every machine and every reading: what the   *)
(* metrics are worth, what a process holds, and what finally arrives.      *)
(***************************************************************************)
EXTENDS Telemetry, FiniteSetTheorems, WellFoundedInduction, TLAPS

\* What a process may hold, by the stage of its life.
Held ==
  /\ ResourcesReleased
  /\ process \in {"gone", "sampling", "dropped"}
  /\ query \in BOOLEAN /\ handle \in BOOLEAN
  /\ process = "sampling" /\ entries # {} => nvml_inits = 1
  /\ process = "gone" => ~device_handle /\ entries = {}

\* has_collected_first_sample stands for a collection; the priming one may be another.
Counted ==
  /\ PdhNeedsTwoCollections
  /\ has_collected_first_sample \in BOOLEAN
  /\ collections \in 0 .. 2
  /\ has_collected_first_sample => collections >= 1

\* A process that is gone has sampled nothing; outside Windows no monitor answers
\* or holds anything.
Silent ==
  /\ process = "gone" => ~sampled
  /\ ~Windows =>
       /\ pdh_answer = NoPdh /\ nvml_answer = NoNvml /\ pawn_temp = None
       /\ ~query /\ ~handle /\ nvml_inits = 0

\* Of the metrics, those the temperature and the clock are not among: those two follow
\* below, they need what the sensors and the sums are.
OthersShown == sampled => OthersAreReadings

IInv == Held /\ Counted /\ Silent /\ DieTemperatureShown /\ OthersShown

-----------------------------------------------------------------------------
(* The conversions *)

\* The declared fields of a reading (what the queries of the monitors may return).
LEMMA ReadingTypes ==
  ASSUME NEW raw \in Readings
  PROVE  /\ raw.pdh_power \in Int /\ raw.pdh_clock \in Int /\ raw.pdh_load \in Int
         /\ raw.gpu_temp \in Int /\ raw.gpu_power \in Int /\ raw.gpu_clock \in Int
         /\ raw.gpu_load \in Int /\ raw.die \in Int
  BY TelemetryAssumption

\* round() of a positive quotient is within half a unit of it.
LEMMA RoundedIsNearest ==
  /\ \A n \in Nat : Rounded(n, 1000) \in Nat /\ 2 * (1000 * Rounded(n, 1000) - n) \in -1000 .. 1000
  /\ \A n \in Nat : Rounded(n, 10) \in Nat /\ 10 * Rounded(n, 10) - n \in -5 .. 5
  /\ \A n \in Nat : Rounded(n, 8) \in Nat /\ 8 * Rounded(n, 8) - n \in -4 .. 4
  BY SMTT(40) DEF Rounded

\* A power of PDH or NVML that is shown is the one reported, to the nearest watt.
LEMMA WattsAreNearest ==
  ASSUME NEW mw \in Int, Watts(mw) # None
  PROVE  NearestWatts(Watts(mw), mw)
<1>1. mw > 0 /\ mw \in Nat /\ Watts(mw) = Clamp(Rounded(mw, 1000), MaxWord)
  BY DEF Watts
<1>2. Rounded(mw, 1000) \in Nat /\ 2 * (1000 * Rounded(mw, 1000) - mw) \in -1000 .. 1000
  BY SMTT(40), <1>1, RoundedIsNearest
<1> DEFINE r == Rounded(mw, 1000)
<1> HIDE DEF r
<1>3. r \in Nat /\ 2 * (1000 * r - mw) \in -1000 .. 1000 /\ Watts(mw) = Clamp(r, MaxWord)
  BY SMTT(40), <1>1, <1>2 DEF r
<1>4. CASE r > MaxWord
  <2>1. Watts(mw) = MaxWord
    BY <1>3, <1>4 DEF Clamp, MaxWord
  <2>2. mw > 1000 * MaxWord
    BY <1>3, <1>4 DEF MaxWord
  <2> QED BY <2>1, <2>2 DEF NearestWatts
<1>5. CASE r <= MaxWord
  <2>1. Watts(mw) = r
    BY <1>3, <1>5 DEF Clamp, MaxWord
  <2> QED BY <1>3, <2>1 DEF NearestWatts
<1> QED BY <1>3, <1>4, <1>5 DEF MaxWord

\* A clock or any other bounded value that is shown is the one reported, up to the bound.
LEMMA BoundedIsShown ==
  ASSUME NEW n \in Int, NEW high \in Nat
  PROVE  /\ Bounded(n, high) # None => n \in Nat /\ Bounded(n, high) = AtMost(n, high)
         /\ Clock(n, 100) # None => Clock(n, 100) = AtMost(n, MaxWord)
         /\ Clock(n, 0) # None => Clock(n, 0) = AtMost(n, MaxWord)
  BY DEF Bounded, Clock, Clamp, AtMost, None, MaxWord

\* The rounding of a load to whole percents in SystemTelemetry::sample.
LEMMA LoadIsNearest ==
  ASSUME NEW n \in Int, Bounded(n, 1000) # None
  PROVE  10 * Whole(Bounded(n, 1000)) - AtMost(n, 1000) \in -5 .. 5
<1>1. n \in Nat /\ Bounded(n, 1000) = AtMost(n, 1000)
  BY BoundedIsShown
<1>2. AtMost(n, 1000) \in Nat
  BY <1>1 DEF AtMost
<1>3. Whole(Bounded(n, 1000)) = Rounded(AtMost(n, 1000), 10)
  BY <1>1, <1>2 DEF Whole, None
<1> QED BY SMTT(60), <1>2, <1>3, RoundedIsNearest

\* What the register decodes to, by the temperature it holds under its encoding.
LEMMA DecodeByTemp ==
  ASSUME NEW reg, NEW temp,
         reg.cur_tmp - (IF reg.range_sel \/ reg.tj_sel = 3 THEN 392 ELSE 0) = temp
  PROVE  /\ temp \in 8 .. 1000 => Decode(reg) = Clamp(Rounded(temp, 8), MaxByte)
         /\ temp \notin 8 .. 1000 => Decode(reg) = None
  BY SMTT(60) DEF Decode

\* The AMD register holds the die temperature under each encoding, and decodes to it.
LEMMA DecodesDie ==
  ASSUME NEW die \in Int, NEW reg \in Registers(die), Decode(reg) # None
  PROVE  die \in 8 .. 1000 /\ 8 * Decode(reg) - die \in -4 .. 4
<1>1. reg.cur_tmp - (IF reg.range_sel \/ reg.tj_sel = 3 THEN 392 ELSE 0) = die
  <2>1. CASE reg.range_sel \/ reg.tj_sel = 3
    BY <2>1 DEF Registers
  <2>2. CASE ~(reg.range_sel \/ reg.tj_sel = 3)
    BY <2>2 DEF Registers
  <2> QED BY <2>1, <2>2
<1>2. die \in 8 .. 1000 /\ Decode(reg) = Clamp(Rounded(die, 8), MaxByte)
  BY <1>1, DecodeByTemp
<1>3. die \in Nat /\ Rounded(die, 8) \in Nat /\ 8 * Rounded(die, 8) - die \in -4 .. 4
  BY SMTT(40), <1>2, RoundedIsNearest
<1> QED BY <1>2, <1>3 DEF Clamp, MaxByte

\* A load of PDH never rounds to the number that stands for none.
LEMMA WholeIsSome ==
  ASSUME NEW n \in Int, Bounded(n, 1000) # None
  PROVE  Whole(Bounded(n, 1000)) # None
<1>1. Bounded(n, 1000) \in Nat
  BY DEF Bounded, Clamp, None
<1>2. Whole(Bounded(n, 1000)) = Rounded(Bounded(n, 1000), 10)
  BY <1>1 DEF Whole, None
<1> QED BY <1>1, <1>2, RoundedIsNearest DEF None

-----------------------------------------------------------------------------
(* What one sample shows *)

\* WindowsPdhMonitor::sample answers with the values reported to it, or with nothing.
LEMMA PdhAnswers ==
  ASSUME NEW raw \in Readings, PdhSample("pdh" \in up, raw)
  PROVE  /\ pdh_answer'.power # None => NearestWatts(pdh_answer'.power, raw.pdh_power)
         /\ pdh_answer'.load # None =>
              /\ 10 * Whole(pdh_answer'.load) - AtMost(raw.pdh_load, 1000) \in -5 .. 5
              /\ Whole(pdh_answer'.load) # None
         /\ pdh_answer'.clock # None => pdh_answer'.clock = AtMost(raw.pdh_clock, MaxWord)
<1>1. /\ pdh_answer'.power # None => pdh_answer'.power = Watts(raw.pdh_power)
      /\ pdh_answer'.load # None => pdh_answer'.load = Bounded(raw.pdh_load, 1000)
      /\ pdh_answer'.clock # None => pdh_answer'.clock = Clock(raw.pdh_clock, 100)
  <2>1. CASE collected' /\ has_collected_first_sample
    BY <2>1 DEF PdhSample, Value
  <2>2. CASE ~(collected' /\ has_collected_first_sample)
    BY <2>2 DEF PdhSample, NoPdh
  <2> QED BY <2>1, <2>2
<1>2. raw.pdh_power \in Int /\ raw.pdh_load \in Int /\ raw.pdh_clock \in Int
  BY ReadingTypes
<1>3. pdh_answer'.power # None => NearestWatts(pdh_answer'.power, raw.pdh_power)
  BY <1>1, <1>2, WattsAreNearest
<1>4. pdh_answer'.load # None =>
        /\ 10 * Whole(pdh_answer'.load) - AtMost(raw.pdh_load, 1000) \in -5 .. 5
        /\ Whole(pdh_answer'.load) # None
  BY <1>1, <1>2, LoadIsNearest, WholeIsSome
<1>5. pdh_answer'.clock # None => pdh_answer'.clock = AtMost(raw.pdh_clock, MaxWord)
  BY <1>1, <1>2, BoundedIsShown
<1> QED BY <1>3, <1>4, <1>5

\* WindowsNvmlGpuMonitor::sample answers with the values reported to it, or with nothing.
LEMMA NvmlAnswers ==
  ASSUME NEW raw \in Readings, NvmlSample("gpu" \in up, raw)
  PROVE  /\ nvml_answer'.power # None => NearestWatts(nvml_answer'.power, raw.gpu_power)
         /\ nvml_answer'.temp # None => nvml_answer'.temp = AtMost(raw.gpu_temp, MaxByte)
         /\ nvml_answer'.load # None => nvml_answer'.load = AtMost(raw.gpu_load, 100)
         /\ nvml_answer'.clock # None => nvml_answer'.clock = AtMost(raw.gpu_clock, MaxWord)
<1>1. /\ nvml_answer'.power # None => nvml_answer'.power = Watts(raw.gpu_power)
      /\ nvml_answer'.temp # None => nvml_answer'.temp = Bounded(raw.gpu_temp, MaxByte)
      /\ nvml_answer'.load # None => nvml_answer'.load = Bounded(raw.gpu_load, 100)
      /\ nvml_answer'.clock # None => nvml_answer'.clock = Clock(raw.gpu_clock, 0)
  <2>1. CASE device_handle /\ "gpu" \in up
    BY <2>1 DEF NvmlSample, Get
  <2>2. CASE ~(device_handle /\ "gpu" \in up)
    BY <2>2 DEF NvmlSample, NoNvml
  <2> QED BY <2>1, <2>2
<1>2. /\ raw.gpu_power \in Int /\ raw.gpu_temp \in Int /\ raw.gpu_load \in Int
      /\ raw.gpu_clock \in Int /\ MaxByte \in Nat
  BY ReadingTypes DEF MaxByte
<1>3. nvml_answer'.power # None => NearestWatts(nvml_answer'.power, raw.gpu_power)
  BY <1>1, <1>2, WattsAreNearest
<1>4. nvml_answer'.temp # None => nvml_answer'.temp = AtMost(raw.gpu_temp, MaxByte)
  BY <1>1, <1>2, BoundedIsShown
<1>5. nvml_answer'.load # None => nvml_answer'.load = AtMost(raw.gpu_load, 100)
  BY <1>1, <1>2, BoundedIsShown
<1>6. nvml_answer'.clock # None => nvml_answer'.clock = AtMost(raw.gpu_clock, MaxWord)
  BY <1>1, <1>2, BoundedIsShown
<1> QED BY <1>3, <1>4, <1>5, <1>6

\* Every metric is the answer of the preferred monitor, or of the base one.
LEMMA MergedPrefers ==
  ASSUME NEW pdh, NEW nvml, NEW temp, NEW base
  PROVE  LET m == Merged(pdh, nvml, temp, base) IN
         /\ m.cpu_temp = IF temp = None THEN base.temp ELSE temp
         /\ m.cpu_load = IF Whole(pdh.load) = None THEN base.load ELSE Whole(pdh.load)
         /\ m.cpu_power_watts = IF pdh.power = None THEN base.power ELSE pdh.power
         /\ m.cpu_clock_mhz = IF pdh.clock = None THEN base.clock ELSE pdh.clock
         /\ m.gpu_temp = IF nvml.temp = None THEN 0 ELSE nvml.temp
         /\ m.gpu_load = IF nvml.load = None THEN 0 ELSE nvml.load
         /\ m.gpu_power_watts = IF nvml.power = None THEN 0 ELSE nvml.power
         /\ m.gpu_clock_mhz = IF nvml.clock = None THEN 0 ELSE nvml.clock
  BY DEF Merged, Or
-----------------------------------------------------------------------------
(* The invariant *)

\* Before New nothing is held, nothing answers and nothing is shown.
LEMMA InitHolds ==
  Init => IInv
<1> SUFFICES ASSUME Init PROVE IInv
  OBVIOUS
<1>a. PdhNone /\ NvmlNone /\ PawnNone /\ process = "gone" /\ ~sampled
  BY DEF Init
<1>b. ~query /\ ~handle /\ ~device_handle /\ ~has_collected_first_sample
      /\ query \in BOOLEAN /\ handle \in BOOLEAN /\ has_collected_first_sample \in BOOLEAN
  BY <1>a DEF PdhNone, NvmlNone, PawnNone
<1>c. entries = {} /\ queries = 0 /\ handles = 0 /\ nvml_inits = 0 /\ collections = 0
      /\ pdh_answer = NoPdh /\ nvml_answer = NoNvml /\ pawn_temp = None
  BY <1>a DEF PdhNone, NvmlNone, PawnNone
<1>1. Held
  BY <1>a, <1>b, <1>c DEF Held, ResourcesReleased
<1>2. Counted
  BY <1>b, <1>c DEF Counted, PdhNeedsTwoCollections
<1>3. Silent
  BY <1>a, <1>b, <1>c DEF Silent
<1>4. DieTemperatureShown
  BY <1>c DEF DieTemperatureShown
<1>5. OthersShown
  BY <1>a DEF OthersShown
<1> QED BY <1>1, <1>2, <1>3, <1>4, <1>5 DEF IInv

\* A step that leaves the answers, the last sample and the metrics as they are.
LEMMA ShowsTheSame ==
  ASSUME Silent, DieTemperatureShown, OthersShown,
         UNCHANGED <<machine, pdh_answer, nvml_answer, pawn_temp, module, hw, metrics, sampled>>
  PROVE  DieTemperatureShown' /\ OthersShown'
<1>1. DieTemperatureShown'
  BY DEF DieTemperatureShown
<1>2. Windows' = Windows
  BY DEF Windows
<1>3. OthersShown'
  BY <1>2 DEF OthersShown, OthersAreReadings
<1> QED BY <1>1, <1>3

\* SystemTelemetry::new, which opens a query, NVML and the driver one after another.
LEMMA NewHolds ==
  ASSUME IInv, New
  PROVE  IInv'
<1> USE DEF IInv
<1>1. machine' = machine /\ process = "gone" /\ process' = "sampling" /\ Windows' = Windows
  BY DEF New, Windows
<1>2. ~query /\ ~handle /\ queries = 0 /\ handles = 0 /\ nvml_inits = 0
  BY <1>1 DEF Held, ResourcesReleased
<1>3. ~sampled /\ ~sampled' /\ hw' = hw /\ metrics' = metrics
  BY <1>1 DEF Silent, New
<1>4. CASE Windows
  <2> USE <1>1, <1>4
  <2>1. /\ PdhNew(machine.counters, "pdh" \in up)
        /\ NvmlNew(machine.gpu, machine.exports)
        /\ PawnNew(machine.vendor)
    BY DEF New
  <2>2. query' \in BOOLEAN /\ queries' = IF query' THEN 1 ELSE 0
    BY <1>2, <2>1 DEF PdhNew
  <2>3. handle' \in BOOLEAN /\ handles' = IF handle' THEN 1 ELSE 0
    BY <1>2, <2>1 DEF PawnNew, try_connect
  <2>4. nvml_inits' \in 0 .. 1 /\ (device_handle' \/ entries' # {} => nvml_inits' = 1)
    <3>1. device_handle' \/ entries' # {} => machine.gpu # "absent"
      BY <2>1 DEF NvmlNew
    <3>2. nvml_inits' = IF machine.gpu = "absent" THEN 0 ELSE 1
      BY <1>2, <2>1 DEF NvmlNew
    <3> QED BY <3>1, <3>2
  <2>5. Held'
    BY <2>2, <2>3, <2>4 DEF Held, ResourcesReleased
  <2>6. Counted'
    <3>1. ~has_collected_first_sample' /\ has_collected_first_sample' \in BOOLEAN
      BY <2>1 DEF PdhNew
    <3>2. collections' \in 0 .. 2 /\ pdh_answer' = NoPdh
      BY <2>1 DEF PdhNew
    <3> QED BY <3>1, <3>2 DEF Counted, PdhNeedsTwoCollections
  <2>7. DieTemperatureShown'
    BY <2>1 DEF PawnNew, DieTemperatureShown
  <2>8. Silent' /\ OthersShown'
    BY <1>3 DEF Silent, OthersShown
  <2> QED BY <2>5, <2>6, <2>7, <2>8
<1>5. CASE ~Windows
  <2>1. UNCHANGED <<pdhVars, nvmlVars, pawnVars>>
    BY <1>5 DEF New
  <2> USE <2>1 DEF pdhVars, nvmlVars, pawnVars
  <2>2. Held'
    BY <1>1, <1>2 DEF Held, ResourcesReleased
  <2>3. Counted'
    BY DEF Counted, PdhNeedsTwoCollections
  <2>4. Silent'
    BY <1>1, <1>3 DEF Silent
  <2>5. sampled' = sampled
    BY DEF New
  <2>6. DieTemperatureShown' /\ OthersShown'
    BY <1>1, <1>3, <2>5, ShowsTheSame
  <2> QED BY <2>2, <2>3, <2>4, <2>6
<1> QED BY <1>4, <1>5

\* SystemTelemetry::sample holds what it held: only the driver may be opened by it.
LEMMA SampleHolds ==
  ASSUME IInv, Sample
  PROVE  IInv'
<1> USE DEF IInv
<1>1. PICK raw \in Readings :
        /\ hw' = raw
        /\ IF Windows
             THEN /\ PdhSample("pdh" \in up, raw)
                  /\ NvmlSample("gpu" \in up, raw)
                  /\ PawnTemp(machine.vendor, raw.die)
             ELSE UNCHANGED <<pdhVars, nvmlVars, pawnVars>>
        /\ metrics' = Merged(pdh_answer', nvml_answer', pawn_temp', Base(raw))
  BY DEF Sample
<1>2. process = "sampling" /\ process' = "sampling" /\ machine' = machine
      /\ Windows' = Windows /\ sampled' = TRUE
  BY DEF Sample, Windows
<1>3. /\ Base(raw).load = raw.load
      /\ Base(raw).power = IF Windows THEN 0 ELSE raw.power
  BY DEF Base
<1>4. /\ metrics'.cpu_temp = IF pawn_temp' = None THEN Base(raw).temp ELSE pawn_temp'
      /\ metrics'.cpu_load =
           IF Whole(pdh_answer'.load) = None THEN Base(raw).load ELSE Whole(pdh_answer'.load)
      /\ metrics'.cpu_power_watts =
           IF pdh_answer'.power = None THEN Base(raw).power ELSE pdh_answer'.power
      /\ metrics'.cpu_clock_mhz =
           IF pdh_answer'.clock = None THEN Base(raw).clock ELSE pdh_answer'.clock
      /\ metrics'.gpu_temp = IF nvml_answer'.temp = None THEN 0 ELSE nvml_answer'.temp
      /\ metrics'.gpu_load = IF nvml_answer'.load = None THEN 0 ELSE nvml_answer'.load
      /\ metrics'.gpu_power_watts = IF nvml_answer'.power = None THEN 0 ELSE nvml_answer'.power
      /\ metrics'.gpu_clock_mhz = IF nvml_answer'.clock = None THEN 0 ELSE nvml_answer'.clock
  BY <1>1, MergedPrefers
<1>5. CASE Windows
  <2>1. /\ PdhSample("pdh" \in up, raw)
        /\ NvmlSample("gpu" \in up, raw)
        /\ PawnTemp(machine.vendor, raw.die)
    BY <1>1, <1>5
  <2>2. Held'
    <3>1. UNCHANGED <<query, queries, device_handle, entries, nvml_inits>>
      BY <2>1 DEF PdhSample, NvmlSample
    <3>2. handle' \in BOOLEAN /\ handles' = IF handle' THEN 1 ELSE 0
      BY <2>1 DEF Held, ResourcesReleased, PawnTemp, try_connect
    <3> QED BY <1>2, <3>1, <3>2 DEF Held, ResourcesReleased
  <2>3. Counted'
    <3>1. collected' \in BOOLEAN
      BY <2>1 DEF PdhSample
    <3>2. has_collected_first_sample' \in BOOLEAN /\ collections' \in 0 .. 2
          /\ (has_collected_first_sample' => collections' >= 1)
      BY <2>1 DEF Counted, PdhSample, More
    <3>3. pdh_answer' # NoPdh => collections' = 2 /\ collected'
      BY <2>1 DEF Counted, PdhSample, More
    <3> QED BY <3>2, <3>3 DEF Counted, PdhNeedsTwoCollections
  <2>4. Silent'
    BY <1>2, <1>5 DEF Silent
  <2>5. DieTemperatureShown'
    <3> SUFFICES ASSUME pawn_temp' # None
                 PROVE  /\ module' = "amd" /\ raw.die \in 8 .. 1000
                        /\ 8 * metrics'.cpu_temp - raw.die \in -4 .. 4
      BY <1>1 DEF DieTemperatureShown
    <3>1. module' = "amd" /\ \E reg \in Registers(raw.die) : pawn_temp' = Decode(reg)
      BY <2>1 DEF PawnTemp
    <3>2. raw.die \in 8 .. 1000 /\ 8 * pawn_temp' - raw.die \in -4 .. 4
      BY SMTT(40), <3>1, ReadingTypes, DecodesDie
    <3> QED BY <1>4, <3>1, <3>2
  <2>6. OthersShown'
    <3>1. pdh_answer'.load # None =>
            10 * Whole(pdh_answer'.load) - AtMost(raw.pdh_load, 1000) \in -5 .. 5
      BY <2>1, PdhAnswers
    <3>2. pdh_answer'.load # None => Whole(pdh_answer'.load) # None
      BY <2>1, PdhAnswers
    <3>3. Whole(pdh_answer'.load) = None <=> pdh_answer'.load = None
      BY <3>2 DEF Whole
    <3>4. IF pdh_answer'.load # None
            THEN 10 * metrics'.cpu_load - AtMost(raw.pdh_load, 1000) \in -5 .. 5
            ELSE metrics'.cpu_load = raw.load
      BY <1>3, <1>4, <3>1, <3>3
    <3>5. IF pdh_answer'.power # None
            THEN NearestWatts(metrics'.cpu_power_watts, raw.pdh_power)
            ELSE metrics'.cpu_power_watts = IF Windows THEN 0 ELSE raw.power
      BY <1>3, <1>4, <2>1, PdhAnswers
    <3>6. /\ IF nvml_answer'.power # None
               THEN NearestWatts(metrics'.gpu_power_watts, raw.gpu_power)
               ELSE metrics'.gpu_power_watts = 0
          /\ metrics'.gpu_temp = IF nvml_answer'.temp # None THEN AtMost(raw.gpu_temp, MaxByte) ELSE 0
          /\ metrics'.gpu_load = IF nvml_answer'.load # None THEN AtMost(raw.gpu_load, 100) ELSE 0
          /\ metrics'.gpu_clock_mhz =
               IF nvml_answer'.clock # None THEN AtMost(raw.gpu_clock, MaxWord) ELSE 0
      BY <1>4, <2>1, NvmlAnswers
    <3> QED BY <1>1, <1>2, <3>4, <3>5, <3>6 DEF OthersShown, OthersAreReadings
  <2> QED BY <2>2, <2>3, <2>4, <2>5, <2>6
<1>6. CASE ~Windows
  <2>1. UNCHANGED <<pdhVars, nvmlVars, pawnVars>>
    BY <1>1, <1>6
  <2> USE <2>1 DEF pdhVars, nvmlVars, pawnVars
  <2>2. pdh_answer' = NoPdh /\ nvml_answer' = NoNvml /\ pawn_temp' = None
    BY <1>6 DEF Silent
  <2>3. Held'
    BY <1>2 DEF Held, ResourcesReleased
  <2>4. Counted'
    BY DEF Counted, PdhNeedsTwoCollections
  <2>5. Silent'
    BY <1>2, <2>2 DEF Silent
  <2>6. DieTemperatureShown'
    BY <2>2 DEF DieTemperatureShown
  <2>7. OthersShown'
    <3>1. /\ metrics'.cpu_load = raw.load /\ metrics'.cpu_power_watts = raw.power
          /\ metrics'.gpu_temp = 0 /\ metrics'.gpu_load = 0
          /\ metrics'.gpu_power_watts = 0 /\ metrics'.gpu_clock_mhz = 0
      BY <1>3, <1>4, <1>6, <2>2 DEF NoPdh, NoNvml, Whole
    <3> QED BY <1>1, <1>2, <1>6, <2>2, <3>1 DEF OthersShown, OthersAreReadings, NoPdh, NoNvml
  <2> QED BY <2>3, <2>4, <2>5, <2>6, <2>7
<1> QED BY <1>5, <1>6

\* The drops of the three Windows monitors give back what each holds.
LEMMA DropHolds ==
  ASSUME IInv, Drop
  PROVE  IInv'
<1> USE DEF IInv
<1>1. /\ process = "sampling" /\ process' = "dropped" /\ machine' = machine
      /\ Windows' = Windows /\ UNCHANGED <<sampled, hw, metrics>>
  BY DEF Drop, Windows
<1>2. CASE Windows
  <2>1. PdhDrop /\ NvmlDrop /\ PawnDrop
    BY <1>2 DEF Drop
  <2>2. query' = FALSE /\ queries' = 0 /\ handle' = FALSE /\ handles' = 0
    BY <2>1 DEF PdhDrop, PawnDrop, Held, ResourcesReleased
  <2>3. nvml_inits' \in 0 .. 1 /\ (nvml_inits' = 1 => "shutdown" \notin entries')
    <3>1. "shutdown" \in entries => nvml_inits = 1
      BY <1>1 DEF Held
    <3>2. nvml_inits \in 0 .. 1
      BY DEF Held, ResourcesReleased
    <3> QED BY <2>1, <3>1, <3>2 DEF NvmlDrop
  <2>4. Held'
    BY <1>1, <2>2, <2>3 DEF Held, ResourcesReleased
  <2>5. UNCHANGED <<has_collected_first_sample, pdh_answer, collections, collected,
                    nvml_answer, module, pawn_temp>>
    BY <2>1 DEF PdhDrop, NvmlDrop, PawnDrop
  <2>6. Counted'
    BY <2>5 DEF Counted, PdhNeedsTwoCollections
  <2>7. Silent'
    BY <1>1, <1>2, <2>5 DEF Silent
  <2>8. DieTemperatureShown' /\ OthersShown'
    BY <1>1, <2>5, ShowsTheSame
  <2> QED BY <2>4, <2>6, <2>7, <2>8
<1>3. CASE ~Windows
  <2>1. UNCHANGED <<pdhVars, nvmlVars, pawnVars>>
    BY <1>3 DEF Drop
  <2> USE <2>1 DEF pdhVars, nvmlVars, pawnVars
  <2>2. Held'
    BY <1>1, <1>3 DEF Held, ResourcesReleased, Silent
  <2>3. Counted'
    BY DEF Counted, PdhNeedsTwoCollections
  <2>4. Silent'
    BY <1>1 DEF Silent
  <2>5. DieTemperatureShown' /\ OthersShown'
    BY <1>1, ShowsTheSame
  <2> QED BY <2>2, <2>3, <2>4, <2>5
<1> QED BY <1>2, <1>3

\* The end of the process, at any moment, frees everything.
LEMMA ExitHolds ==
  ASSUME Exit
  PROVE  IInv'
<1>a. PdhEnd /\ NvmlEnd /\ PawnEnd /\ process' = "gone" /\ ~sampled'
  BY DEF Exit
<1>b. /\ ~query' /\ ~handle' /\ ~device_handle' /\ ~has_collected_first_sample'
      /\ query' \in BOOLEAN /\ handle' \in BOOLEAN /\ has_collected_first_sample' \in BOOLEAN
  BY <1>a DEF PdhEnd, NvmlEnd, PawnEnd
<1>c. /\ entries' = {} /\ queries' = 0 /\ handles' = 0 /\ nvml_inits' = 0 /\ collections' = 0
      /\ pdh_answer' = NoPdh /\ nvml_answer' = NoNvml /\ pawn_temp' = None
  BY <1>a DEF PdhEnd, NvmlEnd, PawnEnd
<1>1. Held'
  BY <1>a, <1>b, <1>c DEF Held, ResourcesReleased
<1>2. Counted'
  BY <1>b, <1>c DEF Counted, PdhNeedsTwoCollections
<1>3. Silent'
  BY <1>a, <1>b, <1>c DEF Silent
<1>4. DieTemperatureShown'
  BY <1>c DEF DieTemperatureShown
<1>5. OthersShown'
  BY <1>a DEF OthersShown
<1> QED BY <1>1, <1>2, <1>3, <1>4, <1>5 DEF IInv

\* Sources that come and go, the driver and the chips of the machine touch no monitor.
LEMMA MachineHolds ==
  ASSUME IInv, Flicker \/ Install \/ Reload \/ UNCHANGED vars
  PROVE  IInv'
<1> USE DEF IInv
<1>1. UNCHANGED <<pdhVars, nvmlVars, handle, module, pawn_temp, handles,
                  machine, process, sampled, hw, metrics>>
  BY DEF Flicker, Install, Reload, DriverChanges, vars, monitorVars, pawnVars
<1>2. Windows' = Windows
  BY <1>1 DEF Windows
<1> USE <1>1 DEF pdhVars, nvmlVars
<1>3. Held'
  BY DEF Held, ResourcesReleased
<1>4. Counted'
  BY DEF Counted, PdhNeedsTwoCollections
<1>5. Silent'
  BY <1>2 DEF Silent
<1>6. DieTemperatureShown' /\ OthersShown'
  BY ShowsTheSame
<1> QED BY <1>3, <1>4, <1>5, <1>6

\* The inductive invariant of every run of the monitors.
THEOREM TelemetryInvariant == Spec => []IInv
<1>1. Init => IInv
  BY InitHolds
<1>2. IInv /\ [Next]_vars => IInv'
  BY NewHolds, SampleHolds, DropHolds, ExitHolds, MachineHolds DEF Next
<1> QED BY <1>1, <1>2, PTL DEF Spec

\* The drops of windows_native.rs and windows_pawnio.rs give back every query and handle
\* on every machine, whatever was opened and whatever failed, and NVML unless it has no
\* device or no nvmlShutdown; one initialisation is then kept until the process ends.
THEOREM NothingLeaks == Spec => []ResourcesReleased
<1>1. IInv => ResourcesReleased
  BY DEF IInv, Held
<1> QED BY <1>1, TelemetryInvariant, PTL

\* has_collected_first_sample is enough for a formatted value to have two collections
\* behind it, however many of them failed before.
THEOREM PdhCorrect == Spec => []PdhNeedsTwoCollections
<1>1. IInv => PdhNeedsTwoCollections
  BY DEF IInv, Counted
<1> QED BY <1>1, TelemetryInvariant, PTL

\* The temperature PawnIO gives is that of the die, at every temperature of the register.
THEOREM DieTemperatureCorrect == Spec => []DieTemperatureShown
<1>1. IInv => DieTemperatureShown
  BY DEF IInv
<1> QED BY <1>1, TelemetryInvariant, PTL

-----------------------------------------------------------------------------
(* Least, greatest and sum of a set.  The library defines them with CHOOSE *)
(* and recursion; that they are what they are called takes induction, over *)
(* the order of the naturals and over the subsets of a finite set.         *)

\* Every nonempty set of naturals has a least member.
LEMMA LeastNatural ==
  ASSUME NEW S \in SUBSET Nat, S # {}
  PROVE  \E least \in S : \A n \in S : least <= n
<1> DEFINE Below == {pair \in Nat \X Nat : pair[1] < pair[2]}
<1>1. IsWellFoundedOn(Below, Nat)
  BY NatLessThanWellFounded DEF OpToRel
<1>2. \A m, n \in Nat : ~(m < n) => n <= m
  OBVIOUS
<1>3. \A m, n \in Nat : m < n => <<m, n>> \in Below
  OBVIOUS
<1> HIDE DEF Below
<1>4. PICK least \in S : \A n \in S : <<n, least>> \notin Below
  BY <1>1, WFMin
<1> QED BY <1>2, <1>3, <1>4

\* That is the one the search of LinuxSensors takes.
LEMMA MinOfNaturals ==
  ASSUME NEW S \in SUBSET Nat, S # {}
  PROVE  Min(S) \in S /\ \A n \in S : Min(S) <= n
  BY LeastNatural DEF Min

\* Induction over the subsets of a finite set: what holds of a set when it holds of all
\* its proper subsets holds of every one, the whole set included.
LEMMA FiniteInduction ==
  ASSUME NEW S, IsFiniteSet(S), NEW Good,
         \A T \in SUBSET S : (\A U \in SUBSET T : U # T => U \in Good) => T \in Good
  PROVE  S \in Good
<1> DEFINE Inside == StrictSubsetOrdering(S)
           All == SUBSET S
           Bad == All \ Good
<1>1. IsWellFoundedOn(Inside, All)
  <2>1. IsWellFoundedOn(Inside, FiniteSubsetsOf(S))
    BY FS_StrictSubsetOrderingWellFounded
  <2>2. FiniteSubsetsOf(S) = All
    BY FS_FiniteSubsetsOfFinite
  <2> QED BY <2>1, <2>2
<1>2. \A T, U \in All : U \in SUBSET T /\ U # T => <<U, T>> \in Inside
  BY DEF StrictSubsetOrdering
<1>3. Bad \subseteq All
  OBVIOUS
<1> SUFFICES ASSUME Bad # {} PROVE FALSE
  OBVIOUS
<1> HIDE DEF Inside
<1>4. PICK T \in Bad : \A U \in Bad : <<U, T>> \notin Inside
  <2> HIDE DEF Bad, All
  <2> QED BY <1>1, <1>3, WFMin
<1>5. \A U \in SUBSET T : U # T => U \in Good
  <2> SUFFICES ASSUME NEW U \in SUBSET T, U # T, U \notin Good PROVE FALSE
    OBVIOUS
  <2>1. T \in All /\ U \in All /\ U \in Bad
    OBVIOUS
  <2>2. <<U, T>> \notin Inside
    BY <1>4, <2>1
  <2>3. <<U, T>> \in Inside
    <3> HIDE DEF All, Bad
    <3> QED BY <1>2, <2>1
  <2> QED BY <2>2, <2>3
<1> QED BY <1>4, <1>5

\* The sum of the library takes the members of a set one by one: `sum' holds the sums of
\* the values of `fun' over all subsets of S.
Picked(s) == CHOOSE x \in s : TRUE
Rest(s) == s \ {Picked(s)}
Step(fun, sum, s) == IF s = {} THEN 0 ELSE fun[Picked(s)] + sum[Rest(s)]
Sums(fun, sum, S) == sum = [s \in SUBSET S |-> Step(fun, sum, s)]

\* A nonempty set loses a member at each step.
LEMMA RestIsSmaller ==
  ASSUME NEW s, s # {}
  PROVE  Picked(s) \in s /\ Rest(s) \subseteq s /\ Rest(s) # s
  BY DEF Picked, Rest

\* The sum over a set does not depend on the set it is taken in.
LEMMA SumsAgree ==
  ASSUME NEW fun, NEW S, IsFiniteSet(S), NEW T \in SUBSET S, NEW g, NEW h,
         Sums(fun, g, S), Sums(fun, h, T)
  PROVE  g[T] = h[T]
<1> DEFINE Good == {s \in SUBSET T : g[s] = h[s]}
<1>1. ASSUME NEW U \in SUBSET T, \A s \in SUBSET U : s # U => s \in Good
      PROVE  U \in Good
  <2>1. g[U] = Step(fun, g, U) /\ h[U] = Step(fun, h, U)
    <3>1. U \in SUBSET S
      OBVIOUS
    <3> QED BY <3>1 DEF Sums
  <2>2. CASE U = {}
    BY <2>1, <2>2 DEF Step
  <2>3. CASE U # {}
    <3>1. Rest(U) \in SUBSET U /\ Rest(U) # U
      BY <2>3, RestIsSmaller
    <3>2. g[Rest(U)] = h[Rest(U)]
      BY <1>1, <3>1
    <3> QED BY <2>1, <2>3, <3>2 DEF Step
  <2> QED BY <2>2, <2>3
<1>2. IsFiniteSet(T)
  BY FS_Subset
<1> HIDE DEF Good
<1>3. T \in Good
  BY <1>1, <1>2, FiniteInduction
<1> QED BY <1>3 DEF Good

\* Every finite set has sums.
LEMMA SumsExist ==
  ASSUME NEW fun, NEW S, IsFiniteSet(S)
  PROVE  \E sum : Sums(fun, sum, S)
<1> DEFINE Good == {T \in SUBSET S : \E sum : Sums(fun, sum, T)}
           Of(s) == CHOOSE sum : Sums(fun, sum, s)
<1>1. ASSUME NEW T \in SUBSET S, \A U \in SUBSET T : U # T => U \in Good
      PROVE  T \in Good
  <2> DEFINE Total(s) == IF s = {} THEN 0 ELSE fun[Picked(s)] + Of(Rest(s))[Rest(s)]
             sum == [s \in SUBSET T |-> Total(s)]
  <2>1. ASSUME NEW U \in SUBSET T, U # T
        PROVE  Sums(fun, Of(U), U)
    <3>1. \E g : Sums(fun, g, U)
      BY <1>1, <2>1
    <3> QED BY <3>1
  <2> HIDE DEF Of
  <2>2. ASSUME NEW U \in SUBSET T, U # T
        PROVE  Of(U)[U] = Total(U)
    <3>1. Of(U)[U] = Step(fun, Of(U), U)
      <4>1. U \in SUBSET U
        OBVIOUS
      <4> QED BY <2>1, <2>2, <4>1 DEF Sums
    <3>2. CASE U = {}
      BY <3>1, <3>2 DEF Step
    <3>3. CASE U # {}
      <4>1. Rest(U) \in SUBSET U /\ Rest(U) # U
        BY <3>3, RestIsSmaller
      <4>2. Rest(U) \in SUBSET T /\ Rest(U) # T /\ IsFiniteSet(U)
        BY <2>2, <4>1, FS_Subset
      <4>3. Sums(fun, Of(U), U) /\ Sums(fun, Of(Rest(U)), Rest(U))
        BY <2>1, <2>2, <4>2
      <4>4. Of(U)[Rest(U)] = Of(Rest(U))[Rest(U)]
        BY <4>1, <4>2, <4>3, SumsAgree
      <4> QED BY <3>1, <3>3, <4>4 DEF Step
    <3> QED BY <3>2, <3>3
  <2>3. \A s \in SUBSET T : Total(s) = Step(fun, sum, s)
    <3> SUFFICES ASSUME NEW s \in SUBSET T PROVE Total(s) = Step(fun, sum, s)
      OBVIOUS
    <3>1. CASE s = {}
      BY <3>1 DEF Step
    <3>2. CASE s # {}
      <4>1. Rest(s) \in SUBSET T /\ Rest(s) # T
        BY <3>2, RestIsSmaller
      <4>2. sum[Rest(s)] = Of(Rest(s))[Rest(s)]
        BY <2>2, <4>1
      <4> QED BY <3>2, <4>2 DEF Step
    <3> QED BY <3>1, <3>2
  <2>4. Sums(fun, sum, T)
    BY <2>3 DEF Sums
  <2> QED BY <2>4
<1> HIDE DEF Good
<1>2. S \in Good
  BY <1>1, FiniteInduction
<1> QED BY <1>2 DEF Good

\* SumFunctionOnSet is one of them, for any function.
LEMMA SumUnfolds ==
  ASSUME NEW fun, NEW S, IsFiniteSet(S)
  PROVE  \E sum : Sums(fun, sum, S) /\ SumFunctionOnSet(fun, S) = sum[S]
<1>1. SumFunctionOnSet(fun, S) = (CHOOSE sum : Sums(fun, sum, S))[S]
  BY DEF SumFunctionOnSet, FoldFunctionOnSet, MapThenFoldSet, Sums, Step, Picked, Rest
<1> QED BY <1>1, SumsExist

\* The sum of any finite number of naturals is a natural.
LEMMA SumIsNatural ==
  ASSUME NEW S, IsFiniteSet(S), NEW fun \in [S -> Nat]
  PROVE  SumFunction(fun) \in Nat
<1>1. PICK sum : Sums(fun, sum, S) /\ SumFunctionOnSet(fun, S) = sum[S]
  BY SumUnfolds
<1> DEFINE Good == {s \in SUBSET S : sum[s] \in Nat}
<1>2. ASSUME NEW T \in SUBSET S, \A U \in SUBSET T : U # T => U \in Good
      PROVE  T \in Good
  <2>1. sum[T] = Step(fun, sum, T)
    BY <1>1 DEF Sums
  <2>2. CASE T = {}
    BY <2>1, <2>2 DEF Step
  <2>3. CASE T # {}
    <3>1. Picked(T) \in S /\ Rest(T) \in SUBSET T /\ Rest(T) # T
      BY <2>3, RestIsSmaller
    <3>2. fun[Picked(T)] \in Nat /\ sum[Rest(T)] \in Nat
      BY <1>2, <3>1
    <3> QED BY <2>1, <2>3, <3>2 DEF Step
  <2> QED BY <2>2, <2>3
<1> HIDE DEF Good
<1>3. S \in Good
  BY <1>2, FiniteInduction
<1>4. SumFunction(fun) = SumFunctionOnSet(fun, S)
  BY DEF SumFunction
<1> QED BY <1>1, <1>3, <1>4 DEF Good

\* A finite, nonempty set of integers has a greatest member.
LEMMA MaxOfIntegers ==
  ASSUME NEW S \in SUBSET Int, IsFiniteSet(S), S # {}
  PROVE  Max(S) \in S /\ \A n \in S : n <= Max(S)
<1> DEFINE Good == {T \in SUBSET S : T # {} => \E greatest \in T : \A n \in T : n <= greatest}
<1>1. ASSUME NEW T \in SUBSET S, \A U \in SUBSET T : U # T => U \in Good
      PROVE  T \in Good
  <2> SUFFICES ASSUME T # {} PROVE \E greatest \in T : \A n \in T : n <= greatest
    OBVIOUS
  <2>1. Picked(T) \in T /\ Rest(T) \in SUBSET T /\ Rest(T) # T
    BY RestIsSmaller
  <2>2. T = Rest(T) \cup {Picked(T)}
    BY <2>1 DEF Rest
  <2>3. CASE Rest(T) = {}
    <3>1. \A n \in T : n <= Picked(T)
      BY <2>1, <2>2, <2>3
    <3> QED BY <2>1, <3>1
  <2>4. CASE Rest(T) # {}
    <3>1. PICK m \in Rest(T) : \A n \in Rest(T) : n <= m
      BY <1>1, <2>1, <2>4
    <3>2. m \in Int /\ Picked(T) \in Int /\ Rest(T) \subseteq Int
      BY <2>1
    <3>3. CASE Picked(T) <= m
      <4>1. m \in T /\ \A n \in T : n <= m
        BY <2>2, <3>1, <3>3
      <4> QED BY <4>1
    <3>4. CASE m <= Picked(T)
      <4>1. \A n \in Rest(T) : n <= Picked(T)
        BY <3>1, <3>2, <3>4
      <4>2. \A n \in T : n <= Picked(T)
        BY <2>2, <3>2, <4>1
      <4> QED BY <2>1, <4>2
    <3> QED BY <3>2, <3>3, <3>4
  <2> QED BY <2>3, <2>4
<1> HIDE DEF Good
<1>2. S \in Good
  BY <1>1, FiniteInduction
<1>3. \E greatest \in S : \A n \in S : greatest >= n
  BY <1>2 DEF Good
<1> QED BY <1>3 DEF Max

-----------------------------------------------------------------------------
(* Types *)

\* clamp keeps to its bounds.
LEMMA ClampBounded ==
  \A n \in Int : /\ Clamp(n, MaxByte) \in 0 .. MaxByte
                 /\ Clamp(n, MaxWord) \in 0 .. MaxWord
<1>1. ASSUME NEW n \in Int, NEW high \in Nat
      PROVE  Clamp(n, high) \in 0 .. high
  BY DEF Clamp
<1>2. MaxByte \in Nat /\ MaxWord \in Nat
  BY DEF MaxByte, MaxWord
<1> QED BY <1>1, <1>2

\* The hottest of a finite list of components, whatever it holds, fits a byte.
LEMMA BestTempTyped ==
  ASSUME NEW raw \in Readings
  PROVE  BestTemp(raw.components) \in 0 .. MaxByte
<1> DEFINE All == {0} \cup raw.components
<1>1. raw.components \in SUBSET Int /\ IsFiniteSet(raw.components)
  BY TelemetryAssumption
<1>2. All \in SUBSET Int /\ IsFiniteSet(All) /\ 0 \in All
  BY <1>1, FS_AddElement
<1> HIDE DEF All
<1>3. Max(All) \in Int /\ 0 <= Max(All)
  BY <1>2, MaxOfIntegers
<1>4. Max(All) \in Nat
  BY <1>3
<1>5. Rounded(Max(All), 10) \in Nat
  BY <1>4, RoundedIsNearest
<1>6. Clamp(Rounded(Max(All), 10), MaxByte) \in 0 .. MaxByte
  BY <1>5, ClampBounded
<1> QED BY <1>6 DEF BestTemp, All

\* The average clock of any number of processors fits a word.
LEMMA AverageFreqTyped ==
  ASSUME NEW cpus \in Seq(Nat)
  PROVE  AverageFreq(cpus) \in 0 .. MaxWord
<1>1. /\ IsFiniteSet(DOMAIN cpus) /\ Cardinality(DOMAIN cpus) = Len(cpus)
      /\ cpus \in [DOMAIN cpus -> Nat] /\ Len(cpus) \in Nat
  <2>1. Len(cpus) \in Nat /\ DOMAIN cpus = 1 .. Len(cpus) /\ cpus \in [1 .. Len(cpus) -> Nat]
    OBVIOUS
  <2>2. \A n \in Nat : IsFiniteSet(1 .. n) /\ Cardinality(1 .. n) = n
    BY FS_Interval
  <2> QED BY <2>1, <2>2
<1>2. SumFunction(cpus) \in Nat
  BY <1>1, SumIsNatural
<1>3. CASE DOMAIN cpus = {}
  BY <1>3 DEF AverageFreq, MaxWord
<1>4. CASE DOMAIN cpus # {}
  <2>1. Len(cpus) > 0
    BY <1>1, <1>4
  <2>2. SumFunction(cpus) \div Len(cpus) \in Int
    BY <1>1, <1>2, <2>1
  <2>3. Clamp(SumFunction(cpus) \div Len(cpus), MaxWord) \in 0 .. MaxWord
    BY <2>2, ClampBounded
  <2> QED BY <1>1, <1>4, <2>3 DEF AverageFreq
<1> QED BY <1>3, <1>4

\* What the base monitors answer, on either platform, fits the fields it goes to.
LEMMA BaseTyped ==
  ASSUME NEW raw \in Readings
  PROVE  /\ Base(raw).temp \in 0 .. MaxByte /\ Base(raw).load \in 0 .. 100
         /\ Base(raw).power \in 0 .. MaxWord /\ Base(raw).clock \in 0 .. MaxWord
<1>1. /\ raw.cpu_milli \in Int /\ raw.other_milli \in Int /\ raw.khz \in Int
      /\ raw.load \in 0 .. 100 /\ raw.power \in 0 .. MaxWord /\ raw.cpus \in Seq(Nat)
  <2>1. raw.khz \in Nat \cup {Failed}
    BY TelemetryAssumption
  <2>2. raw.khz \in Int
    BY <2>1 DEF Failed
  <2> QED BY <2>2, TelemetryAssumption
<1>2. MilliC(raw) \in Int
  BY <1>1 DEF MilliC, Failed
<1>3. LinuxTemp(raw) \in 0 .. MaxByte
  <2>1. MilliC(raw) \div 1000 \in Int
    BY <1>2
  <2>2. Clamp(MilliC(raw) \div 1000, MaxByte) \in 0 .. MaxByte
    BY <2>1, ClampBounded
  <2> QED BY <2>2, BestTempTyped DEF LinuxTemp
<1>4. LinuxFreq(raw) \in 0 .. MaxWord
  <2>1. raw.khz \div 1000 \in Int
    BY <1>1
  <2>2. Clamp(raw.khz \div 1000, MaxWord) \in 0 .. MaxWord
    BY <2>1, ClampBounded
  <2> QED BY <1>1, <2>2, AverageFreqTyped DEF LinuxFreq
<1>5. /\ Base(raw).temp = (IF Windows THEN BestTemp(raw.components) ELSE LinuxTemp(raw))
      /\ Base(raw).load = raw.load
      /\ Base(raw).power = (IF Windows THEN 0 ELSE raw.power)
      /\ Base(raw).clock = (IF Windows THEN AverageFreq(raw.cpus) ELSE LinuxFreq(raw))
  BY DEF Base
<1>6. Base(raw).temp \in 0 .. MaxByte
  BY <1>3, <1>5, BestTempTyped
<1>7. Base(raw).clock \in 0 .. MaxWord
  BY <1>1, <1>4, <1>5, AverageFreqTyped
<1>8. Base(raw).load \in 0 .. 100
  BY <1>1, <1>5
<1>9. Base(raw).power \in 0 .. MaxWord
  <2>1. 0 \in 0 .. MaxWord
    BY DEF MaxWord
  <2> QED BY <1>1, <1>5, <2>1
<1> QED BY <1>6, <1>7, <1>8, <1>9

\* A field holds the values of a conversion, and the percents of a load.
LEMMA FieldsHold ==
  /\ 0 .. MaxByte \subseteq 0 .. MaxWord /\ 0 .. 100 \subseteq 0 .. MaxWord
  /\ 0 .. 100 \subseteq 0 .. MaxByte /\ 0 \in 0 .. MaxWord
  /\ 0 .. MaxWord \subseteq None .. MaxWord /\ 0 .. MaxByte \subseteq None .. MaxByte
  /\ None \in None .. MaxWord /\ None \in None .. MaxByte
<1>1. /\ None \in Int /\ MaxByte \in Int /\ MaxWord \in Int
      /\ None < 0 /\ 100 < MaxByte /\ MaxByte < MaxWord
  BY DEF None, MaxByte, MaxWord
<1>2. 0 .. MaxByte \subseteq 0 .. MaxWord /\ 0 .. 100 \subseteq 0 .. MaxWord
  BY <1>1
<1>3. 0 .. 100 \subseteq 0 .. MaxByte /\ 0 \in 0 .. MaxWord
  BY <1>1
<1>4. 0 .. MaxWord \subseteq None .. MaxWord /\ 0 .. MaxByte \subseteq None .. MaxByte
  BY <1>1
<1>5. None \in None .. MaxWord /\ None \in None .. MaxByte
  BY <1>1
<1> QED BY <1>2, <1>3, <1>4, <1>5

\* What a conversion returns fits its field, None included.
LEMMA ConversionsTyped ==
  ASSUME NEW n \in Int
  PROVE  /\ Watts(n) \in None .. MaxWord
         /\ Clock(n, 100) \in None .. MaxWord /\ Clock(n, 0) \in None .. MaxWord
         /\ Bounded(n, MaxByte) \in None .. MaxByte
         /\ Bounded(n, 1000) \in None .. 1000 /\ Bounded(n, 100) \in None .. 100
<1>1. Watts(n) \in None .. MaxWord
  <2>1. CASE n > 0
    <3>1. n \in Nat
      BY <2>1
    <3>2. Clamp(Rounded(n, 1000), MaxWord) \in 0 .. MaxWord
      BY <3>1, RoundedIsNearest, ClampBounded
    <3>3. Watts(n) = Clamp(Rounded(n, 1000), MaxWord)
      BY <2>1 DEF Watts
    <3> QED BY <3>2, <3>3, FieldsHold
  <2>2. CASE ~(n > 0)
    BY <2>2, FieldsHold DEF Watts
  <2> QED BY <2>1, <2>2
<1>2. Clock(n, 100) \in None .. MaxWord /\ Clock(n, 0) \in None .. MaxWord
  <2>1. Clamp(n, MaxWord) \in 0 .. MaxWord
    BY ClampBounded
  <2>2. \A above \in Int : Clock(n, above) = Clamp(n, MaxWord) \/ Clock(n, above) = None
    BY DEF Clock
  <2>3. \A above \in Int : Clock(n, above) \in None .. MaxWord
    BY <2>1, <2>2, FieldsHold
  <2> QED BY <2>3
<1>3. Bounded(n, MaxByte) \in None .. MaxByte
  BY DEF Bounded, Clamp, None, MaxByte
<1>4. Bounded(n, 1000) \in None .. 1000 /\ Bounded(n, 100) \in None .. 100
  BY DEF Bounded, Clamp, None
<1> QED BY <1>1, <1>2, <1>3, <1>4

\* The temperature decoded of any register fits a byte.
LEMMA DecodeTyped ==
  ASSUME NEW die \in Int, NEW reg \in Registers(die)
  PROVE  Decode(reg) \in None .. MaxByte
<1>1. CASE Decode(reg) = None
  BY <1>1, FieldsHold
<1>2. CASE Decode(reg) # None
  <2> DEFINE temp == reg.cur_tmp - (IF reg.range_sel \/ reg.tj_sel = 3 THEN 392 ELSE 0)
  <2>1. temp \in 8 .. 1000 /\ Decode(reg) = Clamp(Rounded(temp, 8), MaxByte)
    BY <1>2, DecodeByTemp DEF temp
  <2> HIDE DEF temp
  <2>2. Rounded(temp, 8) \in Int
    <3>1. temp \in Nat
      BY <2>1
    <3>2. \A n \in Nat : Rounded(n, 8) \in Nat
      BY RoundedIsNearest
    <3> QED BY <3>1, <3>2
  <2>3. Decode(reg) \in 0 .. MaxByte
    BY <2>1, <2>2, ClampBounded
  <2> QED BY <2>3, FieldsHold
<1> QED BY <1>1, <1>2

\* A load of PDH in whole percents fits its byte.
LEMMA WholeTyped ==
  ASSUME NEW load \in None .. 1000
  PROVE  Whole(load) \in None .. 100
  BY SMTT(40) DEF Whole, Rounded, None

\* HardwareMetrics of typed answers is typed: whatever source each field is from.
LEMMA MergedTyped ==
  ASSUME NEW pdh, NEW nvml, NEW temp, NEW base,
         pdh.power \in None .. MaxWord, pdh.clock \in None .. MaxWord, pdh.load \in None .. 1000,
         nvml.temp \in None .. MaxByte, nvml.power \in None .. MaxWord,
         nvml.clock \in None .. MaxWord, nvml.load \in None .. 100,
         temp \in None .. MaxByte,
         base.temp \in 0 .. MaxByte, base.load \in 0 .. 100,
         base.power \in 0 .. MaxWord, base.clock \in 0 .. MaxWord
  PROVE  /\ Merged(pdh, nvml, temp, base) \in [Fields -> 0 .. MaxWord]
         /\ \A f \in {"cpu_temp", "cpu_load", "gpu_temp", "gpu_load"} :
              Merged(pdh, nvml, temp, base)[f] <= MaxByte
<1> DEFINE m == Merged(pdh, nvml, temp, base)
<1>1. Whole(pdh.load) \in None .. 100
  BY WholeTyped
<1>2. /\ m.cpu_temp \in 0 .. MaxByte /\ m.cpu_load \in 0 .. 100
      /\ m.gpu_temp \in 0 .. MaxByte /\ m.gpu_load \in 0 .. 100
  BY SMTT(40), <1>1, MergedPrefers DEF None, MaxByte
<1>3. \A n \in None .. MaxWord : n # None => n \in 0 .. MaxWord
  BY DEF None
<1>4. /\ m.cpu_power_watts \in 0 .. MaxWord /\ m.cpu_clock_mhz \in 0 .. MaxWord
      /\ m.gpu_power_watts \in 0 .. MaxWord /\ m.gpu_clock_mhz \in 0 .. MaxWord
  <2>1. m.cpu_power_watts \in 0 .. MaxWord
    BY <1>3, MergedPrefers
  <2>2. m.cpu_clock_mhz \in 0 .. MaxWord
    BY <1>3, MergedPrefers
  <2>3. m.gpu_power_watts \in 0 .. MaxWord
    BY <1>3, MergedPrefers, FieldsHold
  <2>4. m.gpu_clock_mhz \in 0 .. MaxWord
    BY <1>3, MergedPrefers, FieldsHold
  <2> QED BY <2>1, <2>2, <2>3, <2>4
<1>5. /\ m = [f \in Fields |-> m[f]]
      /\ m.cpu_temp = m["cpu_temp"] /\ m.gpu_temp = m["gpu_temp"]
  BY DEF Merged, Fields
<1> HIDE DEF m
<1>6. \A f \in Fields : m[f] \in 0 .. MaxWord
  BY <1>2, <1>4, FieldsHold DEF Fields
<1>7. m \in [Fields -> 0 .. MaxWord]
  BY <1>5, <1>6
<1>8. \A n \in 0 .. MaxByte : n <= MaxByte
  BY DEF MaxByte
<1>9. \A f \in {"cpu_temp", "cpu_load", "gpu_temp", "gpu_load"} : m[f] <= MaxByte
  BY <1>2, <1>8, FieldsHold
<1> QED BY <1>7, <1>9 DEF m

\* What the parts of a machine and of a reading may be.
LEMMA MachineTypes ==
  ASSUME NEW m \in Machines
  PROVE  /\ m.counters \subseteq Counters /\ m.exports \subseteq Entries
         /\ m.layouts \subseteq Seq(Chips) /\ m.vendor \in {"amd", "intel", "other"}
         /\ m.os \in {"linux", "windows"}
  BY TelemetryAssumption

\* WindowsPdhMonitor::sample answers with values of its fields' types, or with None.
LEMMA PdhSampleTyped ==
  ASSUME TypeOK, NEW raw \in Readings, PdhSample("pdh" \in up, raw)
  PROVE  /\ pdh_answer'.power \in None .. MaxWord /\ pdh_answer'.clock \in None .. MaxWord
         /\ pdh_answer'.load \in None .. 1000
         /\ collected' \in BOOLEAN /\ counters' \subseteq Counters
<1>1. /\ Watts(raw.pdh_power) \in None .. MaxWord
      /\ Clock(raw.pdh_clock, 100) \in None .. MaxWord
      /\ Bounded(raw.pdh_load, 1000) \in None .. 1000
  BY SMTT(40), ReadingTypes, ConversionsTyped
<1>2. None \in None .. 1000
  BY DEF None
<1>3. collected' \in BOOLEAN /\ counters' \subseteq Counters
  BY DEF PdhSample, TypeOK, PdhTypeOK
<1>4. CASE collected' /\ has_collected_first_sample
  BY <1>1, <1>2, <1>3, <1>4, FieldsHold DEF PdhSample, Value
<1>5. CASE ~(collected' /\ has_collected_first_sample)
  <2>1. pdh_answer' = NoPdh
    BY <1>5 DEF PdhSample
  <2> QED BY <1>2, <1>3, <2>1, FieldsHold DEF NoPdh
<1> QED BY <1>4, <1>5

\* WindowsNvmlGpuMonitor::sample answers with values of its fields' types, or with None.
LEMMA NvmlSampleTyped ==
  ASSUME NEW raw \in Readings, NvmlSample("gpu" \in up, raw)
  PROVE  /\ nvml_answer'.temp \in None .. MaxByte /\ nvml_answer'.power \in None .. MaxWord
         /\ nvml_answer'.clock \in None .. MaxWord /\ nvml_answer'.load \in None .. 100
<1>1. /\ Bounded(raw.gpu_temp, MaxByte) \in None .. MaxByte
      /\ Watts(raw.gpu_power) \in None .. MaxWord
      /\ Clock(raw.gpu_clock, 0) \in None .. MaxWord
      /\ Bounded(raw.gpu_load, 100) \in None .. 100
  BY SMTT(40), ReadingTypes, ConversionsTyped
<1>2. None \in None .. 100
  BY DEF None
<1>3. CASE device_handle /\ "gpu" \in up
  BY <1>1, <1>2, <1>3, FieldsHold DEF NvmlSample, Get
<1>4. CASE ~(device_handle /\ "gpu" \in up)
  <2>1. nvml_answer' = NoNvml
    BY <1>4 DEF NvmlSample
  <2> QED BY <1>2, <2>1, FieldsHold DEF NoNvml
<1> QED BY <1>3, <1>4

\* find_hwmon_cpu_temp: an input at which the search stops, of a chip named as a CPU's,
\* or no path.
LEMMA FoundIsSensor ==
  ASSUME hwmon \in Seq(Chips), find_hwmon_cpu_temp # NoPath
  PROVE  LET path == find_hwmon_cpu_temp IN
         /\ path \in Nat \X Nat /\ path[1] \in DOMAIN hwmon /\ hwmon[path[1]].cpu
         /\ hwmon[path[1]].inputs[path[2]] # "absent"
<1> DEFINE found == {c \in DOMAIN hwmon : hwmon[c].cpu /\ Stops(hwmon[c]) # {}}
           chip == Min(found)
           input == Min(Stops(hwmon[chip]))
<1>1. found \subseteq Nat
  OBVIOUS
<1>2. found # {} /\ find_hwmon_cpu_temp = <<chip, input>>
  BY DEF find_hwmon_cpu_temp
<1>3. \A c \in found :
        c \in Nat /\ c \in DOMAIN hwmon /\ hwmon[c].cpu /\ Stops(hwmon[c]) # {}
  OBVIOUS
<1> HIDE DEF found
<1>4. chip \in found
  BY <1>1, <1>2, MinOfNaturals
<1> HIDE DEF chip
<1>5. Stops(hwmon[chip]) \subseteq Nat
  BY DEF Stops, Inputs
<1>6. input \in Stops(hwmon[chip])
  BY <1>3, <1>4, <1>5, MinOfNaturals
<1>7. hwmon[chip].inputs[input] # "absent"
  BY <1>6 DEF Stops
<1>8. input \in Nat
  BY <1>5, <1>6
<1> HIDE DEF input
<1> QED BY <1>2, <1>3, <1>4, <1>7, <1>8

\* The part of TypeOK that the inductive invariant says: what is held is counted.
Owned ==
  /\ query \in BOOLEAN /\ has_collected_first_sample \in BOOLEAN /\ handle \in BOOLEAN
  /\ queries \in Nat /\ collections \in 0 .. 2 /\ handles \in Nat /\ nvml_inits \in Nat
  /\ process \in {"gone", "sampling", "dropped"}

\* The invariant that holds after every step says so.
LEMMA InvariantOwns ==
  IInv' => Owned'
<1> SUFFICES ASSUME IInv' PROVE Owned'
  OBVIOUS
<1>1. Held' /\ Counted'
  BY DEF IInv
<1>2. query' \in BOOLEAN /\ handle' \in BOOLEAN /\ process' \in {"gone", "sampling", "dropped"}
  BY <1>1 DEF Held
<1>3. queries' \in Nat /\ handles' \in Nat /\ nvml_inits' \in Nat
  BY <1>1 DEF Held, ResourcesReleased
<1>4. has_collected_first_sample' \in BOOLEAN /\ collections' \in 0 .. 2
  BY <1>1 DEF Counted
<1> QED BY <1>2, <1>3, <1>4 DEF Owned

\* What has no answer yet is typed, and so are the metrics before the first sample.
LEMMA NothingTyped ==
  /\ NoPdh.power \in None .. MaxWord /\ NoPdh.clock \in None .. MaxWord
  /\ NoPdh.load \in None .. 1000
  /\ NoNvml.temp \in None .. MaxByte /\ NoNvml.power \in None .. MaxWord
  /\ NoNvml.clock \in None .. MaxWord /\ NoNvml.load \in None .. 100
  /\ None \in None .. MaxByte
  /\ NoMetrics \in [Fields -> 0 .. MaxWord]
  /\ \A f \in {"cpu_temp", "cpu_load", "gpu_temp", "gpu_load"} : NoMetrics[f] <= MaxByte
  /\ NoReading \in Readings
  /\ NoPath \in Nat \X Nat
<1>1. None \in None .. 1000 /\ None \in None .. 100 /\ 0 <= MaxByte
  BY DEF None, MaxByte
<1>2. \A f \in {"cpu_temp", "cpu_load", "gpu_temp", "gpu_load"} : NoMetrics[f] = 0
  BY DEF NoMetrics, Fields
<1>3. NoMetrics \in [Fields -> 0 .. MaxWord]
  BY FieldsHold DEF NoMetrics
<1>4. NoReading \in Readings
  BY TelemetryAssumption DEF NoReading
<1>5. NoPath \in Nat \X Nat
  BY DEF NoPath
<1>6. /\ NoPdh.power = None /\ NoPdh.clock = None /\ NoPdh.load = None
      /\ NoNvml.temp = None /\ NoNvml.power = None
      /\ NoNvml.clock = None /\ NoNvml.load = None
  BY DEF NoPdh, NoNvml
<1>7. \A f \in {"cpu_temp", "cpu_load", "gpu_temp", "gpu_load"} : NoMetrics[f] <= MaxByte
  BY <1>1, <1>2
<1> QED BY <1>1, <1>3, <1>4, <1>5, <1>6, <1>7, FieldsHold

\* Before New every variable has a value of its type.
LEMMA InitTyped ==
  Init => TypeOK
<1> SUFFICES ASSUME Init PROVE TypeOK
  OBVIOUS
<1>1. PdhTypeOK
  <2>1. PdhNone
    BY DEF Init
  <2>2. query \in BOOLEAN /\ has_collected_first_sample \in BOOLEAN /\ collected \in BOOLEAN
    BY <2>1 DEF PdhNone
  <2>3. counters = {} /\ pdh_answer = NoPdh /\ queries = 0 /\ collections = 0
    BY <2>1 DEF PdhNone
  <2> QED BY <2>2, <2>3, NothingTyped DEF PdhTypeOK
<1>2. NvmlTypeOK
  BY ZenonT(60), NothingTyped DEF Init, NvmlNone, NvmlTypeOK
<1>3. PawnTypeOK
  BY ZenonT(60), NothingTyped DEF Init, PawnNone, PawnTypeOK
<1>4. LinuxTypeOK
  <2>1. hwmon \in machine.layouts /\ machine.layouts \subseteq Seq(Chips)
    BY MachineTypes DEF Init
  <2> QED BY ZenonT(60), <2>1, NothingTyped DEF Init, LinuxTypeOK
<1>5. /\ machine \in Machines /\ process \in {"gone", "sampling", "dropped"}
      /\ up \subseteq {"pdh", "gpu"} /\ sampled \in BOOLEAN /\ hw \in Readings
  BY ZenonT(60), NothingTyped DEF Init
<1>6. metrics = NoMetrics
  BY DEF Init
<1> QED BY <1>1, <1>2, <1>3, <1>4, <1>5, <1>6, NothingTyped DEF TypeOK

\* SystemTelemetry::new, on either platform.
LEMMA NewTyped ==
  ASSUME TypeOK, Owned', New
  PROVE  TypeOK'
<1>1. /\ machine \in Machines /\ machine' = machine
      /\ UNCHANGED <<up, sampled, hw, metrics>>
  BY DEF New, TypeOK
<1>2. CASE Windows
  <2>1. /\ PdhNew(machine.counters, "pdh" \in up)
        /\ NvmlNew(machine.gpu, machine.exports)
        /\ PawnNew(machine.vendor)
        /\ UNCHANGED linuxVars
    BY <1>2 DEF New
  <2>2. PdhTypeOK'
    <3>1. counters' \subseteq Counters /\ pdh_answer' = NoPdh /\ collected' = FALSE
      BY <1>1, <2>1, MachineTypes DEF PdhNew
    <3> QED BY ZenonT(60), <3>1, NothingTyped DEF PdhTypeOK, Owned
  <2>3. NvmlTypeOK'
    <3>1. device_handle' \in BOOLEAN /\ entries' \subseteq Entries /\ nvml_answer' = NoNvml
      BY <1>1, <2>1, MachineTypes DEF NvmlNew
    <3> QED BY <3>1, NothingTyped DEF NvmlTypeOK, Owned
  <2>4. PawnTypeOK'
    <3>1. Loaded(machine.vendor) \in {"none", "amd", "intel"}
      BY <1>1, MachineTypes DEF Loaded
    <3>2. module \in {"none", "amd", "intel"} /\ driver \in {"absent", "refusing", "ready"}
      BY DEF TypeOK, PawnTypeOK
    <3>3. module' \in {"none", "amd", "intel"} /\ driver' = driver /\ pawn_temp' = None
      BY <2>1, <3>1, <3>2 DEF PawnNew, try_connect
    <3> QED BY <3>2, <3>3, NothingTyped DEF PawnTypeOK, Owned
  <2>5. LinuxTypeOK'
    BY <2>1 DEF TypeOK, LinuxTypeOK, linuxVars
  <2> QED BY <1>1, <2>2, <2>3, <2>4, <2>5 DEF TypeOK, Owned
<1>3. CASE ~Windows
  <2>1. LinuxNew /\ UNCHANGED <<pdhVars, nvmlVars, pawnVars>>
    BY <1>3 DEF New
  <2>2. PdhTypeOK' /\ NvmlTypeOK' /\ PawnTypeOK'
    BY <2>1 DEF TypeOK, PdhTypeOK, NvmlTypeOK, PawnTypeOK, pdhVars, nvmlVars, pawnVars
  <2>3. LinuxTypeOK'
    <3>1. hwmon \in Seq(Chips)
      BY DEF TypeOK, LinuxTypeOK
    <3>2. find_hwmon_cpu_temp \in Nat \X Nat
      BY SMTT(40), <3>1, FoundIsSensor, NothingTyped
    <3> QED BY <2>1, <3>1, <3>2 DEF LinuxNew, LinuxTypeOK
  <2> QED BY <1>1, <2>2, <2>3 DEF TypeOK, Owned
<1> QED BY <1>2, <1>3

\* SystemTelemetry::sample: HardwareMetrics of u8 and u16, whatever is reported.
LEMMA SampleTyped ==
  ASSUME TypeOK, Owned', Sample
  PROVE  TypeOK'
<1>1. PICK raw \in Readings :
        /\ hw' = raw
        /\ IF Windows
             THEN /\ PdhSample("pdh" \in up, raw)
                  /\ NvmlSample("gpu" \in up, raw)
                  /\ PawnTemp(machine.vendor, raw.die)
             ELSE UNCHANGED <<pdhVars, nvmlVars, pawnVars>>
        /\ metrics' = Merged(pdh_answer', nvml_answer', pawn_temp', Base(raw))
  BY DEF Sample
<1>2. sampled' = TRUE /\ UNCHANGED <<linuxVars, machine, process, up>>
  BY DEF Sample
<1>3. PdhTypeOK' /\ NvmlTypeOK' /\ PawnTypeOK'
  <2>1. CASE Windows
    <3>1. PdhSample("pdh" \in up, raw) /\ NvmlSample("gpu" \in up, raw)
          /\ PawnTemp(machine.vendor, raw.die)
      BY <1>1, <2>1
    <3>2. PdhTypeOK'
      BY <3>1, PdhSampleTyped DEF PdhTypeOK, Owned
    <3>3. NvmlTypeOK'
      <4>1. device_handle' \in BOOLEAN /\ entries' \subseteq Entries
        BY <3>1 DEF NvmlSample, TypeOK, NvmlTypeOK
      <4> QED BY <3>1, <4>1, NvmlSampleTyped DEF NvmlTypeOK, Owned
    <3>4. PawnTypeOK'
      <4>1. Loaded(machine.vendor) \in {"none", "amd", "intel"}
        BY MachineTypes DEF Loaded, TypeOK
      <4>2. module \in {"none", "amd", "intel"} /\ driver \in {"absent", "refusing", "ready"}
        BY DEF TypeOK, PawnTypeOK
      <4>3. module' \in {"none", "amd", "intel"} /\ driver' = driver
        BY <3>1, <4>1, <4>2 DEF PawnTemp, try_connect
      <4>4. pawn_temp' = None \/ \E reg \in Registers(raw.die) : pawn_temp' = Decode(reg)
        BY <3>1 DEF PawnTemp
      <4>5. pawn_temp' \in None .. MaxByte
        BY <4>4, ReadingTypes, DecodeTyped, NothingTyped
      <4> QED BY <4>2, <4>3, <4>5 DEF PawnTypeOK, Owned
    <3> QED BY <3>2, <3>3, <3>4
  <2>2. CASE ~Windows
    BY <1>1, <2>2
    DEF TypeOK, PdhTypeOK, NvmlTypeOK, PawnTypeOK, pdhVars, nvmlVars, pawnVars
  <2> QED BY <2>1, <2>2
<1>4. LinuxTypeOK'
  BY <1>2 DEF TypeOK, LinuxTypeOK, linuxVars
<1>5. /\ metrics' \in [Fields -> 0 .. MaxWord]
      /\ \A f \in {"cpu_temp", "cpu_load", "gpu_temp", "gpu_load"} : metrics'[f] <= MaxByte
  <2>1. /\ pdh_answer'.power \in None .. MaxWord /\ pdh_answer'.clock \in None .. MaxWord
        /\ pdh_answer'.load \in None .. 1000
        /\ nvml_answer'.temp \in None .. MaxByte /\ nvml_answer'.power \in None .. MaxWord
        /\ nvml_answer'.clock \in None .. MaxWord /\ nvml_answer'.load \in None .. 100
        /\ pawn_temp' \in None .. MaxByte
    BY <1>3 DEF PdhTypeOK, NvmlTypeOK, PawnTypeOK
  <2>2. /\ Base(raw).temp \in 0 .. MaxByte /\ Base(raw).load \in 0 .. 100
        /\ Base(raw).power \in 0 .. MaxWord /\ Base(raw).clock \in 0 .. MaxWord
    BY BaseTyped
  <2> DEFINE pdh == pdh_answer'
             nvml == nvml_answer'
             temp == pawn_temp'
             base == Base(raw)
  <2>3. metrics' = Merged(pdh, nvml, temp, base)
    BY <1>1
  <2> HIDE DEF pdh, nvml, temp, base
  <2>4. /\ Merged(pdh, nvml, temp, base) \in [Fields -> 0 .. MaxWord]
        /\ \A f \in {"cpu_temp", "cpu_load", "gpu_temp", "gpu_load"} :
             Merged(pdh, nvml, temp, base)[f] <= MaxByte
    BY <2>1, <2>2, MergedTyped DEF pdh, nvml, temp, base
  <2> QED BY <2>3, <2>4
<1> QED BY <1>1, <1>2, <1>3, <1>4, <1>5 DEF TypeOK, Owned

\* Drops and the end of the process.
LEMMA EndTyped ==
  ASSUME TypeOK, Owned', Drop \/ Exit
  PROVE  TypeOK'
<1>1. /\ machine' = machine /\ up' = up /\ UNCHANGED <<hwmon, renumbered>>
      /\ direct_sensor_path' \in {direct_sensor_path, NoPath}
      /\ sampled' \in {sampled, FALSE} /\ hw' \in {hw, NoReading}
      /\ metrics' \in {metrics, NoMetrics}
  BY DEF Drop, Exit, linuxVars
<1>2. /\ counters' \in {counters, {}} /\ pdh_answer' \in {pdh_answer, NoPdh}
      /\ collected' \in {collected, FALSE}
  BY DEF Drop, Exit, PdhDrop, PdhEnd, pdhVars
<1>3. /\ device_handle' \in {device_handle, FALSE} /\ entries' \in {entries, {}}
      /\ nvml_answer' \in {nvml_answer, NoNvml}
  BY DEF Drop, Exit, NvmlDrop, NvmlEnd, nvmlVars
<1>4. /\ module' \in {module, "none"} /\ pawn_temp' \in {pawn_temp, None} /\ driver' = driver
  BY DEF Drop, Exit, PawnDrop, PawnEnd, pawnVars
<1>5. PdhTypeOK'
  <2>1. PdhTypeOK
    BY DEF TypeOK
  <2>2. collected' \in BOOLEAN
    BY ZenonT(60), <1>2, <2>1 DEF PdhTypeOK
  <2>3. counters' \subseteq Counters
    BY <1>2, <2>1 DEF PdhTypeOK
  <2>4. /\ pdh_answer'.power \in None .. MaxWord /\ pdh_answer'.clock \in None .. MaxWord
        /\ pdh_answer'.load \in None .. 1000
    BY <1>2, <2>1, NothingTyped DEF PdhTypeOK
  <2> QED BY <2>2, <2>3, <2>4 DEF PdhTypeOK, Owned
<1>6. NvmlTypeOK'
  BY ZenonT(60), <1>3, NothingTyped DEF TypeOK, NvmlTypeOK, Owned
<1>7. PawnTypeOK'
  BY <1>4, NothingTyped DEF TypeOK, PawnTypeOK, Owned
<1>8. LinuxTypeOK'
  <2>1. LinuxTypeOK /\ NoPath \in Nat \X Nat
    BY NothingTyped DEF TypeOK
  <2>2. direct_sensor_path' \in Nat \X Nat
    BY <1>1, <2>1 DEF LinuxTypeOK
  <2> QED BY <1>1, <2>1, <2>2 DEF LinuxTypeOK
<1>9. /\ metrics' \in [Fields -> 0 .. MaxWord]
      /\ \A f \in {"cpu_temp", "cpu_load", "gpu_temp", "gpu_load"} : metrics'[f] <= MaxByte
  BY <1>1, NothingTyped DEF TypeOK
<1> QED BY ZenonT(60), <1>1, <1>5, <1>6, <1>7, <1>8, <1>9, NothingTyped DEF TypeOK, Owned

\* The machine: sources that come and go, the driver, the chips.
LEMMA MachineTyped ==
  ASSUME TypeOK, Owned', Flicker \/ Install \/ Reload \/ UNCHANGED vars
  PROVE  TypeOK'
<1>1. UNCHANGED <<pdhVars, nvmlVars, handle, module, pawn_temp, handles, direct_sensor_path,
                  machine, process, sampled, hw, metrics>>
  BY DEF Flicker, Install, Reload, DriverChanges, Renumber, vars, monitorVars, pawnVars, linuxVars
<1>2. up' \subseteq {"pdh", "gpu"}
  BY DEF Flicker, Install, Reload, vars, TypeOK
<1>3. driver' \in {"absent", "refusing", "ready"}
  BY DEF Flicker, Install, Reload, DriverChanges, vars, monitorVars, pawnVars, TypeOK, PawnTypeOK
<1>4. hwmon' \in Seq(Chips) /\ renumbered' \in BOOLEAN
  <2>1. machine.layouts \subseteq Seq(Chips)
    BY MachineTypes DEF TypeOK
  <2> QED BY <2>1
      DEF Flicker, Install, Reload, Renumber, vars, monitorVars, linuxVars, TypeOK, LinuxTypeOK
<1>5. PdhTypeOK' /\ NvmlTypeOK'
  BY <1>1 DEF TypeOK, PdhTypeOK, NvmlTypeOK, pdhVars, nvmlVars
<1>6. PawnTypeOK' /\ LinuxTypeOK'
  BY <1>1, <1>3, <1>4 DEF TypeOK, PawnTypeOK, LinuxTypeOK
<1> QED BY <1>1, <1>2, <1>5, <1>6 DEF TypeOK

\* Every variable keeps to its type, on every machine and for every reading: no metric
\* of any sample overflows the u8 or u16 it is sent in.
THEOREM TypeCorrect == Spec => []TypeOK
<1>1. Init => TypeOK
  BY InitTyped
<1>2. TypeOK /\ Owned' /\ [Next]_vars => TypeOK'
  BY NewTyped, SampleTyped, EndTyped, MachineTyped DEF Next
<1>3. TypeOK /\ IInv' /\ [Next]_vars => TypeOK'
  BY <1>2, InvariantOwns
<1> QED BY <1>1, <1>3, TelemetryInvariant, PTL DEF Spec

-----------------------------------------------------------------------------
(* The sensor of the CPU *)

\* The path is one of a Linux process that runs, and until the chips are renumbered it
\* leads to an input of a chip named as a CPU's.
Sensed ==
  /\ direct_sensor_path # NoPath => ~Windows /\ process # "gone"
  /\ direct_sensor_path # NoPath /\ ~renumbered =>
       /\ direct_sensor_path[1] \in DOMAIN hwmon /\ hwmon[direct_sensor_path[1]].cpu
       /\ hwmon[direct_sensor_path[1]].inputs[direct_sensor_path[2]] # "absent"

\* No step but new() and the end of the process changes the path; none but new() says
\* that the chips are numbered as it found them.
LEMMA SensedHolds ==
  ASSUME TypeOK, Sensed, [Next]_vars
  PROVE  Sensed'
<1>1. CASE New
  <2>1. process' = "sampling" /\ machine' = machine
    BY <1>1 DEF New
  <2>2. CASE Windows
    <3>1. process = "gone" /\ UNCHANGED linuxVars
      BY <1>1, <2>2 DEF New
    <3>2. direct_sensor_path' = NoPath
      BY <3>1 DEF Sensed, linuxVars
    <3> QED BY <3>2 DEF Sensed
  <2>3. CASE ~Windows
    <3>1. direct_sensor_path' = find_hwmon_cpu_temp /\ hwmon' = hwmon
      BY <1>1, <2>3 DEF New, LinuxNew
    <3>2. hwmon \in Seq(Chips)
      BY DEF TypeOK, LinuxTypeOK
    <3>3. ~Windows' /\ process' # "gone"
      BY <2>1, <2>3 DEF Windows
    <3> QED BY <3>1, <3>2, <3>3, FoundIsSensor DEF Sensed
  <2> QED BY <2>2, <2>3
<1>2. CASE Exit
  BY <1>2 DEF Exit, Sensed
<1>3. CASE Reload
  <2>1. renumbered' = TRUE /\ UNCHANGED <<direct_sensor_path, machine, process>>
    BY <1>3 DEF Reload, Renumber
  <2> QED BY <2>1 DEF Sensed, Windows
<1>4. CASE Sample \/ Drop \/ Flicker \/ Install \/ UNCHANGED vars
  <2>1. UNCHANGED <<direct_sensor_path, hwmon, renumbered, machine>>
    BY <1>4 DEF Sample, Drop, Flicker, Install, vars, monitorVars, linuxVars
  <2>2. process' = "gone" => process = "gone"
    BY <1>4 DEF Sample, Drop, Flicker, Install, vars
  <2> QED BY <2>1, <2>2 DEF Sensed, Windows
<1> QED BY <1>1, <1>2, <1>3, <1>4 DEF Next

\* A sample of a process whose path leads to the sensor shows that sensor, in whole
\* degrees; every other step shows what was shown.
LEMMA SensorHolds ==
  ASSUME TypeOK, IInv, IInv', Sensed, CpuSensorShown, [Next]_vars
  PROVE  CpuSensorShown'
<1>1. CASE Sample
  <2> SUFFICES ASSUME direct_sensor_path' # NoPath, ~renumbered',
                      hw'.cpu_milli \div 1000 \in 0 .. MaxByte
               PROVE  hw'.cpu_milli - 1000 * metrics'.cpu_temp \in 0 .. 999
    BY SMTT(90) DEF CpuSensorShown
  <2>1. PICK raw \in Readings :
          hw' = raw /\ metrics' = Merged(pdh_answer', nvml_answer', pawn_temp', Base(raw))
    BY <1>1 DEF Sample
  <2>2. UNCHANGED <<direct_sensor_path, hwmon, renumbered, machine>>
    BY <1>1 DEF Sample, linuxVars
  <2>3. ~Windows /\ direct_sensor_path # NoPath /\ MilliC(raw) = raw.cpu_milli
    BY <2>1, <2>2 DEF Sensed, MilliC
  <2>4. pawn_temp' = None
    <3>1. ~Windows' /\ Silent'
      BY <2>2, <2>3 DEF Windows, IInv
    <3> QED BY <3>1 DEF Silent
  <2>5. metrics'.cpu_temp = LinuxTemp(raw)
    <3>1. metrics'.cpu_temp = Base(raw).temp
      BY <2>1, <2>4, MergedPrefers
    <3> QED BY <2>3, <3>1 DEF Base
  <2>6. raw.cpu_milli \in Int /\ raw.cpu_milli \div 1000 \in 0 .. MaxByte
    BY <2>1, TelemetryAssumption
  <2>7. LinuxTemp(raw) = raw.cpu_milli \div 1000
    <3>1. raw.cpu_milli # Failed
      BY <2>6 DEF Failed
    <3>2. Clamp(raw.cpu_milli \div 1000, MaxByte) = raw.cpu_milli \div 1000
      BY SMTT(60), <2>6 DEF Clamp, MaxByte
    <3> QED BY <2>3, <3>1, <3>2 DEF LinuxTemp
  <2>8. raw.cpu_milli - 1000 * (raw.cpu_milli \div 1000) \in 0 .. 999
    <3> DEFINE n == raw.cpu_milli
    <3>1. n \in Int
      BY <2>6
    <3> HIDE DEF n
    <3>2. n - 1000 * (n \div 1000) \in 0 .. 999
      BY <3>1
    <3> QED BY SMTT(90), <3>2 DEF n
  <2> QED BY SMTT(90), <2>1, <2>5, <2>7, <2>8
<1>2. CASE New
  <2>1. ~sampled'
    BY SMTT(60), <1>2 DEF New, IInv, Silent
  <2> QED BY SMTT(90), <2>1 DEF CpuSensorShown
<1>3. CASE Exit
  BY SMTT(60), <1>3 DEF Exit, CpuSensorShown
<1>4. CASE Reload
  BY <1>4 DEF Reload, Renumber, CpuSensorShown
<1>5. CASE Drop \/ Flicker \/ Install \/ UNCHANGED vars
  <2>1. UNCHANGED <<direct_sensor_path, renumbered, sampled, hw, metrics>>
    BY <1>5 DEF Drop, Flicker, Install, vars, monitorVars, linuxVars
  <2> QED BY SMTT(90), <2>1 DEF CpuSensorShown
<1> QED BY SMTT(60), <1>1, <1>2, <1>3, <1>4, <1>5 DEF Next

\* The path found by new() leads every sample of that process to a sensor of the CPU,
\* on any machine and in any directory of chips, until the chips are numbered anew.
THEOREM CpuSensorCorrect == Spec => []CpuSensorShown
<1>1. Init => Sensed /\ CpuSensorShown
  BY DEF Init, Sensed, CpuSensorShown
<1>2. TypeOK /\ Sensed /\ [Next]_vars => Sensed'
  BY SensedHolds
<1>3. TypeOK /\ IInv /\ IInv' /\ Sensed /\ CpuSensorShown /\ [Next]_vars => CpuSensorShown'
  BY SensorHolds
<1> QED BY <1>1, <1>2, <1>3, TypeCorrect, TelemetryInvariant, PTL DEF Spec

-----------------------------------------------------------------------------
(* Every metric *)

\* The hottest component as it is shown, to the nearest degree.
LEMMA BestTempNearest ==
  ASSUME NEW raw \in Readings
  PROVE  10 * BestTemp(raw.components) - AtMost(Max({0} \cup raw.components), 10 * MaxByte)
           \in -5 .. 5
<1> DEFINE All == {0} \cup raw.components
           hottest == Max(All)
           r == Rounded(hottest, 10)
<1>1. raw.components \in SUBSET Int /\ IsFiniteSet(raw.components)
  BY TelemetryAssumption
<1>2. All \in SUBSET Int /\ IsFiniteSet(All) /\ 0 \in All
  BY <1>1, FS_AddElement
<1>3. BestTemp(raw.components) = Clamp(r, MaxByte)
  BY DEF BestTemp
<1> HIDE DEF All
<1>4. hottest \in Nat
  <2>1. hottest \in Int /\ 0 <= hottest
    BY <1>2, MaxOfIntegers
  <2> QED BY <2>1
<1> HIDE DEF hottest
<1>5. r \in Nat /\ 10 * r - hottest \in -5 .. 5
  BY <1>4, RoundedIsNearest
<1> HIDE DEF r
<1>6. 10 * Clamp(r, MaxByte) - AtMost(hottest, 10 * MaxByte) \in -5 .. 5
  BY <1>4, <1>5 DEF Clamp, AtMost, MaxByte
<1> QED BY <1>3, <1>6 DEF All, hottest

\* Division of naturals leaves less than the divisor.
LEMMA DivisionRemains ==
  ASSUME NEW a \in Nat, NEW n \in Nat, n > 0
  PROVE  (a \div n) \in Nat /\ a - (a \div n) * n \in 0 .. (n - 1)
<1>1. a = n * (a \div n) + (a % n) /\ a % n \in 0 .. (n - 1) /\ (a \div n) \in Nat
  OBVIOUS
<1> DEFINE q == a \div n
           rest == a % n
<1> HIDE DEF q, rest
<1>2. a = n * q + rest /\ rest \in 0 .. (n - 1) /\ q \in Nat
  BY <1>1 DEF q, rest
<1>3. a - q * n = rest
  <2>1. q * n = n * q /\ n * q \in Nat
    BY <1>2
  <2> QED BY <1>2, <2>1
<1> QED BY <1>2, <1>3 DEF q

\* The average of cpu_freq.rs is that of the clocks it adds up.
LEMMA AverageFreqIsAverage ==
  ASSUME NEW cpus \in Seq(Nat)
  PROVE  IsAverage(AverageFreq(cpus), cpus)
<1>1. /\ IsFiniteSet(DOMAIN cpus) /\ Cardinality(DOMAIN cpus) = Len(cpus)
      /\ cpus \in [DOMAIN cpus -> Nat] /\ Len(cpus) \in Nat
      /\ DOMAIN cpus = {} <=> cpus = <<>>
  <2>1. /\ Len(cpus) \in Nat /\ DOMAIN cpus = 1 .. Len(cpus)
        /\ cpus \in [1 .. Len(cpus) -> Nat]
    OBVIOUS
  <2>2. \A n \in Nat : IsFiniteSet(1 .. n) /\ Cardinality(1 .. n) = n
    BY FS_Interval
  <2>3. DOMAIN cpus = {} <=> cpus = <<>>
    <3>1. DOMAIN cpus = {} <=> Len(cpus) = 0
      BY <2>1
    <3>2. Len(cpus) = 0 <=> cpus = <<>>
      OBVIOUS
    <3> QED BY <3>1, <3>2
  <2> QED BY <2>1, <2>2, <2>3
<1>2. CASE cpus = <<>>
  BY <1>1, <1>2 DEF AverageFreq, IsAverage
<1>3. CASE cpus # <<>>
  <2> DEFINE total == SumFunction(cpus)
             n == Len(cpus)
             mean == total \div n
  <2>1. total \in Nat
    BY <1>1, SumIsNatural
  <2>2. n \in Nat /\ n > 0
    BY <1>1, <1>3
  <2>3. AverageFreq(cpus) = Clamp(mean, MaxWord)
    BY <1>1, <1>3 DEF AverageFreq
  <2>4. IsAverage(AverageFreq(cpus), cpus) <=>
          \/ total - AverageFreq(cpus) * n \in 0 .. (n - 1)
          \/ AverageFreq(cpus) = MaxWord /\ total > MaxWord * n
    BY <1>3 DEF IsAverage
  <2> HIDE DEF total, n
  <2>5. mean \in Nat /\ total - mean * n \in 0 .. (n - 1)
    BY <2>1, <2>2, DivisionRemains
  <2> HIDE DEF mean
  <2>6. CASE mean <= MaxWord
    <3>1. AverageFreq(cpus) = mean
      BY <2>3, <2>5, <2>6 DEF Clamp, MaxWord
    <3> QED BY <2>4, <2>5, <3>1
  <2>7. CASE mean > MaxWord
    <3>1. AverageFreq(cpus) = MaxWord
      BY <2>3, <2>5, <2>7 DEF Clamp, MaxWord
    <3>2. mean * n >= MaxWord * n + n
      <4>1. PICK d \in Nat : mean = MaxWord + 1 + d
        <5>1. mean - MaxWord - 1 \in Nat /\ mean = MaxWord + 1 + (mean - MaxWord - 1)
          BY <2>5, <2>7 DEF MaxWord
        <5> QED BY <5>1
      <4>2. (MaxWord + 1 + d) * n = MaxWord * n + n + d * n
        BY <2>2, <4>1 DEF MaxWord
      <4>3. d * n \in Nat /\ MaxWord * n \in Nat
        BY <2>2, <4>1 DEF MaxWord
      <4> QED BY <2>2, <4>1, <4>2, <4>3
    <3>3. mean * n \in Nat /\ MaxWord * n \in Nat
      BY <2>2, <2>5 DEF MaxWord
    <3>4. total > MaxWord * n
      BY <2>1, <2>2, <2>5, <3>2, <3>3
    <3> QED BY <2>4, <3>1, <3>4
  <2> QED BY <2>5, <2>6, <2>7 DEF MaxWord
<1> QED BY <1>2, <1>3

\* Millidegrees as cpu_temp.rs divides and clamps them.
LEMMA DegreesShown ==
  ASSUME NEW milli \in Int
  PROVE  InWholeDegrees(Clamp(milli \div 1000, MaxByte), milli)
  BY DEF Clamp, InWholeDegrees, MaxByte

\* Kilohertz as cpu_freq.rs divides and clamps them.
LEMMA MegahertzShown ==
  ASSUME NEW khz \in Nat
  PROVE  InWholeMegahertz(Clamp(khz \div 1000, MaxWord), khz)
  BY DEF InWholeMegahertz, Clamp, MaxWord

\* What the sensors and the clocks are shown as.
SourcesShown == sampled => TemperatureIsReading /\ ClockIsReading

\* A sample shows the temperature of the source the code prefers, and its clock; every
\* other step leaves both, or ends the process.
LEMMA SourcesHold ==
  ASSUME TypeOK, IInv, IInv', Sensed, SourcesShown, [Next]_vars
  PROVE  SourcesShown'
<1>1. CASE Sample
  <2>1. PICK raw \in Readings :
          /\ hw' = raw
          /\ Windows => PdhSample("pdh" \in up, raw)
          /\ metrics' = Merged(pdh_answer', nvml_answer', pawn_temp', Base(raw))
    BY <1>1 DEF Sample
  <2>2. UNCHANGED <<direct_sensor_path, hwmon, renumbered, machine>> /\ Windows' = Windows
    BY <1>1 DEF Sample, linuxVars, Windows
  <2>3. /\ metrics'.cpu_temp = IF pawn_temp' = None THEN Base(raw).temp ELSE pawn_temp'
        /\ metrics'.cpu_clock_mhz =
             IF pdh_answer'.clock = None THEN Base(raw).clock ELSE pdh_answer'.clock
    BY <2>1, MergedPrefers
  <2>4. /\ Base(raw).temp = (IF Windows THEN BestTemp(raw.components) ELSE LinuxTemp(raw))
        /\ Base(raw).clock = (IF Windows THEN AverageFreq(raw.cpus) ELSE LinuxFreq(raw))
    BY DEF Base
  <2>5. /\ raw.cpu_milli \in Int /\ raw.cpus \in Seq(Nat)
        /\ raw.khz # Failed => raw.khz \in Nat
    BY TelemetryAssumption
  <2>6. TemperatureIsReading'
    <3>1. pawn_temp' # None => 8 * metrics'.cpu_temp - hw'.die \in -4 .. 4
      BY DEF IInv, DieTemperatureShown
    <3>2. ASSUME pawn_temp' = None, direct_sensor_path # NoPath, ~renumbered
          PROVE  /\ raw.cpu_milli # Failed => metrics'.cpu_temp = Clamp(raw.cpu_milli \div 1000, MaxByte)
                 /\ raw.cpu_milli = Failed => metrics'.cpu_temp = BestTemp(raw.components)
      <4>1. ~Windows /\ MilliC(raw) = raw.cpu_milli
        BY <3>2 DEF Sensed, MilliC
      <4> QED BY <2>3, <2>4, <3>2, <4>1 DEF LinuxTemp
    <3>3. ASSUME pawn_temp' = None, direct_sensor_path = NoPath
          PROVE  metrics'.cpu_temp = BestTemp(raw.components)
      BY <2>3, <2>4, <3>3 DEF LinuxTemp
    <3>4. pawn_temp' = None /\ direct_sensor_path' # NoPath /\ ~renumbered' /\ hw'.cpu_milli # Failed
            => InWholeDegrees(metrics'.cpu_temp, hw'.cpu_milli)
      <4>1. InWholeDegrees(Clamp(raw.cpu_milli \div 1000, MaxByte), raw.cpu_milli)
        <5>1. raw.cpu_milli \in Int
          BY <2>5
        <5> QED BY <5>1, DegreesShown
      <4> QED BY <2>1, <2>2, <3>2, <4>1
    <3>5. 10 * BestTemp(raw.components) - AtMost(Max({0} \cup raw.components), 10 * MaxByte)
            \in -5 .. 5
      BY BestTempNearest
    <3>6. pawn_temp' = None
            /\ (direct_sensor_path' = NoPath \/ (~renumbered' /\ hw'.cpu_milli = Failed))
            => 10 * metrics'.cpu_temp - AtMost(Max({0} \cup hw'.components), 10 * MaxByte) \in -5 .. 5
      <4> SUFFICES ASSUME pawn_temp' = None,
                          direct_sensor_path' = NoPath \/ (~renumbered' /\ hw'.cpu_milli = Failed)
                   PROVE  10 * metrics'.cpu_temp - AtMost(Max({0} \cup hw'.components), 10 * MaxByte)
                            \in -5 .. 5
        OBVIOUS
      <4>1. metrics'.cpu_temp = BestTemp(raw.components)
        BY <2>1, <2>2, <3>2, <3>3
      <4> QED BY <2>1, <3>5, <4>1
    <3> QED BY <3>1, <3>4, <3>6 DEF TemperatureIsReading
  <2>7. ClockIsReading'
    <3>1. CASE Windows /\ pdh_answer'.clock # None
      BY <2>1, <2>2, <2>3, <3>1, PdhAnswers DEF ClockIsReading
    <3>2. CASE Windows /\ pdh_answer'.clock = None
      BY <2>1, <2>2, <2>3, <2>4, <2>5, <3>2, AverageFreqIsAverage DEF ClockIsReading
    <3>3. CASE ~Windows
      <4>1. pdh_answer'.clock = None
        BY <2>2, <3>3 DEF IInv, Silent, NoPdh
      <4>2. metrics'.cpu_clock_mhz = LinuxFreq(raw)
        BY <2>3, <2>4, <3>3, <4>1
      <4>3. CASE raw.khz # Failed
        <5>1. InWholeMegahertz(Clamp(raw.khz \div 1000, MaxWord), raw.khz)
          <6>1. raw.khz \in Nat
            BY <2>5, <4>3
          <6> QED BY <6>1, MegahertzShown
        <5>2. metrics'.cpu_clock_mhz = Clamp(raw.khz \div 1000, MaxWord)
          BY <4>2, <4>3 DEF LinuxFreq
        <5> QED BY <2>1, <2>2, <3>3, <4>1, <4>3, <5>1, <5>2 DEF ClockIsReading
      <4>4. CASE raw.khz = Failed
        BY <2>1, <2>2, <2>5, <3>3, <4>1, <4>2, <4>4, AverageFreqIsAverage
           DEF ClockIsReading, LinuxFreq
      <4> QED BY <4>3, <4>4
    <3> QED BY <3>1, <3>2, <3>3
  <2> QED BY <2>6, <2>7 DEF SourcesShown
<1>2. CASE New
  BY <1>2 DEF New, IInv, Silent, SourcesShown
<1>3. CASE Exit
  BY <1>3 DEF Exit, SourcesShown
<1>4. CASE Drop \/ Flicker \/ Install \/ Reload \/ UNCHANGED vars
  <2>1. UNCHANGED <<direct_sensor_path, machine, sampled, hw, metrics, pdh_answer, pawn_temp>>
        /\ (renumbered' = renumbered \/ renumbered')
    BY <1>4 DEF Drop, Flicker, Install, Reload, Renumber, DriverChanges, PdhDrop, PawnDrop, vars,
       monitorVars, pdhVars, pawnVars, linuxVars
  <2> QED BY <2>1 DEF SourcesShown, TemperatureIsReading, ClockIsReading, Windows
<1> QED BY <1>1, <1>2, <1>3, <1>4 DEF Next

\* The merge of mod.rs shows every value a monitor may report to the unit, and falls back
\* on the right one, metric by metric, on every machine.
THEOREM MetricsCorrect == Spec => []MetricsAreReadings
<1>1. Init => Sensed /\ SourcesShown
  BY DEF Init, Sensed, SourcesShown
<1>2. TypeOK /\ Sensed /\ [Next]_vars => Sensed'
  BY SensedHolds
<1>3. TypeOK /\ IInv /\ IInv' /\ Sensed /\ SourcesShown /\ [Next]_vars => SourcesShown'
  BY SourcesHold
<1>4. IInv /\ SourcesShown => MetricsAreReadings
  BY DEF IInv, OthersShown, SourcesShown, MetricsAreReadings
<1> QED BY <1>1, <1>2, <1>3, <1>4, TypeCorrect, TelemetryInvariant, PTL DEF Spec

-----------------------------------------------------------------------------
(* What sampling finally shows.  The prover takes ENABLED as it finds it:   *)
(* NeverStuck says that a process that samples can sample again, and the    *)
(* theorems below have it for a hypothesis.                                 *)

\* The hardware may report another reading than the last.
NeverStuck == process = "sampling" => ENABLED <<Sample>>_vars

\* The module that is loaded is that of the machine's CPU; the monitors of Windows find
\* nothing elsewhere; a process that samples has counters only in an open query.
Fits ==
  /\ module \in {"none", machine.vendor}
  /\ ~Windows => driver = "absent" /\ counters = {}
  /\ process = "sampling" /\ counters # {} => query

\* Fits is an invariant: try_connect loads what the CPU accepts, and the query outlives
\* every sample.
LEMMA FitsHolds == Spec => []Fits
<1>1. Init => Fits
  BY DEF Init, PdhNone, PawnNone, Fits
<1>2. Fits /\ [Next]_vars => Fits'
  <2> SUFFICES ASSUME Fits, [Next]_vars PROVE Fits'
    OBVIOUS
  <2> USE DEF Fits, Windows
  <2>1. CASE New
    BY <2>1 DEF New, PdhNew, PawnNew, try_connect, Loaded, pdhVars, pawnVars
  <2>2. CASE Sample
    BY <2>2 DEF Sample, PdhSample, PawnTemp, try_connect, Loaded, pdhVars, pawnVars
  <2>3. CASE Drop
    BY <2>3 DEF Drop, PdhDrop, PawnDrop, pdhVars, pawnVars
  <2>4. CASE Exit
    BY <2>4 DEF Exit, PdhEnd, PawnEnd
  <2>5. CASE Flicker \/ Install \/ Reload \/ UNCHANGED vars
    BY <2>5 DEF Flicker, Install, DriverChanges, Reload, vars, monitorVars, pdhVars, pawnVars
  <2> QED BY <2>1, <2>2, <2>3, <2>4, <2>5 DEF Next
<1> QED BY <1>1, <1>2, PTL DEF Spec

\* While a process samples, nothing but a sample touches what its monitors remember.
LEMMA OnlySamples ==
  ASSUME process = "sampling", process' = "sampling", [Next]_vars, ~Sample
  PROVE  UNCHANGED <<pawn_temp, pdh_answer, has_collected_first_sample>>
  BY DEF Next, New, Drop, Exit, Flicker, Install, DriverChanges, Reload, vars, monitorVars,
     pdhVars, pawnVars

\* A die between 1 and 125 degrees is shown, whatever the encoding of the register.
LEMMA DieIsShown ==
  ASSUME NEW die \in 8 .. 1000, NEW reg \in Registers(die)
  PROVE  Decode(reg) # None
<1>1. reg.cur_tmp - (IF reg.range_sel \/ reg.tj_sel = 3 THEN 392 ELSE 0) = die
  <2>1. CASE reg.range_sel \/ reg.tj_sel = 3
    BY <2>1 DEF Registers
  <2>2. CASE ~(reg.range_sel \/ reg.tj_sel = 3)
    BY <2>2 DEF Registers
  <2> QED BY <2>1, <2>2
<1>2. Decode(reg) = Clamp(Rounded(die, 8), MaxByte)
  BY <1>1, DecodeByTemp
<1>3. die \in Nat /\ Rounded(die, 8) \in Nat
  BY RoundedIsNearest
<1> QED BY <1>2, <1>3 DEF Clamp, MaxByte, None

\* An AMD machine samples with the driver ready, and its die is at a usual temperature.
Measurable ==
  /\ process = "sampling" /\ machine.vendor = "amd"
  /\ driver = "ready" /\ ~(handle /\ module = "none")
  /\ hw.die \in 8 .. 1000

\* One sample is enough: it connects when it has to, and reads.
LEMMA SampleMeasures ==
  ASSUME Fits, Measurable, Measurable', Sample
  PROVE  pawn_temp' # None
<1>1. PICK raw \in Readings : hw' = raw /\ PawnTemp(machine.vendor, raw.die)
  BY DEF Sample, Fits, Measurable
<1>2. raw.die \in 8 .. 1000 /\ raw.die # Failed
  <2>1. hw'.die \in 8 .. 1000
    BY DEF Measurable
  <2> QED BY SMTT(40), <1>1, <2>1 DEF Failed
<1>3. handle' /\ module' = "amd"
  <2>1. CASE handle
    BY ZenonT(60), <1>1, <2>1 DEF PawnTemp, try_connect, Fits, Measurable
  <2>2. CASE ~handle
    BY ZenonT(60), <1>1, <2>2 DEF PawnTemp, try_connect, Loaded, Measurable
  <2> QED BY <2>1, <2>2
<1>4. \E reg \in Registers(raw.die) : pawn_temp' = Decode(reg)
  BY <1>1, <1>2, <1>3 DEF PawnTemp, Measurable
<1> QED BY SMTT(60), <1>2, <1>4, DieIsShown

\* A driver that is installed, or becomes ready, while the process samples is found, and
\* its temperature stays.
THEOREM TemperatureAlwaysArrives == Spec /\ []NeverStuck => TemperatureArrives
<1> DEFINE Arrived == pawn_temp # None
<1>1. Fits /\ Measurable /\ Measurable' /\ [Next]_vars /\ Arrived => Arrived'
  BY SMTT(40), SampleMeasures, OnlySamples DEF Measurable
<1>2. Fits /\ Measurable /\ Measurable' /\ <<Sample>>_vars => Arrived'
  BY SampleMeasures
<1>3. NeverStuck /\ Measurable => ENABLED <<Sample>>_vars
  BY DEF NeverStuck, Measurable
<1> HIDE DEF Arrived
<1>4. Spec /\ []NeverStuck => (<>[]Measurable => <>[]Arrived)
  BY <1>1, <1>2, <1>3, FitsHolds, PTL DEF Spec
<1> QED BY <1>4, PTL DEF TemperatureArrives, Measurable, Arrived

\* The process samples, and the load counter it opened answers.
Counting == process = "sampling" /\ "load" \in counters /\ "pdh" \in up /\ hw.pdh_load >= 0

\* A sample of an answering query makes the next one complete, and a complete one
\* answers with the load.
LEMMA SampleCounts ==
  ASSUME Fits, Counting, Counting', Sample
  PROVE  /\ has_collected_first_sample'
         /\ has_collected_first_sample => pdh_answer'.load # None
<1>1. PICK raw \in Readings : hw' = raw /\ PdhSample("pdh" \in up, raw)
  BY DEF Sample, Fits, Counting
<1>2. raw.pdh_load \in Int /\ raw.pdh_load >= 0
  BY <1>1, ReadingTypes DEF Counting
<1>3. collected' /\ has_collected_first_sample'
  BY ZenonT(60), <1>1 DEF PdhSample, Fits, Counting
<1>4. Bounded(raw.pdh_load, 1000) # None
  BY <1>2 DEF Bounded, Clamp, None
<1>5. has_collected_first_sample => pdh_answer'.load = Bounded(raw.pdh_load, 1000)
  BY <1>1, <1>3 DEF PdhSample, Value, Counting
<1> QED BY <1>3, <1>4, <1>5

\* Counters that answer for good are shown for good, two samples later at the latest.
THEOREM LoadAlwaysArrives == Spec /\ []NeverStuck => LoadArrives
<1> DEFINE Primed == has_collected_first_sample
           Arrived == pdh_answer.load # None /\ has_collected_first_sample
<1>1. Fits /\ Counting /\ Counting' /\ [Next]_vars =>
        (Primed => Primed') /\ (Arrived => Arrived')
  BY SampleCounts, OnlySamples DEF Counting
<1>2. Fits /\ Counting /\ Counting' /\ <<Sample>>_vars => Primed' /\ (Primed => Arrived')
  BY SampleCounts
<1>3. NeverStuck /\ Counting => ENABLED <<Sample>>_vars
  BY DEF NeverStuck, Counting
<1>4. Arrived => pdh_answer.load # None
  OBVIOUS
<1> HIDE DEF Primed, Arrived
<1>5. Spec /\ []NeverStuck => (<>[]Counting => <>[]Arrived)
  BY <1>1, <1>2, <1>3, FitsHolds, PTL DEF Spec
<1> QED BY <1>4, <1>5, PTL DEF LoadArrives, Counting
=============================================================================
