---------------------------- MODULE CpuPowerProofs ----------------------------
(***************************************************************************)
(* Proofs of the properties of CpuPower, for every range of the counter.   *)
(***************************************************************************)
EXTENDS CpuPower, TLAPS

\* The counter is where the energy spent since the last reading puts it: exactly
\* there while that is less than a turn, and at least one wrap further when it
\* is smaller than the last value.
Tracks ==
  /\ counter >= last_energy_uj => counter - last_energy_uj <= spent
  /\ counter < last_energy_uj => (MaxRange - last_energy_uj) + counter + 1 <= spent
  /\ spent <= MaxRange =>
       spent = IF counter >= last_energy_uj
                 THEN counter - last_energy_uj
                 ELSE (MaxRange - last_energy_uj) + counter + 1

IInv == TypeOK /\ passed = last_timestamp /\ (primed => Tracks)

-----------------------------------------------------------------------------
\* (energy / time).round() as integer arithmetic: the rounded quotient is within
\* half a unit of the quotient (get_power_watts, the cast after round()).
LEMMA DivisionRounds ==
  ASSUME NEW energy \in Nat, NEW time \in Nat \ {0}
  PROVE  LET q == (2 * energy + time) \div (2 * time)
             off == 2 * (q * time - energy)
         IN  q \in Nat /\ off <= time /\ off > -time
<1> DEFINE a == 2 * energy + time
<1> DEFINE b == 2 * time
<1> DEFINE q == a \div b
<1>1. a \in Nat /\ b \in Nat /\ b > 0
  OBVIOUS
<1>2. q \in Nat /\ b * q <= a /\ a < b * q + b
  <2> HIDE DEF a, b
  <2> QED BY <1>1
<1>3. b * q = 2 * (q * time)
  BY <1>2
<1>4. 2 * (q * time - energy) = b * q - 2 * energy
  <2> DEFINE r == q * time
  <2>1. r \in Nat
    BY <1>2
  <2>2. b * q = 2 * r
    BY <1>3
  <2> HIDE DEF r, q, b
  <2>3. 2 * (r - energy) = b * q - 2 * energy
    BY <2>1, <2>2
  <2> QED BY <2>3 DEF r
<1>5. b * q - 2 * energy <= time /\ b * q - 2 * energy > -time
  BY <1>2
<1> QED BY <1>2, <1>4, <1>5

\* Watts is a u16 and the rounded average of the window (get_power_watts).
LEMMA WattsIsAverage ==
  ASSUME NEW energy \in Nat, passed \in Nat \ {0}
  PROVE  Watts(energy, passed) \in 0 .. MaxWatts /\ IsAverage(Watts(energy, passed), energy)
<1> DEFINE q == (2 * energy + passed) \div (2 * passed)
<1>1. q \in Nat /\ 2 * (q * passed - energy) <= passed /\ 2 * (q * passed - energy) > -passed
  BY DivisionRounds
<1>2. MaxWatts \in Nat
  BY PowerAssumption
<1>3. CASE q <= MaxWatts
  BY <1>1, <1>2, <1>3 DEF Watts, IsAverage
<1>4. CASE q > MaxWatts
  <2>1. Watts(energy, passed) = MaxWatts
    BY <1>4 DEF Watts
  <2>2. MaxWatts * passed <= q * passed
    BY <1>1, <1>2, <1>4
  <2>3. 2 * (MaxWatts * passed - energy) <= passed
    BY <2>2, <1>1, <1>2
  <2> QED BY <2>1, <2>3, <1>2 DEF IsAverage
<1> QED BY <1>1, <1>2, <1>3, <1>4

\* What delta_uj says of the energy really used since the last reading: never
\* too much, and all of it (but the step that wraps) within one turn.
LEMMA DeltaBounded ==
  ASSUME IInv
  PROVE  /\ Delta \in Nat
         /\ primed => Delta \in 0 .. spent
         /\ primed /\ max_energy_range_uj # Unknown /\ spent <= MaxRange =>
              \/ Delta = spent
              \/ counter < last_energy_uj /\ Delta = spent - 1
BY PowerAssumption DEF IInv, TypeOK, Tracks, Delta, Unknown

-----------------------------------------------------------------------------
LEMMA InitInv == Init => IInv
<1> SUFFICES ASSUME Init PROVE IInv
  OBVIOUS
<1>1. PICK source \in Sources :
        energy_path = source.path /\ max_energy_range_uj = source.range
  BY DEF Init
<1>2. energy_path \in BOOLEAN /\ max_energy_range_uj \in {MaxRange, Unknown}
  BY <1>1 DEF Sources
<1>3. last_energy_uj \in 0 .. MaxRange /\ (primed => last_energy_uj = counter)
  BY PowerAssumption DEF Init
<1> QED BY <1>2, <1>3, PowerAssumption DEF Init, IInv, TypeOK, Tracks

LEMMA StepInv == IInv /\ [Next]_vars => IInv'
<1> SUFFICES ASSUME IInv, [Next]_vars PROVE IInv'
  OBVIOUS
<1> USE PowerAssumption
<1>1. CASE Use
  <2>1. TypeOK'
    BY <1>1 DEF Use, monitorVars, IInv, TypeOK
  <2>2. passed' = last_timestamp'
    BY <1>1 DEF Use, monitorVars, IInv
  <2>3. primed' => Tracks'
    <3> SUFFICES ASSUME primed PROVE Tracks'
      BY <1>1 DEF Use
    <3>1. last_energy_uj' = last_energy_uj /\ spent' = spent + 1
      BY <1>1 DEF Use, monitorVars
    <3>2. counter' = IF counter = MaxRange THEN 0 ELSE counter + 1
      BY <1>1 DEF Use
    <3>3. Tracks
      BY DEF IInv
    <3> QED BY <3>1, <3>2, <3>3 DEF Tracks, IInv, TypeOK
  <2> QED BY <2>1, <2>2, <2>3 DEF IInv
<1>2. CASE Pass
  BY <1>2 DEF Pass, IInv, TypeOK, Tracks
<1>3. CASE Cached
  BY <1>3 DEF Cached, vars, monitorVars, worldVars, IInv, TypeOK, Tracks
<1>4. CASE ReadFails
  BY <1>4 DEF ReadFails, vars, monitorVars, worldVars, IInv, TypeOK, Tracks
<1>5. CASE Reads
  <2>1. passed \in Nat \ {0} /\ passed = last_timestamp
    BY <1>5 DEF Reads, IInv, TypeOK
  <2>2. last_calculated_watts' \in 0 .. MaxWatts
    BY <1>5, <2>1, DeltaBounded, WattsIsAverage DEF Reads
  <2> QED BY <1>5, <2>2 DEF Reads, IInv, TypeOK, Tracks
<1>6. CASE UNCHANGED vars
  BY <1>6 DEF vars, monitorVars, worldVars, IInv, TypeOK, Tracks
<1> QED BY <1>1, <1>2, <1>3, <1>4, <1>5, <1>6 DEF Next, get_power_watts

\* The inductive invariant behind the theorems of this module: the hardware
\* counter, the last reading and the energy spent since agree.
THEOREM PowerInvariant == Spec => []IInv
BY InitInv, StepInv, PTL DEF Spec

\* Every field of CpuPowerMonitor keeps to its declared values; the power is a u16.
THEOREM TypeCorrect == Spec => []TypeOK
<1>1. IInv => TypeOK
  BY DEF IInv
<1> QED BY <1>1, PowerInvariant, PTL

-----------------------------------------------------------------------------
\* A window ends only when get_power_watts reads the counter, and the result is
\* then the average for delta_uj.
LEMMA ReadingReturns ==
  ASSUME IInv, Next, Reading
  PROVE  Reads /\ passed \in Nat \ {0} /\ IsAverage(last_calculated_watts', Delta)
<1>1. passed \in Nat \ {0} /\ passed = last_timestamp
  BY DEF Reading, IInv, TypeOK
<1>2. Reads
  BY <1>1 DEF Next, get_power_watts, Use, Pass, Cached, ReadFails, vars, worldVars, Reading
<1>3. last_calculated_watts' = Watts(Delta, passed)
  BY <1>1, <1>2 DEF Reads
<1>4. IsAverage(Watts(Delta, passed), Delta)
  BY <1>1, DeltaBounded, WattsIsAverage
<1> QED BY <1>1, <1>2, <1>3, <1>4

\* A reading at most one wrap after the last is the average power of the window.
THEOREM AverageCorrect == Spec => PowerIsAverage
<1>1. ASSUME IInv, [Next]_vars, Reading, primed, max_energy_range_uj # Unknown,
             spent <= MaxRange
      PROVE  \/ IsAverage(last_calculated_watts', spent)
             \/ counter < last_energy_uj /\ IsAverage(last_calculated_watts', spent - 1)
  <2>1. Next
    <3>1. passed' # passed
      BY <1>1 DEF Reading
    <3>2. vars' # vars
      BY <3>1 DEF vars, worldVars
    <3> QED BY <1>1, <3>2
  <2> QED BY <1>1, <2>1, ReadingReturns, DeltaBounded
<1>2. IInv /\ [Next]_vars =>
        [Reading /\ primed /\ max_energy_range_uj # Unknown /\ spent <= MaxRange
           => \/ IsAverage(last_calculated_watts', spent)
              \/ counter < last_energy_uj /\ IsAverage(last_calculated_watts', spent - 1)]_vars
  BY <1>1
<1> QED BY <1>2, PowerInvariant, PTL DEF Spec, PowerIsAverage

\* No reading exceeds the power used, however often the counter wrapped.
THEOREM NeverTooMuch == Spec => NeverOverstated
<1>1. ASSUME IInv, [Next]_vars, Reading, primed
      PROVE  \E energy \in 0 .. spent : IsAverage(last_calculated_watts', energy)
  <2>1. Next
    <3>1. passed' # passed
      BY <1>1 DEF Reading
    <3>2. vars' # vars
      BY <3>1 DEF vars, worldVars
    <3> QED BY <1>1, <3>2
  <2>2. IsAverage(last_calculated_watts', Delta)
    BY <1>1, <2>1, ReadingReturns
  <2>3. Delta \in 0 .. spent
    BY <1>1, DeltaBounded
  <2> QED BY <2>2, <2>3
<1>2. IInv /\ [Next]_vars =>
        [Reading /\ primed
           => \E energy \in 0 .. spent : IsAverage(last_calculated_watts', energy)]_vars
  BY <1>1
<1> QED BY <1>2, PowerInvariant, PTL DEF Spec, NeverOverstated
=============================================================================
