----------------------------- MODULE CpuLoadProofs -----------------------------
(***************************************************************************)
(* Proofs about CpuLoad, for windows of any length: what the cached load   *)
(* is worth, and that the counters answer again after any fallback.        *)
(***************************************************************************)
EXTENDS CpuLoad, TLAPS

\* What last_stat holds and the true window since the last reading agree, whatever
\* failed in between; and the cached load is right for the window before it.
Tracks == last_stat # None => last_stat = passed

IInv == TypeOK /\ Tracks /\ LoadIsShare /\ NeverUnderstated

-----------------------------------------------------------------------------
\* (work / total * 100.0).round() as integer arithmetic: within half a unit of the
\* quotient (get_load_pct, the cast after round()).
LEMMA QuotientRounds ==
  ASSUME NEW work \in Nat, NEW total \in Nat \ {0}
  PROVE  LET q == (200 * work + total) \div (2 * total)
             off == 2 * (q * total - 100 * work)
         IN  q \in Nat /\ off <= total /\ off > -total
<1> DEFINE a == 200 * work + total
<1> DEFINE b == 2 * total
<1> DEFINE q == a \div b
<1>1. a \in Nat /\ b \in Nat /\ b > 0
  OBVIOUS
<1>2. q \in Nat /\ b * q <= a /\ a < b * q + b
  <2> HIDE DEF a, b
  <2> QED BY <1>1
<1>3. b * q = 2 * (q * total)
  BY <1>2
<1> DEFINE r == q * total
<1>4. r \in Nat
  BY <1>2
<1>5. 2 * r <= 200 * work + total /\ 200 * work + total < 2 * r + 2 * total
  BY <1>2, <1>3
<1> HIDE DEF r, q
<1>6. 2 * (r - 100 * work) <= total /\ 2 * (r - 100 * work) > -total
  BY <1>4, <1>5
<1> QED BY <1>2, <1>6 DEF r, q

\* The result is at most 100, and the clamp hides no share of work within the total.
LEMMA PercentIsShare ==
  ASSUME NEW work \in Nat, NEW total \in Nat \ {0}
  PROVE  /\ Percent(work, total) \in 0 .. 100
         /\ work <= total =>
              /\ 2 * (Percent(work, total) * total - 100 * work) <= total
              /\ 2 * (Percent(work, total) * total - 100 * work) > -total
<1> DEFINE q == (200 * work + total) \div (2 * total)
<1>1. q \in Nat /\ 2 * (q * total - 100 * work) <= total /\ 2 * (q * total - 100 * work) > -total
  BY QuotientRounds
<1>2. Percent(work, total) = IF q > 100 THEN 100 ELSE q
  BY DEF Percent
<1> HIDE DEF q
<1>3. CASE q > 100
  <2>1. Percent(work, total) = 100
    BY <1>2, <1>3
  <2>2. 101 * total <= q * total
    BY <1>1, <1>3
  <2>3. ~(work <= total)
    BY <1>1, <2>2
  <2> QED BY <2>1, <2>3
<1>4. CASE q <= 100
  BY <1>1, <1>2, <1>4
<1> QED BY <1>1, <1>3, <1>4

\* The two bodies of get_load_pct: Linux counts guest time twice, Windows not at all.
LEMMA DeltasOf ==
  ASSUME NEW t \in Ticks, platform \in {"linux", "windows"}, Deltas(t).total > 0
  PROVE  /\ Deltas(t).work \in Nat /\ Deltas(t).total \in Nat \ {0}
         /\ platform = "linux" =>
              Deltas(t).total = All(t) + t.guest /\ Deltas(t).work = Busy(t) + t.guest
         /\ platform = "windows" /\ t.idle >= 0 =>
              Deltas(t).total = All(t) /\ Deltas(t).work = Busy(t)
<1>1. t.work \in Nat /\ t.guest \in Nat /\ t.idle \in Int
  BY DEF Ticks
<1>2. CASE platform = "linux"
  BY <1>1, <1>2 DEF Deltas, LinuxDeltas, Saturated, All, Busy
<1>3. CASE platform = "windows"
  BY <1>1, <1>3 DEF Deltas, WindowsDeltas, Saturated, All, Busy
<1> QED BY <1>2, <1>3

\* Counting guest time once more in the total and in the work only raises a share.
LEMMA GuestRaises ==
  ASSUME NEW pct \in 0 .. 100, NEW busy \in Nat, NEW idle \in Nat, NEW guest \in Nat,
         busy + idle + guest > 0, guest <= busy,
         2 * (pct * (busy + idle + guest) - 100 * (busy + guest)) > -(busy + idle + guest)
  PROVE  2 * (pct * (busy + idle) - 100 * busy) > -(busy + idle)
<1>1. CASE pct = 100
  BY <1>1
<1>2. CASE pct <= 99
  <2>1. pct * guest <= 99 * guest
    BY <1>2
  <2>2. pct * (busy + idle + guest) = pct * (busy + idle) + pct * guest
    OBVIOUS
  <2> DEFINE p == pct * (busy + idle)
  <2> DEFINE g == pct * guest
  <2>3. p \in Nat /\ g \in Nat
    OBVIOUS
  <2>4. 2 * ((p + g) - 100 * (busy + guest)) > -(busy + idle + guest) /\ g <= 99 * guest
    BY <2>1, <2>2
  <2> HIDE DEF p, g
  <2>5. 2 * (p - 100 * busy) > -(busy + idle)
    BY <2>3, <2>4
  <2> QED BY <2>5 DEF p
<1> QED BY <1>1, <1>2

\* A reading of the true window returns its share.
LEMMA ReadingIsShare ==
  ASSUME NEW t \in Ticks, platform \in {"linux", "windows"}, Deltas(t).total > 0,
         NEW pct, pct = Percent(Deltas(t).work, Deltas(t).total)
  PROVE  /\ pct \in 0 .. 100
         /\ t.idle >= 0 => AtLeastShare(pct, t)
         /\ t.idle >= 0 /\ (t.guest = 0 \/ platform = "windows") => IsShare(pct, t)
<1> DEFINE w == Deltas(t).work
<1> DEFINE n == Deltas(t).total
<1>1. w \in Nat /\ n \in Nat \ {0}
  BY DeltasOf
<1>2. /\ pct \in 0 .. 100
      /\ w <= n => 2 * (pct * n - 100 * w) <= n /\ 2 * (pct * n - 100 * w) > -n
  <2> HIDE DEF w, n
  <2>1. pct = Percent(w, n)
    BY DEF w, n
  <2> QED BY <1>1, <2>1, PercentIsShare
<1>3. t.work \in Nat /\ t.guest \in Nat /\ t.idle \in Int
  BY DEF Ticks
<1>4. Busy(t) \in Nat /\ All(t) = Busy(t) + t.idle /\ t.guest <= Busy(t)
  BY <1>3 DEF Busy, All
<1>5. ASSUME t.idle >= 0, platform = "windows" PROVE IsShare(pct, t)
  <2>1. n = All(t) /\ w = Busy(t)
    BY <1>5, DeltasOf
  <2> QED BY <1>2, <1>3, <1>4, <1>5, <2>1 DEF IsShare, AtLeastShare
<1>6. ASSUME t.idle >= 0, platform = "linux" 
      PROVE  AtLeastShare(pct, t) /\ (t.guest = 0 => IsShare(pct, t))
  <2>1. n = All(t) + t.guest /\ w = Busy(t) + t.guest
    BY <1>6, DeltasOf
  <2>2. w <= n
    BY <1>3, <1>4, <1>6, <2>1
  <2>3. 2 * (pct * n - 100 * w) <= n /\ 2 * (pct * n - 100 * w) > -n
    BY <1>2, <2>2
  <2>4. AtLeastShare(pct, t)
    <3> DEFINE b == Busy(t)
    <3> DEFINE i == t.idle
    <3> DEFINE g == t.guest
    <3>1. b \in Nat /\ i \in Nat /\ g \in Nat /\ g <= b /\ All(t) = b + i
      BY <1>3, <1>4, <1>6
    <3>2. n = b + i + g /\ w = b + g /\ b + i + g > 0
      BY <1>1, <2>1, <3>1
    <3>3. 2 * (pct * (b + i + g) - 100 * (b + g)) > -(b + i + g)
      BY <2>3, <3>2
    <3> HIDE DEF b, i, g
    <3>4. 2 * (pct * (b + i) - 100 * b) > -(b + i)
      BY <1>2, <3>1, <3>2, <3>3, GuestRaises
    <3> QED BY <3>1, <3>4 DEF AtLeastShare, b
  <2>5. t.guest = 0 => IsShare(pct, t)
    BY <1>3, <1>4, <2>1, <2>3, <2>4 DEF IsShare
  <2> QED BY <2>4, <2>5
<1> QED BY <1>2, <1>5, <1>6 DEF IsShare

-----------------------------------------------------------------------------
LEMMA InitInv == Init => IInv
<1> SUFFICES ASSUME Init PROVE IInv
  OBVIOUS
<1>1. NoTicks \in Ticks
  BY DEF NoTicks, Ticks
<1> QED BY <1>1 DEF Init, IInv, TypeOK, Tracks, LoadIsShare, NeverUnderstated, Read

\* One tick more or one of iowait less leaves the kinds in their ranges.
LEMMA CountTyped ==
  ASSUME NEW t \in Ticks, NEW kind \in Kinds, NEW n \in {1, -1}, n = -1 => kind = "idle"
  PROVE  Count(t, kind, n) \in Ticks
BY DEF Count, Ticks, Kinds

LEMMA StepInv == IInv /\ [Next]_vars => IInv'
<1> SUFFICES ASSUME IInv, [Next]_vars PROVE IInv'
  OBVIOUS
<1>1. CASE Tick
  <2>1. PICK kind \in Kinds, n \in {1, -1} :
          /\ n = -1 => kind = "idle"
          /\ passed' = Count(passed, kind, n)
          /\ last_stat' = IF last_stat = None THEN None ELSE Count(last_stat, kind, n)
    BY <1>1 DEF Tick
  <2>2. passed' \in Ticks
    BY <2>1, CountTyped DEF IInv, TypeOK
  <2>3. last_stat' \in Ticks \cup {None} /\ Tracks'
    <3>1. CASE last_stat = None
      BY <2>1, <3>1 DEF Tracks
    <3>2. CASE last_stat # None
      BY <2>1, <2>2, <3>2 DEF Tracks, IInv
    <3> QED BY <3>1, <3>2
  <2>4. TypeOK'
    BY <1>1, <2>2, <2>3 DEF Tick, IInv, TypeOK
  <2> QED BY <1>1, <2>3, <2>4 DEF Tick, IInv, LoadIsShare, NeverUnderstated, Read
<1>2. CASE Pass
  BY <1>2 DEF Pass, worldVars, IInv, TypeOK, Tracks, LoadIsShare, NeverUnderstated, Read
<1>3. CASE Toggle
  BY <1>3 DEF Toggle, IInv, TypeOK, Tracks, LoadIsShare, NeverUnderstated, Read
<1>4. CASE Cached
  BY <1>4 DEF Cached, worldVars, IInv, TypeOK, Tracks, LoadIsShare, NeverUnderstated, Read
<1>5. CASE FallsBack
  <2>1. answer' \in [pct : 0 .. 100, source : {"cache", "counters", "sysinfo"}]
    BY <1>5, LoadAssumption DEF FallsBack
  <2> QED BY <1>5, <2>1 DEF FallsBack, worldVars, IInv, TypeOK, Tracks, LoadIsShare,
                            NeverUnderstated, Read
<1>6. CASE Reads
  <2>1. last_stat = passed /\ passed \in Ticks /\ platform \in {"linux", "windows"}
    BY <1>6 DEF Reads, Usable, IInv, Tracks, TypeOK
  <2>2. Deltas(passed).total > 0
        /\ last_pct' = Percent(Deltas(passed).work, Deltas(passed).total)
    BY <1>6, <2>1 DEF Reads, Usable
  <2>3. /\ last_pct' \in 0 .. 100
        /\ passed.idle >= 0 => AtLeastShare(last_pct', passed)
        /\ passed.idle >= 0 /\ (passed.guest = 0 \/ platform = "windows")
             => IsShare(last_pct', passed)
    BY <2>1, <2>2, ReadingIsShare
  <2>4. NoTicks \in Ticks
    BY DEF NoTicks, Ticks
  <2>5. TypeOK'
    BY <1>6, <2>1, <2>3, <2>4 DEF Reads, IInv, TypeOK
  <2>6. LoadIsShare' /\ NeverUnderstated'
    <3>1. window' = passed /\ platform' = platform
      BY <1>6 DEF Reads
    <3> QED BY <2>3, <3>1 DEF LoadIsShare, NeverUnderstated, IsShare, AtLeastShare, All, Busy
  <2>7. Tracks'
    BY <1>6 DEF Reads, Tracks
  <2> QED BY <2>5, <2>6, <2>7 DEF IInv
<1>7. CASE UNCHANGED vars
  BY <1>7 DEF vars, worldVars, IInv, TypeOK, Tracks, LoadIsShare, NeverUnderstated, Read,
              IsShare, AtLeastShare, All, Busy
<1> QED BY <1>1, <1>2, <1>3, <1>4, <1>5, <1>6, <1>7 DEF Next, get_load_pct

\* The inductive invariant behind the theorems: last_stat and the true window agree
\* after any sequence of readings, failures, cached answers and fallbacks.
THEOREM LoadInvariant == Spec => []IInv
BY InitInv, StepInv, PTL DEF Spec

\* Every field of CpuLoadMonitor keeps to its declared values; every answer of
\* get_load_pct is a percentage.
THEOREM TypeCorrect == Spec => []TypeOK
<1>1. IInv => TypeOK
  BY DEF IInv
<1> QED BY <1>1, LoadInvariant, PTL

\* The cached load is the rounded share of exactly the window between the last two
\* readings, on both platforms, while no guest runs on Linux.
THEOREM LoadCorrect == Spec => []LoadIsShare
<1>1. IInv => LoadIsShare
  BY DEF IInv
<1> QED BY <1>1, LoadInvariant, PTL

\* Counting guest time twice never hides work.
THEOREM LoadNeverTooLow == Spec => []NeverUnderstated
<1>1. IInv => NeverUnderstated
  BY DEF IInv
<1> QED BY <1>1, LoadInvariant, PTL

-----------------------------------------------------------------------------
(* What the calls finally answer.  The prover takes ENABLED as it finds it: *)
(* NeverStuck says when the two fair actions can be taken, and the theorem  *)
(* below has it for a hypothesis.                                           *)

\* The 200 ms pass, and a call that can read the counters has an effect.
NeverStuck ==
  /\ fresh => ENABLED <<Pass>>_vars
  /\ Usable => ENABLED <<get_load_pct>>_vars

\* The counters can be read, and have ticked by the time the next call may read them.
Answering == readable /\ (fresh \/ All(passed) > 0)

\* Ticks that Linux and Windows count make a total that is not zero.
LEMMA AnsweringIsUsable ==
  ASSUME IInv, last_stat # None, Answering, ~fresh
  PROVE  Usable
<1>1. last_stat = passed /\ passed \in Ticks /\ All(passed) > 0 /\ readable
  BY DEF IInv, Tracks, TypeOK, Answering
<1>2. passed.work \in Nat /\ passed.guest \in Nat /\ passed.idle \in Int
  BY <1>1 DEF Ticks
<1>3. passed.work + passed.guest + passed.idle > 0
  BY <1>1 DEF All, Busy
<1>4. LinuxDeltas(passed).total > 0
  BY <1>2, <1>3 DEF LinuxDeltas, Saturated
<1>5. WindowsDeltas(passed).total > 0
  BY <1>2, <1>3 DEF WindowsDeltas, Saturated
<1> QED BY <1>1, <1>4, <1>5 DEF Usable, Deltas

\* A call that finds the counters usable is answered by them.
LEMMA UsableAnswers ==
  ASSUME Usable, get_load_pct
  PROVE  answer'.source = "counters"
<1>1. ~Cached /\ ~FallsBack
  BY DEF Usable, Cached, FallsBack
<1> QED BY <1>1 DEF get_load_pct, Reads

\* After any number of failed reads and fallbacks the counters answer again; only the
\* failed read of new() lasts.
THEOREM CountersAlwaysResume == Spec /\ []NeverStuck => CountersResume
<1> DEFINE Compares == last_stat # None
           Stale == ~fresh
           Answered == answer.source = "counters"
<1>1. Compares /\ IInv /\ [Next]_vars => Compares'
  <2> SUFFICES ASSUME Compares, IInv, [Next]_vars PROVE last_stat' # None
    OBVIOUS
  <2>1. CASE Tick
    <3>1. IInv'
      BY StepInv
    <3>2. PICK kind \in Kinds, n \in {1, -1} :
            passed' = Count(passed, kind, n) /\ last_stat' = Count(last_stat, kind, n)
      BY <2>1 DEF Tick
    <3>3. last_stat' = passed' /\ passed' \in Ticks
      BY <3>1, <3>2 DEF IInv, Tracks, TypeOK
    <3> QED BY <3>3 DEF Ticks, None, NoTicks
  <2>2. CASE Pass \/ Toggle \/ Cached \/ FallsBack \/ UNCHANGED vars
    BY <2>2 DEF Pass, Toggle, Cached, FallsBack, vars
  <2>3. CASE Reads
    BY <2>3 DEF Reads, NoTicks, None
  <2> QED BY <2>1, <2>2, <2>3 DEF Next, get_load_pct
<1>2. [Next]_vars /\ Stale => Stale' \/ Answered'
  BY DEF Next, Tick, Pass, Toggle, get_load_pct, Cached, Reads, FallsBack, vars
<1>3. <<Pass>>_vars => Stale'
  BY DEF Pass
<1>4. IInv /\ Compares /\ Answering /\ Stale /\ <<get_load_pct>>_vars => Answered'
  BY AnsweringIsUsable, UsableAnswers
<1>5. NeverStuck => Stale \/ ENABLED <<Pass>>_vars
  BY DEF NeverStuck
<1>6. NeverStuck /\ IInv /\ Compares /\ Answering /\ Stale => ENABLED <<get_load_pct>>_vars
  BY AnsweringIsUsable DEF NeverStuck
<1> HIDE DEF Compares, Stale, Answered
<1>7. Spec /\ []NeverStuck => (Compares /\ <>[]Answering => []<>Answered)
  BY <1>1, <1>2, <1>3, <1>4, <1>5, <1>6, LoadInvariant, PTL DEF Spec, Fairness
<1> QED BY <1>7, PTL DEF CountersResume, Answering, Compares, Answered
=============================================================================
