-------------------------------- MODULE CpuLoad --------------------------------
(***************************************************************************)
(* CpuLoadMonitor of src/monitor/cpu_load.rs on Linux and on Windows, and  *)
(* the tick counters it derives a load from.  The monitor only ever uses   *)
(* the difference of a counter to last_stat (last_win_times), so last_stat *)
(* is kept as that difference: the ticks of each kind counted since the    *)
(* values it holds.  Time matters only in being less than 200 ms or not.   *)
(***************************************************************************)
EXTENDS Integers

CONSTANTS
  Estimates,   \* what sysinfo may answer, percentages
  MaxTicks     \* bound: ticks of one kind between two readings

ASSUME LoadAssumption == Estimates \subseteq 0 .. 100 /\ Estimates # {} /\ MaxTicks \in Nat

VARIABLES
  platform,   \* "linux" or "windows": which of the two bodies was compiled
  last_stat,  \* None, or the ticks since the values it holds
  fresh,      \* less than 200 ms have passed since last_timestamp
  last_pct,   \* the cached result
  answer,     \* what the last call returned, and from which of the three sources
  readable,   \* the counters can be read
  passed,     \* history: the ticks since the last reading
  window      \* history: the ticks between the last two readings

worldVars == <<readable, passed>>
vars == <<platform, last_stat, fresh, last_pct, answer, worldVars, window>>

\* Ticks by kind: of a virtual machine ("guest"), other work, and idle or iowait.
\* The kernel may take iowait back, so idle may be negative.
Ticks == [work : Nat, guest : Nat, idle : Int]
NoTicks == [work |-> 0, guest |-> 0, idle |-> 0]
None == [NoTicks EXCEPT !.work = -1]      \* no ticks have this value
Kinds == {"work", "guest", "idle"}

\* new(): a first read that fails leaves None for the life of the monitor.
Init ==
  /\ platform \in {"linux", "windows"}
  /\ readable \in BOOLEAN
  /\ last_stat = IF readable THEN NoTicks ELSE None
  /\ fresh = TRUE
  /\ last_pct = 0
  /\ answer = [pct |-> 0, source |-> "cache"]
  /\ passed = NoTicks
  /\ window = NoTicks

-----------------------------------------------------------------------------
(* The machine *)

Count(ticks, kind, n) == [ticks EXCEPT ![kind] = @ + n]

\* A tick of some kind, on every counter that counts; or one of iowait taken back.
Tick ==
  /\ \E kind \in Kinds, n \in {1, -1} :
       /\ n = 1 => passed[kind] < MaxTicks
       /\ n = -1 => kind = "idle" /\ platform = "linux" /\ passed.idle > -MaxTicks
       /\ passed' = Count(passed, kind, n)
       /\ last_stat' = IF last_stat = None THEN None ELSE Count(last_stat, kind, n)
  /\ UNCHANGED <<platform, fresh, last_pct, answer, readable, window>>

\* The 200 ms are over.
Pass ==
  /\ fresh
  /\ fresh' = FALSE
  /\ UNCHANGED <<platform, last_stat, last_pct, answer, worldVars, window>>

\* /proc/stat or GetSystemTimes fails, or works again.
Toggle ==
  /\ readable' = ~readable
  /\ UNCHANGED <<platform, last_stat, fresh, last_pct, answer, passed, window>>

-----------------------------------------------------------------------------
(* get_load_pct *)

\* saturating_sub
Saturated(n) == IF n < 0 THEN 0 ELSE n

\* read_proc_stat_cpu sums every field of the line, in which user time already
\* includes guest time.
LinuxDeltas_OnlyTotal(t) ==
  [total |-> Saturated(t.work + 2 * t.guest + t.idle), work |-> t.work + t.guest]
LinuxDeltas(t) ==
  [total |-> Saturated(t.work + 2 * t.guest + t.idle), work |-> t.work + 2 * t.guest]

\* kernel + user includes the idle time.
WindowsDeltas(t) ==
  LET total == Saturated(t.work + t.guest + t.idle)
  IN  [total |-> total, work |-> Saturated(total - Saturated(t.idle))]

Deltas(t) == IF platform = "linux" THEN LinuxDeltas(t) ELSE WindowsDeltas(t)

Percent_Unclamped(work, total) == (200 * work + total) \div (2 * total)
\* (work / total * 100.0).round().clamp(0.0, 100.0) as u8
Percent(work, total) ==
  LET rounded == (200 * work + total) \div (2 * total)
  IN  IF rounded > 100 THEN 100 ELSE rounded

Cached ==
  /\ last_stat # None /\ fresh
  /\ answer' = [pct |-> last_pct, source |-> "cache"]
  /\ UNCHANGED <<platform, last_stat, fresh, last_pct, worldVars, window>>

Usable == last_stat # None /\ ~fresh /\ readable /\ Deltas(last_stat).total > 0

Reads ==
  /\ Usable
  /\ LET deltas == Deltas(last_stat) IN last_pct' = Percent(deltas.work, deltas.total)
  /\ answer' = [pct |-> last_pct', source |-> "counters"]
  /\ last_stat' = NoTicks
  /\ fresh' = TRUE
  /\ window' = passed /\ passed' = NoTicks
  /\ UNCHANGED <<platform, readable>>

FallsBack_Caches ==
  /\ last_stat = None \/ (~fresh /\ ~Usable)
  /\ \E pct \in Estimates : answer' = [pct |-> pct, source |-> "sysinfo"] /\ last_pct' = pct
  /\ UNCHANGED <<platform, last_stat, fresh, worldVars, window>>
FallsBack_Forgets ==
  /\ last_stat = None \/ (~fresh /\ ~Usable)
  /\ \E pct \in Estimates : answer' = [pct |-> pct, source |-> "sysinfo"]
  /\ last_stat' = None
  /\ UNCHANGED <<platform, fresh, last_pct, worldVars, window>>
\* Nothing to compare with, a failed read, or no ticks: sysinfo answers, over a
\* window of its own, and the monitor stays as it is.
FallsBack ==
  /\ last_stat = None \/ (~fresh /\ ~Usable)
  /\ \E pct \in Estimates : answer' = [pct |-> pct, source |-> "sysinfo"]
  /\ UNCHANGED <<platform, last_stat, fresh, last_pct, worldVars, window>>

get_load_pct == Cached \/ Reads \/ FallsBack

Next == Tick \/ Pass \/ Toggle \/ get_load_pct

\* Time passes, an idle machine ticks, and the drivers call in every round.
Fairness == WF_vars(Pass) /\ WF_vars(get_load_pct)

Spec == Init /\ [][Next]_vars /\ Fairness

-----------------------------------------------------------------------------
(* Properties *)

\* Every variable keeps to its declared values; a load is a percentage.
TypeOK ==
  /\ platform \in {"linux", "windows"}
  /\ last_stat \in Ticks \cup {None}
  /\ fresh \in BOOLEAN
  /\ last_pct \in 0 .. 100
  /\ answer \in [pct : 0 .. 100, source : {"cache", "counters", "sysinfo"}]
  /\ readable \in BOOLEAN
  /\ passed \in Ticks /\ window \in Ticks

Busy(t) == t.work + t.guest
All(t) == Busy(t) + t.idle

\* pct is the share of the busy ticks, rounded; or no smaller than that.
AtLeastShare(pct, t) == 2 * (pct * All(t) - 100 * Busy(t)) > -All(t)
IsShare(pct, t) == AtLeastShare(pct, t) /\ 2 * (pct * All(t) - 100 * Busy(t)) <= All(t)

\* What the cache may answer with: the load of the window between the last two
\* readings, or the 0 of new().
Read == window # NoTicks

\* src/monitor/cpu_load.rs:52 "the overall CPU utilization as a percentage (0-100)":
\* while no guest runs, the cached load is that of exactly the window between the last
\* two readings, whatever calls failed, were cached or were answered by sysinfo.
LoadIsShare ==
  Read /\ window.idle >= 0 /\ (window.guest = 0 \/ platform = "windows")
    => IsShare(last_pct, window)

\* Guest time, which Linux counts twice, can only raise the load: it never hides work.
NeverUnderstated == Read /\ window.idle >= 0 => AtLeastShare(last_pct, window)

\* A fallback is an episode: once the counters can be read and tick, they answer
\* again and again; sysinfo answers for good only when the read of new() failed.
CountersResume ==
  last_stat # None /\ <>[](readable /\ (fresh \/ All(passed) > 0))
    => []<>(answer.source = "counters")
=============================================================================
