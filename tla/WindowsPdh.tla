------------------------------ MODULE WindowsPdh ------------------------------
(***************************************************************************)
(* WindowsPdhMonitor of src/monitor/windows_native.rs and the performance  *)
(* counters it queries.  `up' is whether PdhCollectQueryData succeeds.     *)
(***************************************************************************)
EXTENDS SensorValues

VARIABLES
  query,                       \* the query is open (not null)
  counters,                    \* the counters that could be added to it
  has_collected_first_sample,
  pdh_answer,                  \* what the last sample() returned
  queries,                     \* the system: open queries of the process
  collections,                 \* history: successful collections of the query, up to 2
  collected                    \* history: that of the last sample() succeeded

pdhVars ==
  <<query, counters, has_collected_first_sample, pdh_answer, queries, collections, collected>>

Counters == {"power", "clock", "load"}
NoPdh == [power |-> None, clock |-> None, load |-> None]

PdhTypeOK ==
  /\ query \in BOOLEAN /\ has_collected_first_sample \in BOOLEAN /\ collected \in BOOLEAN
  /\ counters \subseteq Counters
  /\ pdh_answer.power \in None .. MaxWord
  /\ pdh_answer.clock \in None .. MaxWord
  /\ pdh_answer.load \in None .. 1000
  /\ queries \in Nat /\ collections \in 0 .. 2

PdhNone ==
  /\ query = FALSE /\ counters = {} /\ has_collected_first_sample = FALSE
  /\ pdh_answer = NoPdh /\ queries = 0 /\ collections = 0 /\ collected = FALSE

More(n) == IF n < 2 THEN n + 1 ELSE n

PdhNew_Primes(available, up) ==
  /\ query' \in BOOLEAN
  /\ counters' = IF query' THEN available ELSE {}
  /\ has_collected_first_sample' = query'
  /\ pdh_answer' = NoPdh
  /\ queries' = IF query' THEN queries + 1 ELSE queries
  /\ collections' = IF query' /\ up THEN 1 ELSE 0
  /\ collected' = FALSE
\* new() and init(): the query may fail to open; of the counters those are added that
\* the system has; a priming collection, whose result is ignored.
PdhNew(available, up) ==
  /\ query' \in BOOLEAN
  /\ counters' = IF query' THEN available ELSE {}
  /\ has_collected_first_sample' = FALSE
  /\ pdh_answer' = NoPdh
  /\ queries' = IF query' THEN queries + 1 ELSE queries
  /\ collections' = IF query' /\ up THEN 1 ELSE 0
  /\ collected' = FALSE

Value(counter, option) == IF counter \in counters THEN option ELSE None

PdhSample_Never(up, hw) ==
  /\ collected' = (query /\ up)
  /\ collections' = IF collected' THEN More(collections) ELSE collections
  /\ pdh_answer' = NoPdh
  /\ UNCHANGED <<query, counters, has_collected_first_sample, queries>>
\* sample(): nothing when the collection fails or is the first, else the formatted values.
PdhSample(up, hw) ==
  /\ collected' = (query /\ up)
  /\ collections' = IF collected' THEN More(collections) ELSE collections
  /\ has_collected_first_sample' = (has_collected_first_sample \/ collected')
  /\ pdh_answer' =
       IF collected' /\ has_collected_first_sample
         THEN [power |-> Value("power", Watts(hw.pdh_power)),
               clock |-> Value("clock", Clock(hw.pdh_clock, 100)),
               load  |-> Value("load", Bounded(hw.pdh_load, 1000))]
         ELSE NoPdh
  /\ UNCHANGED <<query, counters, queries>>

PdhDrop ==
  /\ query' = FALSE
  /\ queries' = IF query THEN queries - 1 ELSE queries
  /\ UNCHANGED <<counters, has_collected_first_sample, pdh_answer, collections, collected>>

PdhEnd ==
  /\ query' = FALSE /\ counters' = {} /\ has_collected_first_sample' = FALSE
  /\ pdh_answer' = NoPdh /\ queries' = 0 /\ collections' = 0 /\ collected' = FALSE

\* A formatted value is made of two collections, the latter of them that of this very
\* sample (windows_native.rs:109, "has_collected_first_sample"): whatever collection
\* failed, the priming one included, no value comes from one alone or from the past.
PdhNeedsTwoCollections == pdh_answer # NoPdh => collections = 2 /\ collected
=============================================================================
