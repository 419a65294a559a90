------------------------ MODULE ObservabilityProofs -------------------------
(***************************************************************************)
(* Proofs, for any number of threads, hooks and nested operations, that no *)
(* thread calls a hook its owner has destroyed, that the helper filters by *)
(* a threshold in force, and that reports to a collector come in pairs.    *)
(*                                                                         *)
(* NoUseAfterFree is not inductive: that the pointer a thread holds is     *)
(* alive follows from the owner's care only if the thread's history covers *)
(* the pointer (Covered), which in turn needs that the globals hold what   *)
(* was last installed (Current) and that whatever is installed while a     *)
(* thread is not at rest is in that thread's history.                      *)
(***************************************************************************)
EXTENDS Observability, TLAPS, FiniteSetTheorems

\* An operation is open while its ScopedMetric reports.
Opened ==
  \A t \in Threads : pc[t] \in {"metrics", "latency", "count"} => depth[t] > 0

\* The globals hold what was installed last, and that is alive.
Current ==
  /\ g_logger \in {installed.logger, NullLogger}
  /\ g_metrics \in {installed.metrics, NullMetrics}
  /\ installed.logger \notin dead
  /\ installed.metrics \notin dead

\* A thread's history has every hook it may hold, and none of them is dead.
Covered ==
  \A t \in Threads :
    /\ \A hook \in held[t] : hook \notin dead
    /\ ~Resting(t) => {installed.logger, installed.metrics} \subseteq held[t]
    /\ pc[t] \in {"call", "call_split"} => logger[t] \in held[t] \cup {NullLogger}
    /\ pc[t] \in {"latency", "count"} => m[t] \in held[t] \cup {NullMetrics}

Safe == TypeOK /\ Opened /\ Current /\ Covered

LEMMA NullsAlive ==
  ASSUME TypeOK
  PROVE  NullLogger \notin dead /\ NullMetrics \notin dead /\ NullPtr \notin dead
BY HooksAssumption DEF TypeOK, Hooks

LEMMA SafeImplies == Safe => NoUseAfterFree
BY NullsAlive DEF Safe, Covered, NoUseAfterFree

LEMMA InitSafe == Init => Safe
BY LevelsAssumption, DepthAssumption
   DEF Init, Safe, TypeOK, Opened, Current, Covered, Resting, Steps, Hooks

-----------------------------------------------------------------------------
(***************************************************************************)
(* The application's steps                                                 *)
(***************************************************************************)

LEMMA SetLoggerSafe ==
  ASSUME Safe, NEW l \in Loggers \cup {NullPtr}, set_logger(l)
  PROVE  Safe'
<1> USE DEF set_logger, Safe, locals, told
<1>1. TypeOK'
  BY DEF TypeOK, Exposed, Stored, Hooks
<1>2. Opened'
  BY DEF Opened
<1>3. Current'
  BY DEF TypeOK, Current, Stored
<1>4. Covered'
  BY DEF TypeOK, Current, Covered, Exposed, Resting
<1> QED
  BY <1>1, <1>2, <1>3, <1>4

LEMMA SetMetricsSafe ==
  ASSUME Safe, NEW c \in Collectors \cup {NullPtr}, set_metrics(c)
  PROVE  Safe'
<1> USE DEF set_metrics, Safe, locals, told
<1>1. TypeOK'
  BY DEF TypeOK, Exposed, Hooks
<1>2. Opened'
  BY DEF Opened
<1>3. Current'
  BY DEF TypeOK, Current
<1>4. Covered'
  BY DEF TypeOK, Current, Covered, Exposed, Resting
<1> QED
  BY <1>1, <1>2, <1>3, <1>4

LEMMA SetThresholdSafe ==
  ASSUME Safe, NEW v \in Levels, set_log_level_threshold(v)
  PROVE  Safe'
BY DEF set_log_level_threshold, Safe, locals, told, TypeOK, Opened, Current, Covered,
       Resting, Logging

LEMMA DestroySafe ==
  ASSUME Safe, NEW hook \in Hooks, Destroy(hook)
  PROVE  Safe'
<1> USE DEF Destroy, Safe, locals, told, globals
<1>1. TypeOK'
  BY DEF TypeOK
<1>2. Opened'
  BY DEF Opened
<1>3. Current'
  BY DEF TypeOK, Current
<1>4. Covered'
  BY DEF TypeOK, Covered, Resting
<1> QED
  BY <1>1, <1>2, <1>3, <1>4

-----------------------------------------------------------------------------
(***************************************************************************)
(* The library's steps                                                     *)
(***************************************************************************)

LEMMA EnterSafe ==
  ASSUME Safe, NEW t \in Threads, Enter(t)
  PROVE  Safe'
<1> USE DEF Enter, Safe, globals, told
<1>1. TypeOK'
  BY DepthAssumption DEF TypeOK, Wake, Hooks
<1>2. Opened'
  BY DEF Opened, TypeOK
<1>3. Current'
  BY DEF Current
<1>4. Covered'
  BY DEF TypeOK, Current, Covered, Wake, Resting
<1> QED
  BY <1>1, <1>2, <1>3, <1>4

LEMMA LogSafe ==
  ASSUME Safe, NEW t \in Threads, NEW lev \in Levels, log_if_enabled(t, lev)
  PROVE  Safe'
<1> USE DEF log_if_enabled, Safe, globals, told
<1>1. TypeOK'
  BY DEF TypeOK, Wake, Hooks, Steps
<1>2. Opened'
  BY DEF Opened, TypeOK
<1>3. Current'
  BY DEF Current
<1>4. Covered'
  BY DEF TypeOK, Current, Covered, Wake, Resting
<1> QED
  BY <1>1, <1>2, <1>3, <1>4

LEMMA LogSplitSafe ==
  ASSUME Safe, NEW t \in Threads, LogSplit(t)
  PROVE  Safe'
<1> USE DEF LogSplit, Safe, globals, told
<1>1. TypeOK'
  BY LevelsAssumption DEF TypeOK, Steps
<1>2. Opened'
  BY DEF Opened, TypeOK
<1>3. Current'
  BY DEF Current
<1>4. Covered'
  BY DEF TypeOK, Current, Covered, Resting
<1> QED
  BY <1>1, <1>2, <1>3, <1>4

LEMMA CheckLevelSafe ==
  ASSUME Safe, NEW t \in Threads, CheckLevel(t)
  PROVE  Safe'
<1> USE DEF CheckLevel, Safe, globals, told
<1>1. TypeOK'
  BY LevelsAssumption DEF TypeOK, Forget, Steps
<1>2. Opened'
  BY DEF Opened, TypeOK
<1>3. Current'
  BY DEF Current
<1>4. Covered'
  BY DEF TypeOK, Covered, Forget, Resting
<1> QED
  BY <1>1, <1>2, <1>3, <1>4

LEMMA LoadLoggerSafe ==
  ASSUME Safe, NEW t \in Threads, LoadLogger(t)
  PROVE  Safe'
<1> USE DEF LoadLogger, Safe, globals, told, history
<1>1. TypeOK'
  BY DEF TypeOK, Steps
<1>2. Opened'
  BY DEF Opened, TypeOK
<1>3. Current'
  BY DEF Current
<1>4. Covered'
  BY DEF TypeOK, Current, Covered, Resting
<1> QED
  BY <1>1, <1>2, <1>3, <1>4

LEMMA CallLogSafe ==
  ASSUME Safe, NEW t \in Threads, CallLog(t)
  PROVE  Safe'
<1> USE DEF CallLog, Safe, globals, told
<1>1. TypeOK'
  BY LevelsAssumption DEF TypeOK, Forget, Steps
<1>2. Opened'
  BY DEF Opened, TypeOK
<1>3. Current'
  BY DEF Current
<1>4. Covered'
  BY DEF TypeOK, Covered, Forget, Resting
<1> QED
  BY <1>1, <1>2, <1>3, <1>4

LEMMA CloseSafe ==
  ASSUME Safe, NEW t \in Threads, Close(t)
  PROVE  Safe'
<1> USE DEF Close, Safe, globals, told, history
<1>1. TypeOK'
  BY DEF TypeOK, Steps
<1>2. Opened'
  BY DEF Opened, TypeOK
<1>3. Current'
  BY DEF Current
<1>4. Covered'
  BY DEF TypeOK, Covered, Resting
<1> QED
  BY <1>1, <1>2, <1>3, <1>4

LEMMA LoadMetricsSafe ==
  ASSUME Safe, NEW t \in Threads, LoadMetrics(t)
  PROVE  Safe'
<1> USE DEF LoadMetrics, Safe, globals, told, history
<1>1. TypeOK'
  BY DEF TypeOK, Steps
<1>2. Opened'
  BY DEF Opened, TypeOK
<1>3. Current'
  BY DEF Current
<1>4. Covered'
  BY DEF TypeOK, Current, Covered, Resting
<1> QED
  BY <1>1, <1>2, <1>3, <1>4

LEMMA RecordSafe ==
  ASSUME Safe, NEW t \in Threads, record_latency(t)
  PROVE  Safe'
<1> USE DEF record_latency, Safe, globals, told, history
<1>1. TypeOK'
  BY DEF TypeOK, Steps
<1>2. Opened'
  BY DEF Opened, TypeOK
<1>3. Current'
  BY DEF Current
<1>4. Covered'
  BY DEF TypeOK, Covered, Resting
<1> QED
  BY <1>1, <1>2, <1>3, <1>4

LEMMA CountSafe ==
  ASSUME Safe, NEW t \in Threads, increment_operation_count(t)
  PROVE  Safe'
<1> USE DEF increment_operation_count, Safe, globals, told
<1>1. TypeOK'
  <2>1. depth[t] \in 1 .. MaxDepth
    BY DepthAssumption DEF TypeOK, Opened
  <2>2. depth' \in [Threads -> 0 .. MaxDepth]
    BY <2>1, DepthAssumption DEF TypeOK
  <2>3. owed' \in [Collectors \cup {NullMetrics} -> Int]
    BY DEF TypeOK, CountedBy
  <2> QED
    BY <2>2, <2>3, LevelsAssumption DEF TypeOK, Forget, Steps
<1>2. Opened'
  BY DEF Opened, TypeOK
<1>3. Current'
  BY DEF Current
<1>4. Covered'
  BY DEF TypeOK, Covered, Forget, Resting
<1> QED
  BY <1>1, <1>2, <1>3, <1>4

LEMMA CatchAllSafe ==
  ASSUME Safe, NEW t \in Threads, CatchAll(t)
  PROVE  Safe'
<1> USE DEF CatchAll, Safe, globals
<1>1. TypeOK'
  <2>1. depth[t] \in 1 .. MaxDepth
    BY DepthAssumption DEF TypeOK, Opened
  <2>2. depth' \in [Threads -> 0 .. MaxDepth]
    BY <2>1, DepthAssumption DEF TypeOK
  <2>3. failures' \in 0 .. MaxFailures
    BY DepthAssumption DEF TypeOK
  <2> QED
    BY <2>2, <2>3, LevelsAssumption DEF TypeOK, Forget, Steps
<1>2. Opened'
  BY DEF Opened, TypeOK
<1>3. Current'
  BY DEF Current
<1>4. Covered'
  BY DEF TypeOK, Covered, Forget, Resting
<1> QED
  BY <1>1, <1>2, <1>3, <1>4

LEMMA StutterSafe ==
  ASSUME Safe, UNCHANGED vars
  PROVE  Safe'
BY DEF Safe, TypeOK, Opened, Current, Covered, Resting, vars, globals, locals,
       told, history

LEMMA NextSafe ==
  ASSUME Safe, [Next]_vars
  PROVE  Safe'
<1>1. CASE Application
  BY <1>1, SetLoggerSafe, SetMetricsSafe, SetThresholdSafe, DestroySafe
     DEF Application
<1>2. ASSUME NEW t \in Threads, Library(t)
      PROVE  Safe'
  BY <1>2, EnterSafe, LogSafe, LogSplitSafe, CheckLevelSafe, LoadLoggerSafe,
     CallLogSafe, CloseSafe, LoadMetricsSafe, RecordSafe, CountSafe, CatchAllSafe,
     Zenon
     DEF Library
<1>3. CASE UNCHANGED vars
  BY <1>3, StutterSafe
<1> QED
  BY <1>1, <1>2, <1>3 DEF Next

-----------------------------------------------------------------------------

LEMMA SafeAlways == Spec => []Safe
<1> QED
  BY InitSafe, NextSafe, PTL DEF Spec

\* The pointers, the locals of every thread and the collectors' accounts keep
\* their types: in particular the globals never hold a null pointer.
THEOREM TypeCorrect == Spec => []TypeOK
<1>1. Safe => TypeOK
  BY DEF Safe
<1> QED
  BY <1>1, SafeAlways, PTL

\* The lifetime contract of observability.hpp is enough: an owner that waits
\* for the operations begun before its hook was replaced may destroy the hook,
\* and no thread will call it.
THEOREM NeverUsedAfterFree == Spec => []NoUseAfterFree
<1> QED
  BY SafeImplies, SafeAlways, PTL

-----------------------------------------------------------------------------
(***************************************************************************)
(* The filter.  What a thread that passed the check may rely on is that    *)
(* thresholds in force since its call began are not forgotten, and one     *)
(* that is about to check has the present one among them.                  *)
(***************************************************************************)

Filtering ==
  \A t \in Threads :
    /\ pc[t] = "check" => g_log_level_threshold \in floor[t]
    /\ pc[t] \in {"load", "call"} => PassesFilter(t)

\* A step that leaves the threshold alone can only disturb its own thread.
LEMMA FilteringLocal ==
  ASSUME TypeOK, Filtering, NEW t \in Threads,
         UNCHANGED g_log_level_threshold,
         \A u \in Threads \ {t} :
           pc'[u] = pc[u] /\ level'[u] = level[u] /\ floor'[u] = floor[u],
         pc'[t] = "check" => g_log_level_threshold \in floor'[t],
         pc'[t] \in {"load", "call"} => PassesFilter(t)'
  PROVE  Filtering'
BY DEF Filtering, PassesFilter

LEMMA ApplicationFiltering ==
  ASSUME TypeOK, Filtering, Application
  PROVE  Filtering'
<1>1. ASSUME NEW l \in Loggers \cup {NullPtr}, set_logger(l)
      PROVE  Filtering'
  BY <1>1 DEF set_logger, locals, Filtering, PassesFilter
<1>2. ASSUME NEW c \in Collectors \cup {NullPtr}, set_metrics(c)
      PROVE  Filtering'
  BY <1>2 DEF set_metrics, locals, Filtering, PassesFilter
<1>3. ASSUME NEW v \in Levels, set_log_level_threshold(v)
      PROVE  Filtering'
  BY <1>3 DEF set_log_level_threshold, locals, Filtering, PassesFilter, Logging, TypeOK
<1>4. ASSUME NEW hook \in Hooks, Destroy(hook)
      PROVE  Filtering'
  BY <1>4 DEF Destroy, globals, locals, Filtering, PassesFilter
<1> QED
  BY <1>1, <1>2, <1>3, <1>4 DEF Application

LEMMA LibraryFiltering ==
  ASSUME TypeOK, Filtering, NEW t \in Threads, Library(t)
  PROVE  Filtering'
<1> USE DEF globals, history, PassesFilter
<1>1. CASE Enter(t)
  BY <1>1, FilteringLocal DEF Enter, Filtering
<1>2. ASSUME NEW lev \in Levels, log_if_enabled(t, lev)
      PROVE  Filtering'
  BY <1>2, FilteringLocal DEF log_if_enabled, TypeOK
<1>3. CASE LogSplit(t)
  BY <1>3, FilteringLocal DEF LogSplit, TypeOK
<1>4. CASE CheckLevel(t)
  <2>1. CASE Enabled(level[t]) /\ pc' = [pc EXCEPT ![t] = "load"]
               /\ UNCHANGED <<level, floor>>
    BY <1>4, <2>1, FilteringLocal DEF CheckLevel, Enabled, Filtering, TypeOK
  <2>2. CASE pc' = [pc EXCEPT ![t] = "run"] /\ Forget(t)
    BY <1>4, <2>2, FilteringLocal DEF CheckLevel, Forget, TypeOK
  <2> QED
    BY <1>4, <2>1, <2>2 DEF CheckLevel
<1>5. CASE LoadLogger(t)
  BY <1>5, FilteringLocal DEF LoadLogger, Filtering, TypeOK
<1>6. CASE CallLog(t)
  BY <1>6, FilteringLocal DEF CallLog, Forget, TypeOK
<1>7. CASE Close(t)
  BY <1>7, FilteringLocal DEF Close, TypeOK
<1>8. CASE LoadMetrics(t)
  BY <1>8, FilteringLocal DEF LoadMetrics, TypeOK
<1>9. CASE record_latency(t)
  BY <1>9, FilteringLocal DEF record_latency, TypeOK
<1>10. CASE increment_operation_count(t)
  BY <1>10, FilteringLocal DEF increment_operation_count, Forget, TypeOK
<1>11. CASE CatchAll(t)
  BY <1>11, FilteringLocal DEF CatchAll, Forget, TypeOK
<1> QED
  BY <1>1, <1>2, <1>3, <1>4, <1>5, <1>6, <1>7, <1>8, <1>9, <1>10, <1>11, Zenon
     DEF Library

\* The helper never passes on a message that was below every threshold in force
\* while it ran, however often the application changes the threshold meanwhile.
THEOREM HelperAlwaysFilters == Spec => []HelperFilters
<1>1. Init => Filtering
  BY DEF Init, Filtering
<1>2. ASSUME TypeOK, Filtering, [Next]_vars
      PROVE  Filtering'
  <2>1. CASE UNCHANGED vars
    BY <1>2, <2>1 DEF vars, globals, locals, history, Filtering, PassesFilter
  <2> QED
    BY <1>2, <2>1, ApplicationFiltering, LibraryFiltering DEF Next
<1>3. Filtering => HelperFilters
  BY DEF Filtering, HelperFilters
<1> QED
  BY <1>1, <1>2, <1>3, TypeCorrect, PTL DEF Spec

-----------------------------------------------------------------------------
(***************************************************************************)
(* The reports.  A collector is owed exactly the counts of the threads     *)
(* that stand between their two reports to it, and more only if it threw.  *)
(***************************************************************************)

Owing(c) == {t \in Threads : pc[t] = "count" /\ m[t] = c}

Balance ==
  \A c \in Collectors \cup {NullMetrics} :
    /\ owed[c] >= Cardinality(Owing(c))
    /\ failures = 0 => owed[c] = Cardinality(Owing(c))

LEMMA OwingFinite ==
  ASSUME NEW c
  PROVE  /\ IsFiniteSet(Owing(c)) /\ Cardinality(Owing(c)) \in Nat
         /\ IsFiniteSet(Owing(c)') /\ Cardinality(Owing(c)') \in Nat
<1>1. Owing(c) \subseteq Threads /\ Owing(c)' \subseteq Threads
  BY DEF Owing
<1> QED
  BY <1>1, ThreadsAssumption, FS_Subset, FS_CardinalityType

\* Most steps neither report nor move a thread between its reports.
LEMMA SameBalance ==
  ASSUME Balance, UNCHANGED <<owed, failures>>,
         \A c \in Collectors \cup {NullMetrics} : Owing(c)' = Owing(c)
  PROVE  Balance'
BY DEF Balance

LEMMA OtherThreads ==
  ASSUME TypeOK, NEW t \in Threads, pc[t] # "count", pc'[t] # "count",
         \A u \in Threads \ {t} : pc'[u] = pc[u] /\ m'[u] = m[u], NEW c
  PROVE  Owing(c)' = Owing(c)
BY DEF Owing

LEMMA RecordBalance ==
  ASSUME TypeOK, Balance, NEW t \in Threads, record_latency(t)
  PROVE  Balance'
<1> SUFFICES ASSUME NEW c \in Collectors \cup {NullMetrics}
             PROVE  /\ owed'[c] >= Cardinality(Owing(c)')
                    /\ failures' = 0 => owed'[c] = Cardinality(Owing(c)')
  BY DEF Balance
<1>1. /\ pc[t] = "latency" /\ pc' = [pc EXCEPT ![t] = "count"] /\ m' = m
      /\ owed' = [owed EXCEPT ![m[t]] = @ + 1] /\ failures' = failures
  BY DEF record_latency
<1>2. owed[c] \in Int /\ owed[c] >= Cardinality(Owing(c))
      /\ (failures = 0 => owed[c] = Cardinality(Owing(c)))
  BY DEF TypeOK, Balance
<1>3. CASE c = m[t]
  <2>1. Owing(c)' = Owing(c) \cup {t} /\ t \notin Owing(c)
    BY <1>1, <1>3 DEF Owing, TypeOK
  <2>2. Cardinality(Owing(c)') = Cardinality(Owing(c)) + 1
    BY <2>1, OwingFinite, FS_AddElement
  <2>3. owed'[c] = owed[c] + 1
    BY <1>1, <1>3 DEF TypeOK
  <2> QED
    BY <1>1, <1>2, <2>2, <2>3, OwingFinite
<1>4. CASE c # m[t]
  <2>1. Owing(c)' = Owing(c)
    BY <1>1, <1>4 DEF Owing, TypeOK
  <2>2. owed'[c] = owed[c]
    BY <1>1, <1>4 DEF TypeOK
  <2> QED
    BY <1>1, <1>2, <2>1, <2>2
<1> QED
  BY <1>3, <1>4

LEMMA CountBalance ==
  ASSUME TypeOK, Balance, NEW t \in Threads, increment_operation_count(t)
  PROVE  Balance'
<1> SUFFICES ASSUME NEW c \in Collectors \cup {NullMetrics}
             PROVE  /\ owed'[c] >= Cardinality(Owing(c)')
                    /\ failures' = 0 => owed'[c] = Cardinality(Owing(c)')
  BY DEF Balance
<1>1. /\ pc[t] = "count" /\ pc' = [pc EXCEPT ![t] = "run"]
      /\ m' = [m EXCEPT ![t] = NullMetrics]
      /\ owed' = [owed EXCEPT ![m[t]] = @ - 1] /\ failures' = failures
  BY DEF increment_operation_count, CountedBy
<1>2. owed[c] \in Int /\ owed[c] >= Cardinality(Owing(c))
      /\ (failures = 0 => owed[c] = Cardinality(Owing(c)))
  BY DEF TypeOK, Balance
<1>3. CASE c = m[t]
  <2>1. Owing(c)' = Owing(c) \ {t} /\ t \in Owing(c)
    BY <1>1, <1>3 DEF Owing, TypeOK
  <2>2. Cardinality(Owing(c)') = Cardinality(Owing(c)) - 1
    BY <2>1, OwingFinite, FS_RemoveElement
  <2>3. owed'[c] = owed[c] - 1
    BY <1>1, <1>3 DEF TypeOK
  <2> QED
    BY <1>1, <1>2, <2>2, <2>3, OwingFinite
<1>4. CASE c # m[t]
  <2>1. Owing(c)' = Owing(c)
    BY <1>1, <1>4 DEF Owing, TypeOK
  <2>2. owed'[c] = owed[c]
    BY <1>1, <1>4 DEF TypeOK
  <2> QED
    BY <1>1, <1>2, <2>1, <2>2
<1> QED
  BY <1>3, <1>4

LEMMA CatchBalance ==
  ASSUME TypeOK, Balance, NEW t \in Threads, CatchAll(t)
  PROVE  Balance'
<1> SUFFICES ASSUME NEW c \in Collectors \cup {NullMetrics}
             PROVE  owed'[c] >= Cardinality(Owing(c)') /\ failures' # 0
  BY DEF Balance
<1>1. /\ pc' = [pc EXCEPT ![t] = "run"] /\ m' = [m EXCEPT ![t] = NullMetrics]
      /\ owed' = owed /\ failures' = failures + 1
  BY DEF CatchAll
<1>2. Owing(c)' \subseteq Owing(c)
  BY <1>1 DEF Owing, TypeOK
<1>3. Cardinality(Owing(c)') <= Cardinality(Owing(c))
  BY <1>2, OwingFinite, FS_Subset
<1>4. owed[c] \in Int /\ owed[c] >= Cardinality(Owing(c)) /\ failures \in Nat
  BY DepthAssumption DEF TypeOK, Balance
<1> QED
  BY <1>1, <1>3, <1>4, OwingFinite

LEMMA LibraryBalance ==
  ASSUME TypeOK, Balance, NEW t \in Threads, Library(t)
  PROVE  Balance'
<1>1. CASE Enter(t)
  BY <1>1, SameBalance DEF Enter, told, Owing
<1>2. CASE \/ \E lev \in Levels : log_if_enabled(t, lev)
           \/ LogSplit(t) \/ CheckLevel(t) \/ LoadLogger(t) \/ CallLog(t)
           \/ Close(t) \/ LoadMetrics(t)
  <2>1. /\ UNCHANGED <<owed, failures>>
        /\ pc[t] # "count" /\ pc'[t] # "count"
        /\ \A u \in Threads \ {t} : pc'[u] = pc[u] /\ m'[u] = m[u]
    BY <1>2 DEF log_if_enabled, LogSplit, CheckLevel, LoadLogger, CallLog, Close,
                LoadMetrics, told, TypeOK
  <2> QED
    BY <2>1, OtherThreads, SameBalance
<1> QED
  BY <1>1, <1>2, RecordBalance, CountBalance, CatchBalance, Zenon DEF Library

\* A collector hears of an operation twice or, when it throws, less: never of a
\* count whose latency went to another collector, however often collectors are
\* swapped between the two reports, and for any number of threads.
THEOREM ReportsPaired == Spec => []MetricsPaired
<1>1. Init => Balance
  <2>1. ASSUME Init, NEW c PROVE Owing(c) = {}
    BY <2>1 DEF Init, Owing
  <2> QED
    BY <2>1, FS_EmptySet, SMTT(30) DEF Init, Balance
<1>2. ASSUME TypeOK, Balance, [Next]_vars
      PROVE  Balance'
  <2>1. CASE Application \/ UNCHANGED vars
    BY <1>2, <2>1, SameBalance
       DEF Application, set_logger, set_metrics, set_log_level_threshold, Destroy,
           vars, locals, told, Owing
  <2> QED
    BY <1>2, <2>1, LibraryBalance DEF Next
<1>3. ASSUME TypeOK, Balance
      PROVE  MetricsPaired
  <2>1. DOMAIN owed = Collectors \cup {NullMetrics}
    BY <1>3 DEF TypeOK
  <2>2. ASSUME NEW c \in DOMAIN owed PROVE owed[c] >= 0
    BY <1>3, <2>1, OwingFinite DEF TypeOK, Balance
  <2>3. ASSUME failures = 0, \A t \in Threads : pc[t] # "count",
               NEW c \in DOMAIN owed
        PROVE  owed[c] = 0
    <3>1. Owing(c) = {}
      BY <2>3 DEF Owing
    <3> QED
      BY <1>3, <2>1, <2>3, <3>1, FS_EmptySet DEF Balance
  <2> QED
    BY <2>2, <2>3 DEF MetricsPaired
<1> QED
  BY <1>1, <1>2, <1>3, TypeCorrect, PTL DEF Spec
=============================================================================
