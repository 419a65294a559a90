---------------------------- MODULE Observability ----------------------------
(***************************************************************************)
(* The observability hooks (src/src/observability.cpp, observability.hpp)  *)
(* and the places of the library that use them, on several threads at      *)
(* once: each thread works on buffers of its own, while the application    *)
(* changes the global logger, metrics collector and log level under it.    *)
(*                                                                         *)
(* An operation of the library opens a ScopedMetric, may log, may run      *)
(* other operations inside, and reports to the collector when it closes.   *)
(* Every atomic load and every call of a hook is a step of its own.  What  *)
(* is logged is abstracted to its level, and a collector to the difference *)
(* between the latencies and the operations it was told of.                *)
(*                                                                         *)
(* The application keeps its side of the contract the headers state: it    *)
(* destroys a hook only when it has installed another one and no operation *)
(* is left that began before that.                                         *)
(***************************************************************************)
EXTENDS Integers, FiniteSets

CONSTANTS
  Threads,      \* threads that use the library
  Loggers,      \* the application's ILogger objects
  Collectors,   \* the application's IMetrics objects
  NullLogger,   \* null_logger
  NullMetrics,  \* null_metrics
  NullPtr,      \* nullptr, as an argument of set_logger and set_metrics
  Levels,       \* the LogLevels used, of Debug = 0 .. Error = 3
  MaxDepth,     \* bound: operations open inside each other on one thread
  MaxFailures   \* bound: exceptions thrown by collectors

Info == 1   \* LogLevel::Info

ASSUME ThreadsAssumption == IsFiniteSet(Threads)
ASSUME HooksAssumption ==
  {NullLogger, NullMetrics, NullPtr} \cap (Loggers \cup Collectors) = {}
ASSUME LevelsAssumption == Info \in Levels /\ Levels \subseteq 0 .. 3
ASSUME DepthAssumption == MaxDepth \in Nat /\ MaxFailures \in Nat

VARIABLES
  g_logger,
  g_metrics,
  g_log_level_threshold,
  pc,          \* per thread: "run", or where it is in a hook's call
  depth,       \* per thread: ScopedMetrics that are open
  level,       \* per thread: the level of the message being logged
  logger,      \* per thread: the local logger pointer of a log call
  m,           \* per thread: ~ScopedMetric's local m
  owed,        \* per collector: latencies recorded less operations counted
  failures,    \* exceptions thrown by collectors so far
  installed,   \* history: the hooks the application last asked for
  held,        \* history, per thread: hooks asked for since it last rested
  floor,       \* history, per thread: thresholds since the log call began
  dead         \* history: the hooks destroyed

globals == <<g_logger, g_metrics, g_log_level_threshold>>
locals == <<pc, depth, level, logger, m>>
told == <<owed, failures>>
history == <<installed, held, floor, dead>>
vars == <<globals, locals, told, history>>

Hooks == Loggers \cup Collectors
Steps == {"run", "check", "load", "call", "call_split",
          "metrics", "latency", "count"}
Logging == {"check", "load", "call", "call_split"}
Resting(t) == pc[t] = "run" /\ depth[t] = 0

Init ==
  /\ g_logger = NullLogger
  /\ g_metrics = NullMetrics
  /\ g_log_level_threshold = Info
  /\ pc = [t \in Threads |-> "run"]
  /\ depth = [t \in Threads |-> 0]
  /\ level = [t \in Threads |-> Info]
  /\ logger = [t \in Threads |-> NullLogger]
  /\ m = [t \in Threads |-> NullMetrics]
  /\ owed = [c \in Collectors \cup {NullMetrics} |-> 0]
  /\ failures = 0
  /\ installed = [logger |-> NullPtr, metrics |-> NullPtr]
  /\ held = [t \in Threads |-> {}]
  /\ floor = [t \in Threads |-> {}]
  /\ dead = {}

-----------------------------------------------------------------------------
(***************************************************************************)
(* The application                                                         *)
(***************************************************************************)

\* Every thread that is not at rest may have seen a hook installed meanwhile.
Exposed(hook) ==
  held' = [t \in Threads |-> IF Resting(t) THEN {} ELSE held[t] \cup {hook}]

\* Mutants: nullptr is stored as it is; it changes nothing.
StoredRaw(l) == l
StoredUnlessNull(l) == IF l = NullPtr THEN g_logger ELSE l

\* What set_logger stores: never a null pointer.
Stored(l) == IF l = NullPtr THEN NullLogger ELSE l

set_logger(l) ==
  /\ l \notin dead
  /\ g_logger' = Stored(l)
  /\ installed' = [installed EXCEPT !.logger = l]
  /\ Exposed(l)
  /\ UNCHANGED <<g_metrics, g_log_level_threshold, locals, told, floor, dead>>

set_metrics(c) ==
  /\ c \notin dead
  /\ g_metrics' = IF c = NullPtr THEN NullMetrics ELSE c
  /\ installed' = [installed EXCEPT !.metrics = c]
  /\ Exposed(c)
  /\ UNCHANGED <<g_logger, g_log_level_threshold, locals, told, floor, dead>>

set_log_level_threshold(v) ==
  /\ g_log_level_threshold' = v
  /\ floor' = [t \in Threads |-> IF pc[t] \in Logging
                                 THEN floor[t] \cup {v} ELSE {}]
  /\ UNCHANGED <<g_logger, g_metrics, locals, told, installed, held, dead>>

\* The owner destroys a hook that is neither installed nor in use.
Destroy(hook) ==
  /\ hook \notin dead
  /\ hook # installed.logger /\ hook # installed.metrics
  /\ \A t \in Threads : hook \notin held[t]
  /\ dead' = dead \cup {hook}
  /\ UNCHANGED <<globals, locals, told, installed, held, floor>>

-----------------------------------------------------------------------------
(***************************************************************************)
(* The library                                                             *)
(***************************************************************************)

\* A thread leaves its rest: from now on it may meet what is installed.
Wake(t) ==
  held' = [held EXCEPT ![t] = IF Resting(t)
                              THEN {installed.logger, installed.metrics}
                              ELSE held[t]]

\* set_impl, get_impl, to_json_string or from_json_string is entered.
Enter(t) ==
  /\ pc[t] = "run"
  /\ depth[t] < MaxDepth
  /\ depth' = [depth EXCEPT ![t] = @ + 1]
  /\ Wake(t)
  /\ UNCHANGED <<globals, pc, level, logger, m, told, installed, floor, dead>>

\* log_if_enabled is called: by find_next at level Debug, by the JSON
\* conversions at level Info, or by the application at any level.
log_if_enabled(t, lev) ==
  /\ pc[t] = "run"
  /\ pc' = [pc EXCEPT ![t] = "check"]
  /\ level' = [level EXCEPT ![t] = lev]
  /\ floor' = [floor EXCEPT ![t] = {g_log_level_threshold}]
  /\ Wake(t)
  /\ UNCHANGED <<globals, depth, logger, m, told, installed, dead>>

\* set_impl splits a node, and loads the logger itself to say so.
LogSplit(t) ==
  /\ pc[t] = "run"
  /\ depth[t] > 0
  /\ pc' = [pc EXCEPT ![t] = "call_split"]
  /\ level' = [level EXCEPT ![t] = Info]
  /\ floor' = [floor EXCEPT ![t] = {g_log_level_threshold}]
  /\ logger' = [logger EXCEPT ![t] = g_logger]
  /\ UNCHANGED <<globals, depth, m, told, installed, held, dead>>

\* The locals of a log call are gone, and of an operation if t comes to rest.
Forget(t) ==
  /\ level' = [level EXCEPT ![t] = Info]
  /\ logger' = [logger EXCEPT ![t] = NullLogger]
  /\ floor' = [floor EXCEPT ![t] = {}]
  /\ held' = [held EXCEPT ![t] = IF depth'[t] = 0 THEN {} ELSE held[t]]

\* Mutant: only messages up to the threshold pass.
EnabledUpTo(lev) == lev <= g_log_level_threshold
Enabled(lev) == lev >= g_log_level_threshold

CheckLevel(t) ==
  /\ pc[t] = "check"
  /\ UNCHANGED depth
  /\ \/ /\ Enabled(level[t])
        /\ pc' = [pc EXCEPT ![t] = "load"]
        /\ UNCHANGED <<level, logger, floor, held>>
     \/ /\ ~Enabled(level[t])
        /\ pc' = [pc EXCEPT ![t] = "run"]
        /\ Forget(t)
  /\ UNCHANGED <<globals, m, told, installed, dead>>

LoadLogger(t) ==
  /\ pc[t] = "load"
  /\ logger' = [logger EXCEPT ![t] = g_logger]
  /\ pc' = [pc EXCEPT ![t] = "call"]
  /\ UNCHANGED <<globals, depth, level, m, told, history>>

\* logger->log(...): what it returns is ignored.
CallLog(t) ==
  /\ pc[t] \in {"call", "call_split"}
  /\ pc' = [pc EXCEPT ![t] = "run"]
  /\ UNCHANGED depth
  /\ Forget(t)
  /\ UNCHANGED <<globals, m, told, installed, dead>>

\* ~ScopedMetric: the innermost operation ends, normally or by an exception.
Close(t) ==
  /\ pc[t] = "run"
  /\ depth[t] > 0
  /\ pc' = [pc EXCEPT ![t] = "metrics"]
  /\ UNCHANGED <<globals, depth, level, logger, m, told, history>>

LoadMetrics(t) ==
  /\ pc[t] = "metrics"
  /\ m' = [m EXCEPT ![t] = g_metrics]
  /\ pc' = [pc EXCEPT ![t] = "latency"]
  /\ UNCHANGED <<globals, depth, level, logger, told, history>>

record_latency(t) ==
  /\ pc[t] = "latency"
  /\ owed' = [owed EXCEPT ![m[t]] = @ + 1]
  /\ pc' = [pc EXCEPT ![t] = "count"]
  /\ UNCHANGED <<globals, depth, level, logger, m, failures, history>>

\* Mutant: the collector is loaded again for the second call.
CountedByCurrent(t) == g_metrics
CountedBy(t) == m[t]

increment_operation_count(t) ==
  /\ pc[t] = "count"
  /\ owed' = [owed EXCEPT ![CountedBy(t)] = @ - 1]
  /\ depth' = [depth EXCEPT ![t] = @ - 1]
  /\ pc' = [pc EXCEPT ![t] = "run"]
  /\ m' = [m EXCEPT ![t] = NullMetrics]
  /\ Forget(t)
  /\ UNCHANGED <<globals, failures, installed, dead>>

\* The collector throws: ~ScopedMetric catches that and reports no more.
CatchAll(t) ==
  /\ pc[t] \in {"latency", "count"}
  /\ failures < MaxFailures
  /\ failures' = failures + 1
  /\ depth' = [depth EXCEPT ![t] = @ - 1]
  /\ pc' = [pc EXCEPT ![t] = "run"]
  /\ m' = [m EXCEPT ![t] = NullMetrics]
  /\ Forget(t)
  /\ UNCHANGED <<globals, owed, installed, dead>>

Library(t) ==
  \/ Enter(t)
  \/ \E lev \in Levels : log_if_enabled(t, lev)
  \/ LogSplit(t)
  \/ CheckLevel(t)
  \/ LoadLogger(t)
  \/ CallLog(t)
  \/ Close(t)
  \/ LoadMetrics(t)
  \/ record_latency(t)
  \/ increment_operation_count(t)
  \/ CatchAll(t)

Application ==
  \/ \E l \in Loggers \cup {NullPtr} : set_logger(l)
  \/ \E c \in Collectors \cup {NullPtr} : set_metrics(c)
  \/ \E v \in Levels : set_log_level_threshold(v)
  \/ \E hook \in Hooks : Destroy(hook)

Next == Application \/ \E t \in Threads : Library(t)

Spec == Init /\ [][Next]_vars

-----------------------------------------------------------------------------

TypeOK ==
  /\ g_logger \in Loggers \cup {NullLogger}
  /\ g_metrics \in Collectors \cup {NullMetrics}
  /\ g_log_level_threshold \in Levels
  /\ pc \in [Threads -> Steps]
  /\ depth \in [Threads -> 0 .. MaxDepth]
  /\ level \in [Threads -> Levels]
  /\ logger \in [Threads -> Loggers \cup {NullLogger}]
  /\ m \in [Threads -> Collectors \cup {NullMetrics}]
  /\ owed \in [Collectors \cup {NullMetrics} -> Int]
  /\ failures \in 0 .. MaxFailures
  /\ installed \in [logger : Loggers \cup {NullPtr},
                    metrics : Collectors \cup {NullPtr}]
  /\ held \in [Threads -> SUBSET (Hooks \cup {NullPtr})]
  /\ floor \in [Threads -> SUBSET Levels]
  /\ dead \subseteq Hooks

\* No thread ever calls a logger or a collector that its owner has destroyed,
\* however the owner's changes fall between a thread's loads and its calls.
NoUseAfterFree ==
  \A t \in Threads :
    /\ pc[t] \in {"call", "call_split"} => logger[t] \notin dead
    /\ pc[t] \in {"latency", "count"} => m[t] \notin dead

PassesFilter(t) == \E v \in floor[t] : level[t] >= v

\* A message that log_if_enabled passes on is at or above a threshold that was
\* in force at some time of that call.
HelperFilters == \A t \in Threads : pc[t] = "call" => PassesFilter(t)

\* Every message of the library is filtered by the threshold, as the README
\* says of its internal logging calls.
AllFiltered ==
  \A t \in Threads : pc[t] \in {"call", "call_split"} => PassesFilter(t)

\* A collector is told of no operation whose latency another one got, and
\* misses the count of a latency it has only if it threw.
MetricsPaired ==
  /\ \A c \in DOMAIN owed : owed[c] >= 0
  /\ failures = 0 /\ (\A t \in Threads : pc[t] # "count") =>
       \A c \in DOMAIN owed : owed[c] = 0
=============================================================================
