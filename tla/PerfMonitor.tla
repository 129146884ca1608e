---------------------------- MODULE PerfMonitor ----------------------------
(* PerfMonitor (perf_monitor.cpp): the collector thread samples the load of    *)
(* the machine and of every NUMA node once a second; the worker thread adds    *)
(* the counters, starts the collector, asks for averages and in the end        *)
(* destroys the monitor.  The two share the rings (under access_counters_) and *)
(* is_collect_ and collector_thread_id_ (under nothing).                       *)
EXTENDS RingBuffer, CpuLoad

CONSTANTS Counters,     \* the number of counters: the machine's and the nodes'
          Load,         \* the values a counter may show, in percent
          CounterFails  \* may one counter fail while the query succeeds?

ASSUME MonitorAssumption ==
  Counters \in Nat \ {0, 1} /\ Load \subseteq Nat /\ CounterFails \in BOOLEAN

VARIABLES
  \* the members of PerfMonitor
  pdh_query,            \* is the query open?
  counters,             \* for each counter added, whether PDH knows it
  counters_values,      \* its ring
  is_collect, collector_thread_id, access_counters,
  \* the worker thread
  worker,               \* where it is
  avg_values,           \* what GetAvgValues last returned
  \* the collector thread
  collector,            \* where it is
  i,                    \* the counter Collect is at
  value,                \* what the query holds: a load for every counter
  samples,              \* how many samples the query holds, up to two
  recent                \* history: the last Capacity values of every counter that
                        \* could be formatted

members == <<pdh_query, counters, counters_values, is_collect, collector_thread_id,
             access_counters>>
vars == <<members, worker, avg_values, collector, i, value, samples, recent>>

Counter == 1 .. Counters
None == "none"

Init ==
  /\ pdh_query = FALSE /\ counters = << >> /\ counters_values = << >>
  /\ is_collect = FALSE /\ collector_thread_id = None /\ access_counters = None
  /\ worker = "init" /\ avg_values = [c \in Counter |-> 0]
  /\ collector = None /\ i = 1 /\ value = [c \in Counter |-> 0] /\ samples = 0
  /\ recent = << >>

-----------------------------------------------------------------------------
(* The worker thread. *)

May(failure) == IF failure THEN BOOLEAN ELSE {TRUE}

\* AddCounter opens the query when it is not open; whether it could and whether
\* PDH took the counter is not looked at.
AddCounter ==
  /\ worker = "init" /\ Len(counters) < Counters
  /\ \E opened, known \in May(CounterFails) :
       /\ pdh_query' = (pdh_query \/ opened)
       /\ counters' = Append(counters, known /\ pdh_query')
  /\ counters_values' = Append(counters_values, NewRing)
  /\ UNCHANGED <<is_collect, collector_thread_id, access_counters, worker, avg_values,
                 collector, i, value, samples, recent>>

\* StartCollecting: the thread may run before its id is stored.
StartThread ==
  /\ worker = "init" /\ Len(counters) = Counters
  /\ collector' = "spawned"
  /\ worker' = "start"
  /\ UNCHANGED <<members, avg_values, i, value, samples, recent>>

StoreId ==
  /\ worker = "start"
  /\ collector_thread_id' = "collector"
  /\ worker' = "running"
  /\ UNCHANGED <<pdh_query, counters, counters_values, is_collect, access_counters,
                 avg_values, collector, i, value, samples, recent>>

\* What GetAvgValues computes: the iterator into the result moves on only past a
\* full ring, so the n-th value is the average of the n-th full ring, and zeros
\* come after the last.
NthFull(n) ==
  {d \in DOMAIN counters_values :
     /\ Full(counters_values[d])
     /\ Cardinality({e \in 1 .. d : Full(counters_values[e])}) = n}
Averages ==
  [c \in Counter |-> IF NthFull(c) = {} THEN 0
                     ELSE AvgDouble(counters_values[CHOOSE d \in NthFull(c) : TRUE])]

\* GetAvgValues copies the averages under the lock: one step, when it gets it.
Unlocked == TRUE
LockFree == access_counters = None

GetAvgValues ==
  /\ worker = "running" /\ LockFree
  /\ avg_values' = Averages
  /\ UNCHANGED <<members, worker, collector, i, value, samples, recent>>

\* ~PerfMonitor: the flag, the wait, and the release of the members.
ClearFlag ==
  /\ worker = "running"
  /\ is_collect' = FALSE
  /\ worker' = "waiting"
  /\ UNCHANGED <<pdh_query, counters, counters_values, collector_thread_id,
                 access_counters, avg_values, collector, i, value, samples, recent>>

\* A mistake: the collector is not waited for.
DestroyAtOnce ==
  /\ worker = "waiting"
  /\ pdh_query' = FALSE /\ counters' = << >> /\ counters_values' = << >>
  /\ worker' = "destroyed"
  /\ UNCHANGED <<is_collect, collector_thread_id, access_counters, avg_values,
                 collector, i, value, samples, recent>>

Destroy ==
  /\ worker = "waiting" /\ collector_thread_id = None
  /\ pdh_query' = FALSE /\ counters' = << >> /\ counters_values' = << >>
  /\ worker' = "destroyed"
  /\ UNCHANGED <<is_collect, collector_thread_id, access_counters, avg_values,
                 collector, i, value, samples, recent>>

Worker == AddCounter \/ StartThread \/ StoreId \/ GetAvgValues \/ ClearFlag \/ Destroy

-----------------------------------------------------------------------------
(* The collector thread, StartCollectingThread. *)

SetFlag ==
  /\ collector = "spawned"
  /\ is_collect' = TRUE
  /\ collector' = "test"
  /\ UNCHANGED <<pdh_query, counters, counters_values, collector_thread_id,
                 access_counters, worker, avg_values, i, value, samples, recent>>

TestFlag ==
  /\ collector = "test"
  /\ collector' = IF is_collect THEN "collect" ELSE "leave"
  /\ UNCHANGED <<members, worker, avg_values, i, value, samples, recent>>

\* PdhCollectQueryData, which may fail or have no query to collect.
Query ==
  /\ collector = "collect"
  /\ \/ /\ pdh_query
        /\ value' \in [Counter -> Load]
        /\ samples' = IF samples < 2 THEN samples + 1 ELSE 2
        /\ collector' = "lock"
     \/ /\ collector' = "test"
        /\ UNCHANGED <<value, samples>>
  /\ UNCHANGED <<members, worker, avg_values, i, recent>>

Lock ==
  /\ collector = "lock" /\ LockFree
  /\ access_counters' = "collector"
  /\ i' = 1
  /\ collector' = "add"
  /\ UNCHANGED <<pdh_query, counters, counters_values, is_collect, collector_thread_id,
                 worker, avg_values, value, samples, recent>>

\* A load is a difference of two samples: the first has no formatted value.
Formatted(c) == IF counters[c] /\ samples = 2 THEN May(CounterFails) ELSE {FALSE}

AddValue ==
  /\ collector = "add" /\ i <= Len(counters)
  /\ \E ok \in Formatted(i) :
       counters_values' = IF ok THEN [counters_values EXCEPT ![i] = Add(@, value[i])]
                          ELSE counters_values
  /\ i' = i + 1
  /\ UNCHANGED <<pdh_query, counters, is_collect, collector_thread_id, access_counters,
                 worker, avg_values, collector, value, samples, recent>>

\* A mistake: the guard is released before the last counter.
AllButOne == Len(counters) - 1
AllCounters == Len(counters)

Unlock ==
  /\ collector = "add" /\ i > AllCounters
  /\ access_counters' = None
  /\ recent' = IF samples < 2 THEN recent
               ELSE IF Len(recent) < Capacity THEN Append(recent, value)
               ELSE Append(Tail(recent), value)
  /\ i' = 1 /\ value' = [c \in Counter |-> 0]
  /\ collector' = "test"
  /\ UNCHANGED <<pdh_query, counters, counters_values, is_collect, collector_thread_id,
                 worker, avg_values, samples>>

\* The last statement of the thread; a mistake leaves it out.
LeaveSilently ==
  /\ collector = "leave"
  /\ collector' = "done"
  /\ UNCHANGED <<members, worker, avg_values, i, value, samples, recent>>

Leave ==
  /\ collector = "leave"
  /\ collector_thread_id' = None
  /\ collector' = "done"
  /\ UNCHANGED <<pdh_query, counters, counters_values, is_collect, access_counters,
                 worker, avg_values, i, value, samples, recent>>

Collector == SetFlag \/ TestFlag \/ Query \/ Lock \/ AddValue \/ Unlock \/ Leave

Next == Worker \/ Collector

Spec == Init /\ [][Next]_vars

\* Both threads are scheduled.  Nothing makes the worker destroy the monitor, but
\* a destructor that has begun goes on.
FairSpec == Spec /\ WF_vars(Collector) /\ WF_vars(Destroy)

-----------------------------------------------------------------------------
\* The variables of the monitor and its two threads keep their types.
TypeOK ==
  /\ pdh_query \in BOOLEAN /\ is_collect \in BOOLEAN
  /\ counters \in Seq(BOOLEAN)
  /\ counters_values \in Seq(Rings(Load)) /\ Len(counters_values) = Len(counters)
  /\ collector_thread_id \in {None, "collector"}
  /\ access_counters \in {None, "collector"}
  /\ worker \in {"init", "start", "running", "waiting", "destroyed"}
  /\ avg_values \in [Counter -> 0 .. Max(Load \cup {0})]
  /\ collector \in {None, "spawned", "test", "collect", "lock", "add", "leave", "done"}
  /\ i \in 1 .. Counters + 1
  /\ value \in [Counter -> Load \cup {0}]
  /\ samples \in 0 .. 2
  /\ recent \in Seq([Counter -> Load \cup {0}]) /\ Len(recent) <= Capacity

\* As long as no single counter fails, the rings are in step whenever the lock is
\* free: each holds the last values of its counter, the same seconds for all.
WindowsAreRecent ==
  access_counters = None /\ worker \in {"running", "waiting"} =>
    \A c \in Counter : Window(counters_values[c]) = [k \in DOMAIN recent |-> recent[k][c]]

\* GetAvgValues returns the average of every counter in the place of that
\* counter, over one and the same period, or nothing but zeros (README.md,
\* algorithm, steps 1 and 2).
AlignedAverages ==
  [][GetAvgValues =>
       \A c \in Counter :
         avg_values'[c] = IF Len(recent) = Capacity
                          THEN SumFunction([k \in DOMAIN recent |-> recent[k][c]]) \div Capacity
                          ELSE 0]_vars

\* The decision to balance is made only when the loads of all the nodes over the
\* whole period call for it (README.md, algorithm, step 3).
DecisionIsReal ==
  [][GetAvgValues /\ IsNeedToSetAffinity(avg_values') =>
       /\ \A c \in 2 .. Counters : Full(counters_values[c])
       /\ IsNeedToSetAffinity([c \in Counter |-> AvgDouble(counters_values[c])])]_vars

\* The members are never released under the collector: once the destructor is
\* through, the collector does nothing more, though only the unprotected id
\* keeps the two apart.
NoUseAfterDestroy == worker = "destroyed" => collector = "done"

\* Seen without its counters, the monitor parts from its collector by the
\* handshake of StopHandshake: nothing else touches the flag and the id.
HS == INSTANCE StopHandshake WITH
        monitor <- worker,
        collector <- IF collector \in {"lock", "add"} THEN "collect" ELSE collector
ImplementsHandshake == HS!SpecHandshake

\* A monitor whose collector has got as far as its loop is destroyed when its
\* destructor runs, wherever the collector is.
StopsOnceRunning ==
  (worker = "waiting" /\ ~is_collect /\ collector # "spawned") ~> worker = "destroyed"
=============================================================================
