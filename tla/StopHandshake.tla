---------------------------- MODULE StopHandshake ----------------------------
(* How a PerfMonitor and its collector thread part (perf_monitor.cpp), without *)
(* the counters: the flag is_collect_ tells the collector to leave, and        *)
(* collector_thread_id_ tells the destructor that it has left.  Neither member *)
(* is protected by a lock.                                                     *)

VARIABLES monitor,              \* the life of the monitor: init, start (the thread
                                \* is created), running, waiting (in the destructor),
                                \* destroyed
          is_collect,
          collector_thread_id,
          collector             \* where the collector is

None == "none"
handshake == <<monitor, is_collect, collector_thread_id, collector>>

InitHandshake == /\ monitor = "init" /\ is_collect = FALSE
                 /\ collector_thread_id = None /\ collector = None

\* StartCollecting: the thread may run before its id is stored.
Create == /\ monitor = "init" /\ monitor' = "start"
          /\ collector' = "spawned"
          /\ UNCHANGED <<is_collect, collector_thread_id>>

StoreId == /\ monitor = "start" /\ monitor' = "running"
           /\ collector_thread_id' = "collector"
           /\ UNCHANGED <<is_collect, collector>>

\* ~PerfMonitor: the flag, and the end of the wait with all that follows it.
ClearFlag == /\ monitor = "running" /\ monitor' = "waiting"
             /\ is_collect' = FALSE
             /\ UNCHANGED <<collector_thread_id, collector>>

Destroy == /\ monitor = "waiting" /\ collector_thread_id = None
           /\ monitor' = "destroyed"
           /\ UNCHANGED <<is_collect, collector_thread_id, collector>>

\* StartCollectingThread: the flag, the loop, and the id.
SetFlag == /\ collector = "spawned" /\ collector' = "test"
           /\ is_collect' = TRUE
           /\ UNCHANGED <<monitor, collector_thread_id>>

TestFlag == /\ collector = "test"
            /\ collector' = IF is_collect THEN "collect" ELSE "leave"
            /\ UNCHANGED <<monitor, is_collect, collector_thread_id>>

Collect == /\ collector = "collect" /\ collector' = "test"
           /\ UNCHANGED <<monitor, is_collect, collector_thread_id>>

Leave == /\ collector = "leave" /\ collector' = "done"
         /\ collector_thread_id' = None
         /\ UNCHANGED <<monitor, is_collect>>

Collector == SetFlag \/ TestFlag \/ Collect \/ Leave

NextHandshake == Create \/ StoreId \/ ClearFlag \/ Destroy \/ Collector

SpecHandshake == InitHandshake /\ [][NextHandshake]_handshake
==============================================================================
