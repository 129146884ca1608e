------------------------------ MODULE Balancer ------------------------------
(* The balancer at work (WorkerThread, main.cpp): the loop, the table that     *)
(* Read keeps and the pass that SetAffinity makes with it, over one system     *)
(* with its processes and threads.  A step of the system, or of the worker, is *)
(* a step of all the parts it concerns.                                        *)
EXTENDS WorkerLoop, FiniteSets

CONSTANTS Pid, Tid, Nobody, NumaNodes, Affinity, Average, CpuReading, MaximumCpu, DeltaCpu,
          CallsFail,    \* as in AffinityPass
          Width, MaxCreate, MaxUser,            \* as in ProcessTable
          MaxEvents,    \* bound: starts and exits
          MaxFailures   \* bound: snapshots that fail

ASSUME BalancerAssumption ==
  /\ NumaNodes \in Seq(Affinity) /\ NumaNodes # << >>
  /\ Affinity \subseteq [Group : 0 .. Len(NumaNodes) - 1, Mask : Nat]
  /\ Average \subseteq Int /\ 0 \in Average
  /\ IsFiniteSet(Pid) /\ IsFiniteSet(Tid) /\ Nobody \notin Pid
  /\ CallsFail \in BOOLEAN /\ Width \in Nat \ {0, 1}
  /\ MaxCreate \in Nat /\ MaxUser \in Nat /\ MaxEvents \in Nat /\ MaxFailures \in Nat

VARIABLES
  process, processes, readings,                 \* as in ProcessTable
  processAffinity, owner, threadAffinity, events, pc, processes_affinity, it,
  index_numa_group, cur_numa_node, groups, mask, todo, placed, failed, report,
                                                \* as in AffinityPass
  failures                                      \* the snapshots that have failed

table_vars == <<process, processes, readings>>
pass_vars == <<processAffinity, owner, threadAffinity, events, pc, processes_affinity, it,
               index_numa_group, cur_numa_node, groups, mask, todo, placed, failed, report>>
vars == <<table_vars, pass_vars, loop_vars, failures>>

ThreadInfo == [thread_id : Tid, group_affinity : Affinity \cup {[Group |-> 0, Mask |-> 0]}]

Table == INSTANCE ProcessTable
           WITH Image <- {"listed", "other"}, Filter <- {"listed"}, NoImage <- "none",
                ThreadList <- SUBSET ThreadInfo, PidReuse <- FALSE

\* What SetAffinity finds in processes_: the entries whose window is full.
Full == IF pc = "idle" THEN {} ELSE {p \in DOMAIN processes : Table!Full(processes[p].user_time)}

Pass == INSTANCE AffinityPass
          WITH image <- [p \in Pid |-> process[p].name],
               threads <- [p \in Pid |-> IF p \in Full THEN processes[p].threads ELSE {}],
               full <- Full,
               average <- [p \in Pid |-> IF p \in Full THEN Table!AvgLongLong(processes[p].user_time)
                                         ELSE 0],
               Test <- FALSE, IdReuse <- FALSE

Init == Table!Init /\ Pass!Init /\ InitLoop /\ failures \in 0 .. MaxFailures

-----------------------------------------------------------------------------
(* The operating system. *)

StartProcess(p) == Table!Start(p) /\ Pass!StartProcess(p) /\ UNCHANGED <<loop_vars, failures>>
ExitProcess(p) == Table!Exit(p) /\ Pass!ExitProcess(p) /\ UNCHANGED <<loop_vars, failures>>

\* Only Read sees the user times: what a process spends is counted just before it.
Work(p) == loop = "test" /\ Due /\ Table!Work(p) /\ UNCHANGED <<pass_vars, loop_vars, failures>>

StartThread(t, p) ==
  UNCHANGED table_vars /\ Pass!StartThread(t, p) /\ UNCHANGED <<loop_vars, failures>>
ExitThread(t) == UNCHANGED table_vars /\ Pass!ExitThread(t) /\ UNCHANGED <<loop_vars, failures>>

System == \/ \E p \in Pid : StartProcess(p) \/ ExitProcess(p) \/ Work(p)
          \/ \E t \in Tid : ExitThread(t) \/ \E p \in Pid : StartThread(t, p)

-----------------------------------------------------------------------------
(* The worker. *)

\* The pass is due: the snapshot, which may fail, becomes the table, and the table
\* is what the pass works with.
Read ==
  /\ BeginPass
  /\ \E ok \in BOOLEAN, unopened \in SUBSET {t \in Tid : CallsFail} :
       /\ failures' = (IF ok THEN failures ELSE failures + 1) /\ failures' <= MaxFailures
       /\ Table!Read(ok, Pass!Snapshot(unopened))
  /\ Pass!Read

SetAffinity ==
  loop = "pass" /\ UNCHANGED table_vars /\ Pass!SetAffinity /\ UNCHANGED <<loop_vars, failures>>

Step(A) == A /\ UNCHANGED <<table_vars, pass_vars, failures>>

WorkerThread == \/ Read \/ SetAffinity \/ Step(pc = "idle" /\ EndPass)
                \/ Step(NotDue) \/ Step(ReadClock) \/ Step(Wake)

\* Nothing reads the clock between the sleep and the end of a pass: what the pass
\* takes, and a clock that was set meanwhile, count at its end.
Clock == Step(loop \in {"sleep", "clock"} /\ Tick)

Next == System \/ WorkerThread \/ Clock \/ Step(loop = "clock" /\ SetClock)

\* The worker is scheduled, and time passes.
Spec == Init /\ [][Next]_vars /\ WF_vars(WorkerThread) /\ WF_vars(Clock)

-----------------------------------------------------------------------------
\* The parts keep their types.
TypeOK == /\ LoopTypeOK /\ Table!TypeOK /\ Pass!TypeOK
          /\ failures \in 0 .. MaxFailures

\* The processes are bound in the order of what they have really spent over the
\* last calls of Read, and no process is bound that has not been there for a whole
\* period of analysis (Read and SetAffinity together).
Spent(p) == readings[p][Capacity + 1].user - readings[p][1].user
HeaviestConsumerFirst ==
  \A j, k \in DOMAIN placed :
    LET p == placed[j].pid
        q == placed[k].pid
    IN  Len(readings[p]) = Capacity + 1
        /\ (j < k => Spent(p) \div Capacity >= Spent(q) \div Capacity)

\* The passes go on for ever, also when the clock is set back.
PassesGoOn == []<>(loop = "pass")

\* On a machine that stays unevenly loaded every listed process is bound, with all
\* of its threads, to one node, once nothing starts, exits or fails any more: also
\* the threads that were started after the snapshot of a pass.
Bound(p) ==
  /\ \E n \in Pass!Nodes : processAffinity[p] = NumaNodes[n]
  /\ \A t \in Pass!ThreadsOf(p) : threadAffinity[t] = processAffinity[p]
AllBound == \A p \in Pid : process[p].name = "listed" => Bound(p)
AllGetBound == []<>(pc = "idle" /\ AllBound)
=============================================================================
