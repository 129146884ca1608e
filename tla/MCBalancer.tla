----------------------------- MODULE MCBalancer -----------------------------
(* Balancer on two processes, two threads and two nodes in two groups, with    *)
(* windows of two samples, a pass every two seconds and a node that stays      *)
(* overloaded.  What varies is spread over three scenes.                       *)
EXTENDS Balancer, TLC

CONSTANTS p1, p2, t1, t2

MCPid == {p1, p2}
MCTid == {t1, t2}
Node1 == [Group |-> 0, Mask |-> 1]
Node2 == [Group |-> 1, Mask |-> 1]
MCNumaNodes == <<Node1, Node2>>
MCAffinity == {Node1, Node2}
MCAverage == 0 .. 1
MCCpuReading == {<<50, 10, 90>>}

\* Back by more than the frequency, or forward by it.
MCAdjustments == {-6, 5}

Listed(user) == [name |-> "listed", create |-> 0, user |-> user]
Free == [name |-> "none", create |-> 0, user |-> 0]
OneProcess == process = (p1 :> Listed(MaxUser) @@ p2 :> Free)
OneThread == owner = (t1 :> p1 @@ t2 :> Nobody)

\* Processes and threads start and exit, two in all.
SystemScene ==
  /\ OneProcess /\ OneThread
  /\ events = 0 /\ jumps = MaxJumps /\ failures = MaxFailures /\ lag = 1

\* The worker is late now and then, the clock is set once and a snapshot fails.
ClockScene ==
  /\ OneProcess /\ OneThread
  /\ events = MaxEvents /\ jumps = 0 /\ failures = 0 /\ lag = MaxLag

\* Two processes compete for the first node, and a snapshot fails.
WorkScene ==
  /\ process = [p \in Pid |-> Listed(0)]
  /\ owner = [t \in Tid |-> Nobody]
  /\ events = MaxEvents /\ jumps = MaxJumps /\ failures = 0 /\ lag = 1

MCInit == /\ Init /\ (SystemScene \/ ClockScene \/ WorkScene)
          /\ processAffinity = [p \in Pid |-> Node2]
          /\ threadAffinity = [t \in Tid |-> Node2]

MCSpec == MCInit /\ [][Next]_vars /\ WF_vars(WorkerThread) /\ WF_vars(Clock)
=============================================================================
