--------------------------- MODULE MCAffinityPass ---------------------------
(* Two nodes in two groups, and two kinds of scene.  Threads: a listed process *)
(* with one thread or with two in different groups, a pid that is free or has  *)
(* a process that is listed or not, one that is not listed, and one start or   *)
(* exit at any moment.  Round: three listed processes, so that the round goes  *)
(* past its end, the first one with a thread elsewhere, and nothing exits.     *)
EXTENDS AffinityPass, TLC

CONSTANTS p1, p2, p3, t1, t2

MCPid == {p1, p2, p3}
MCTid == {t1, t2}
Node1 == [Group |-> 0, Mask |-> 1]
Node2 == [Group |-> 1, Mask |-> 1]
WholeGroup == [Group |-> 0, Mask |-> 3]
MCNumaNodes == <<Node1, Node2>>
MCAffinity == {Node1, Node2, WholeGroup}
MCAverage == {0, 1}
MCCpuReading == {<<50, 40, 60>>, <<50, 10, 90>>}

ThreadScene ==
  /\ image[p1] = "listed" /\ image[p3] = "other"
  /\ processAffinity = [p \in Pid |-> WholeGroup]
  /\ owner[t1] = p1 /\ owner[t2] \in {p1, Nobody}
  /\ threadAffinity = (t1 :> Node2 @@ t2 :> WholeGroup)
  /\ events = 0

RoundScene ==
  /\ image = [p \in Pid |-> "listed"]
  /\ processAffinity = [p \in Pid |-> Node2]
  /\ owner = (t1 :> p1 @@ t2 :> Nobody)
  /\ threadAffinity = [t \in Tid |-> Node1]
  /\ events = MaxEvents

\* In the second scene the bound on the events is used up from the start.
MCInit == Init /\ (ThreadScene \/ RoundScene)
MCSpec == MCInit /\ [][Next]_vars /\ WF_vars(SetAffinity)
=============================================================================
