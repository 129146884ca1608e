------------------------- MODULE AffinityPassProofs -------------------------
(* One pass of SetAffinity, for any number of processes, threads and nodes:    *)
(* types, the round robin and the spread it gives, and the order of the        *)
(* processes, and its end, whatever the operating system does meanwhile.       *)
EXTENDS AffinityPass, FiniteSetTheorems, TLAPS

\* Read remembers finitely many threads, so that they can be counted.
FiniteSnapshots == \A p \in Pid : IsFiniteSet(threads[p])

\* The index and the pointer to the node whose turn it is agree with each other
\* and with the last process placed.
TurnInv ==
  IF placed = << >>
  THEN index_numa_group = 0 /\ cur_numa_node \in {NullNode, 1}
  ELSE /\ cur_numa_node = index_numa_group + 1
       /\ index_numa_group = IF placed[Len(placed)].node = Len(NumaNodes) THEN 0
                             ELSE placed[Len(placed)].node

\* Between passes there is no list.  In a pass the processes placed are among
\* those the iterator has passed, and the list is sorted and has no process twice.
OrderInv ==
  /\ pc \in {"idle", "decide"} => processes_affinity = << >> /\ placed = << >>
  /\ \A i \in DOMAIN processes_affinity : processes_affinity[i] \in full
  /\ \A i, j \in DOMAIN processes_affinity :
       i < j => /\ processes_affinity[i] # processes_affinity[j]
                /\ average[processes_affinity[i]] >= average[processes_affinity[j]]
  /\ \A k \in DOMAIN placed :
       \E i \in 1 .. it - 1 : placed[k].pid = processes_affinity[i]

\* The nodes before the pointer have had one turn more than those from it on.
CountInv ==
  \E rounds \in Nat : \A n \in Nodes :
    /\ IsFiniteSet(Turns(n))
    /\ Cardinality(Turns(n)) = IF n <= index_numa_group THEN rounds + 1 ELSE rounds

PassInv == TypeOK /\ FiniteSnapshots /\ TurnInv

-----------------------------------------------------------------------------
(* The helpers. *)

\* There is a first node.
LEMMA NodesNonempty == Len(NumaNodes) \in Nat \ {0} /\ 1 \in Nodes
BY PassAssumption DEF Nodes

\* The weight function always chooses the first node: the count it compares with
\* starts at zero, and no node has fewer threads than none.
LEMMA WeightIsFirst ==
  ASSUME NEW ts, IsFiniteSet(ts)
  PROVE  CalculateNumaWeight(ts) = 1
<1>1. ASSUME NEW n \in Nodes
      PROVE  Aggregator(ts, n) \in Nat
  <2> DEFINE S == {s \in ts : s.group_affinity.Group = n - 1}
  <2>1. IsFiniteSet(S)
    BY FS_Subset
  <2> QED
    BY <2>1, FS_CardinalityType DEF Aggregator
<1>2. {n \in Nodes : Aggregator(ts, n) < InitialCount} = {}
  BY <1>1 DEF InitialCount
<1> QED
  BY <1>2 DEF CalculateNumaWeight

\* The turn stays among the nodes.
LEMMA NextIndexType ==
  ASSUME index_numa_group \in 0 .. Len(NumaNodes) - 1
  PROVE  /\ NextIndex \in 0 .. Len(NumaNodes) - 1
         /\ NextIndex + 1 \in Nodes
BY NodesNonempty DEF NextIndex, Nodes

\* What the calls return about a process has the right type.
LEMMA QueryTypes ==
  ASSUME TypeOK, NEW p \in Pid
  PROVE  MaskOf(p) \in Nat
BY PassAssumption DEF TypeOK, MaskOf

\* The elements of an inner-loop list are threads of the snapshot.
LEMMA GroupMaskType ==
  ASSUME TypeOK, cur_numa_node \in Nodes
  PROVE  GroupMask \in Affinity
BY PassAssumption DEF TypeOK, GroupMask, Nodes

-----------------------------------------------------------------------------
(* Types and turns. *)

\* Between two passes nothing of a pass is left over.
LEMMA InitPassInv == Init => PassInv
<1> SUFFICES ASSUME Init PROVE PassInv
  OBVIOUS
<1>1. TypeOK
  BY NodesNonempty, PassAssumption DEF Init, TypeOK, NullNode
<1>2. FiniteSnapshots
  BY FS_EmptySet DEF Init, FiniteSnapshots
<1>3. TurnInv
  BY DEF Init, TurnInv
<1> QED
  BY <1>1, <1>2, <1>3 DEF PassInv

\* What the operating system does between the calls of a pass touches no variable
\* of the pass.
LEMMA EnvironmentPassInv ==
  ASSUME PassInv, Environment
  PROVE  PassInv'
<1> USE DEF PassInv
<1>1. TypeOK'
  <2>1. CASE \E p \in Pid : StartProcess(p)
    BY <2>1, PassAssumption DEF TypeOK, StartProcess, table, locals, history, Image
  <2>2. CASE \E p \in Pid : ExitProcess(p)
    BY <2>2, PassAssumption DEF TypeOK, ExitProcess, table, locals, history, Image
  <2>3. CASE \E t \in Tid : ExitThread(t)
    BY <2>3, PassAssumption DEF TypeOK, ExitThread, table, locals, history
  <2>4. CASE \E t \in Tid, p \in Pid : StartThread(t, p)
    <3> PICK t \in Tid, p \in Pid : StartThread(t, p)
      BY <2>4
    <3>1. /\ owner' \in [Tid -> Pid \cup {Nobody}]
          /\ threadAffinity' \in [Tid -> Affinity]
          /\ events' \in 0 .. MaxEvents
      BY PassAssumption DEF TypeOK, StartThread
    <3> QED
      BY <3>1 DEF TypeOK, StartThread, table, locals, history
  <2> QED
    BY <2>1, <2>2, <2>3, <2>4 DEF Environment
<1>2. UNCHANGED <<threads, placed, index_numa_group, cur_numa_node>>
  BY DEF Environment, StartProcess, ExitProcess, StartThread, ExitThread,
         table, locals, history
<1> QED
  BY <1>1, <1>2 DEF FiniteSnapshots, TurnInv

\* The snapshot a pass starts from is typed, and no turn has been taken.
LEMMA ReadPassInv ==
  ASSUME PassInv, Read
  PROVE  PassInv'
<1> USE DEF PassInv
<1>1. PICK unopened \in SUBSET {t \in Tid : CallsFail} :
        threads' = [p \in Pid |-> IF p \in full' THEN Snapshot(unopened)[p] ELSE {}]
  BY DEF Read
<1>2. TypeOK'
  BY <1>1 DEF Read, Snapshot, TypeOK, os, locals, history, ThreadInfo, ThreadsOf
<1>3. FiniteSnapshots'
  <2> SUFFICES ASSUME NEW p \in Pid PROVE IsFiniteSet(threads'[p])
    BY DEF FiniteSnapshots
  <2>1. CASE p \notin full'
    BY <1>1, <2>1, FS_EmptySet
  <2>2. CASE p \in full'
    <3> DEFINE seen(t) == [thread_id |-> t,
                 group_affinity |-> IF t \in unopened THEN NoAffinity ELSE threadAffinity[t]]
               S == ThreadsOf(p)
               T == {seen(t) : t \in S}
               f == [t \in S |-> seen(t)]
    <3>1. IsFiniteSet(S)
      BY PassAssumption, FS_Subset DEF ThreadsOf
    <3>2. f \in Surjection(S, T)
      BY DEF Surjection
    <3>3. IsFiniteSet(T)
      BY <3>1, <3>2, FS_Surjection
    <3> QED
      BY <1>1, <2>2, <3>3 DEF Snapshot
  <2> QED
    BY <2>1, <2>2
<1>4. TurnInv'
  BY DEF Read, TurnInv, locals, history
<1> QED
  BY <1>2, <1>3, <1>4

\* A pass that returns leaves what Init demands of it.
LEMMA EndPassInv ==
  ASSUME PassInv, EndPass
  PROVE  PassInv'
<1> USE DEF PassInv
<1>1. TypeOK'
  BY NodesNonempty, PassAssumption DEF TypeOK, EndPass, os, NullNode
<1>2. FiniteSnapshots' /\ TurnInv'
  BY FS_EmptySet DEF EndPass, FiniteSnapshots, TurnInv
<1> QED
  BY <1>1, <1>2

\* Sorting the processes and choosing the first node starts the turns.
LEMMA DecidePassInv ==
  ASSUME PassInv, Decide
  PROVE  PassInv'
<1> USE DEF PassInv
<1>1. processes_affinity' \in Seq(Pid)
  <2>1. full \subseteq Pid /\ IsFiniteSet(full) /\ Cardinality(full) \in Nat
    BY PassAssumption, FS_Subset, FS_CardinalityType DEF TypeOK
  <2>2. processes_affinity' \in [1 .. Cardinality(full) -> full]
    BY DEF Decide, Sorted, Permutation
  <2> QED
    BY <2>1, <2>2
<1>2. TypeOK'
  BY <1>1, NodesNonempty DEF TypeOK, Decide, os, table, NullNode
<1>3. FiniteSnapshots' /\ TurnInv'
  BY DEF FiniteSnapshots, TurnInv, Decide, table
<1> QED
  BY <1>2, <1>3

\* A process that cannot be opened is passed over and takes no turn.
LEMMA SkipPassInv ==
  ASSUME PassInv, Skip
  PROVE  PassInv'
<1> USE DEF PassInv
<1>1. TypeOK'
  BY DEF TypeOK, Skip, os, table, history
<1>2. FiniteSnapshots' /\ TurnInv'
  BY DEF FiniteSnapshots, TurnInv, Skip, table, history
<1> QED
  BY <1>1, <1>2

\* The mask of the current node is read for a process that is in the list.
LEMMA QueryPassInv ==
  ASSUME PassInv, Query
  PROVE  PassInv'
<1> USE DEF PassInv
<1>1. process \in Pid
  BY DEF TypeOK, Query, process
<1>2. cur_numa_node' = IF cur_numa_node # NullNode THEN cur_numa_node ELSE 1
  BY <1>1, WeightIsFirst DEF Query, FiniteSnapshots
<1>3. mask' \in Nat
  BY <1>1, QueryTypes DEF Query
<1>4. cur_numa_node' \in Nodes
  BY <1>2, NodesNonempty DEF TypeOK
<1>5. TypeOK'
  BY <1>3, <1>4 DEF TypeOK, Query, os, table, history
<1>6. TurnInv'
  BY <1>2 DEF TurnInv, TypeOK, Query, history, NullNode
<1> QED
  BY <1>5, <1>6 DEF FiniteSnapshots, Query, table

\* Setting the affinity of a process touches neither the pointer nor the history.
LEMMA SetProcessPassInv ==
  ASSUME PassInv, SetProcess
  PROVE  PassInv'
<1> USE DEF PassInv
<1>1. process \in Pid /\ GroupMask \in Affinity
  BY GroupMaskType DEF TypeOK, SetProcess, process
<1>2. /\ processAffinity' \in [Pid -> Affinity]
      /\ threadAffinity' \in [Tid -> Affinity]
      /\ failed' \subseteq Pid \cup Tid
      /\ report' \in [applied : BOOLEAN, returned : BOOLEAN]
  <2>1. CASE ~ProcessElsewhere
    BY <2>1 DEF TypeOK, SetProcess
  <2>2. CASE ProcessElsewhere
    <3> PICK opened \in BOOLEAN, done \in BOOLEAN :
          /\ report' = [applied |-> done, returned |-> opened /\ ~done]
          /\ IF done
             THEN /\ processAffinity' = [processAffinity EXCEPT ![process] = GroupMask]
                  /\ \E moved \in {{}, ThreadsOf(process)} :
                       threadAffinity' = [t \in Tid |-> IF t \in moved THEN GroupMask
                                                        ELSE threadAffinity[t]]
                  /\ UNCHANGED failed
             ELSE /\ failed' = failed \cup {process}
                  /\ UNCHANGED <<processAffinity, threadAffinity>>
      BY <2>2, PassAssumption DEF SetProcess, Outcomes
    <3>1. report' \in [applied : BOOLEAN, returned : BOOLEAN]
      OBVIOUS
    <3>2. /\ processAffinity' \in [Pid -> Affinity]
          /\ threadAffinity' \in [Tid -> Affinity]
          /\ failed' \subseteq Pid \cup Tid
      BY <1>1 DEF TypeOK
    <3> QED
      BY <3>1, <3>2
  <2> QED
    BY <2>1, <2>2
<1>3. todo' \subseteq ThreadInfo
  BY <1>1 DEF SetProcess, TypeOK
<1>4. TypeOK'
  BY <1>2, <1>3 DEF TypeOK, SetProcess, table
<1> QED
  BY <1>4 DEF FiniteSnapshots, TurnInv, SetProcess, table

\* Setting the affinity of one thread only shortens the threads still to do.
LEMMA SetThreadPassInv ==
  ASSUME PassInv, NEW s \in todo, SetThread(s)
  PROVE  PassInv'
<1> USE DEF PassInv
<1>1. s.thread_id \in Tid /\ GroupMask \in Affinity
  BY GroupMaskType DEF TypeOK, SetThread, ThreadInfo
<1>2. /\ threadAffinity' \in [Tid -> Affinity]
      /\ failed' \subseteq Pid \cup Tid
  BY <1>1 DEF TypeOK, SetThread
<1>3. TypeOK'
  BY <1>2 DEF TypeOK, SetThread, table
<1> QED
  BY <1>3 DEF FiniteSnapshots, TurnInv, SetThread, table

\* What one turn does to the history: the node is the one the pointer shows.
LEMMA AdvanceTurn ==
  ASSUME PassInv, Advance
  PROVE  /\ cur_numa_node = index_numa_group + 1
         /\ cur_numa_node \in Nodes
         /\ process \in Pid
         /\ index_numa_group' = IF cur_numa_node = Len(NumaNodes) THEN 0 ELSE cur_numa_node
<1>1. cur_numa_node \in Nodes /\ process \in Pid
  BY DEF PassInv, TypeOK, Advance, process
<1>2. cur_numa_node = index_numa_group + 1
  BY <1>1 DEF PassInv, TurnInv, Nodes, NullNode
<1> QED
  BY <1>1, <1>2, NodesNonempty DEF Advance, NextIndex, Nodes

\* The pointer moves to a node when a turn ends.
LEMMA AdvancePassInv ==
  ASSUME PassInv, Advance
  PROVE  PassInv'
<1> USE DEF PassInv
<1> DEFINE turn == [pid |-> process, node |-> cur_numa_node]
<1>1. turn \in [pid : Pid, node : Nodes]
  BY AdvanceTurn
<1>2. /\ placed' \in Seq([pid : Pid, node : Nodes])
      /\ Len(placed') = Len(placed) + 1
      /\ placed'[Len(placed')] = turn
      /\ \A k \in 1 .. Len(placed) : placed'[k] = placed[k]
  BY <1>1 DEF TypeOK, Advance
<1>3. index_numa_group' \in 0 .. Len(NumaNodes) - 1 /\ cur_numa_node' \in Nodes
  BY NextIndexType DEF TypeOK, Advance
<1>4. TypeOK'
  BY <1>2, <1>3 DEF TypeOK, Advance, os, table
<1>5. TurnInv'
  BY <1>2, AdvanceTurn DEF TurnInv, TypeOK, Advance
<1> QED
  BY <1>4, <1>5 DEF FiniteSnapshots, Advance, table

\* Every step keeps the invariant of the pass.
LEMMA NextPassInv == PassInv /\ [Next]_vars => PassInv'
<1> SUFFICES ASSUME PassInv, [Next]_vars PROVE PassInv'
  OBVIOUS
<1>1. CASE Environment
  BY <1>1, EnvironmentPassInv
<1>2. CASE Read
  BY <1>2, ReadPassInv
<1>3. CASE Return \/ Finish
  BY <1>3, EndPassInv DEF Return, Finish
<1>4. CASE Decide
  BY <1>4, DecidePassInv
<1>5. CASE Skip
  BY <1>5, SkipPassInv
<1>6. CASE Query
  BY <1>6, QueryPassInv
<1>7. CASE SetProcess
  BY <1>7, SetProcessPassInv
<1>8. CASE \E s \in todo : SetThread(s)
  BY <1>8, SetThreadPassInv
<1>9. CASE Advance
  BY <1>9, AdvancePassInv
<1>10. CASE UNCHANGED vars
  BY <1>10 DEF PassInv, TypeOK, FiniteSnapshots, TurnInv, vars, os, table, locals, history
<1> QED
  BY <1>1, <1>2, <1>3, <1>4, <1>5, <1>6, <1>7, <1>8, <1>9, <1>10 DEF Next, SetAffinity

\* The variables are typed, the snapshots are finite and the pointer agrees with
\* the last turn at every moment of every pass (SetAffinity,
\* ProcessInfo.cpp:452-548).
THEOREM PassInvariant == Spec => []PassInv
<1>1. Init => PassInv
  BY InitPassInv
<1>2. PassInv /\ [Next]_vars => PassInv'
  BY NextPassInv
<1> QED
  BY <1>1, <1>2, PTL DEF Spec

\* Every variable keeps its type: the node pointer is never null and never past
\* the end of numa_nodes_ when it is dereferenced (ProcessInfo.cpp:452-548).
THEOREM PassTypeOK == Spec => []TypeOK
BY PassInvariant, PTL DEF PassInv

-----------------------------------------------------------------------------
(* The round robin and the spread. *)

\* The history grows only at the end of a turn, and is empty at both ends of a
\* pass.
LEMMA HistorySteps ==
  ASSUME PassInv, [Next]_vars
  PROVE  \/ UNCHANGED <<placed, index_numa_group>>
         \/ placed' = << >> /\ index_numa_group' = 0
         \/ Advance
<1>1. CASE Environment \/ Read \/ UNCHANGED vars
  BY <1>1 DEF Environment, StartProcess, ExitProcess, StartThread, ExitThread, Read,
              vars, locals, history
<1>2. CASE Return \/ Finish \/ Decide
  BY <1>2 DEF Return, Finish, Decide, EndPass
<1>3. CASE Skip \/ Query \/ SetProcess \/ \E s \in todo : SetThread(s)
  BY <1>3 DEF Skip, Query, SetProcess, SetThread, locals, history
<1> QED
  BY <1>1, <1>2, <1>3 DEF Next, SetAffinity

\* Round robin holds at every moment of every pass (ProcessInfo.cpp:485-547).
THEOREM RoundRobinAlways == Spec => []RoundRobin
<1>1. Init => RoundRobin
  BY DEF Init, RoundRobin
<1>2. PassInv /\ RoundRobin /\ [Next]_vars => RoundRobin'
  <2> SUFFICES ASSUME PassInv, RoundRobin, [Next]_vars PROVE RoundRobin'
    OBVIOUS
  <2>1. CASE UNCHANGED placed \/ placed' = << >>
    BY <2>1 DEF RoundRobin
  <2>2. CASE Advance
    <3> DEFINE turn == [pid |-> process, node |-> cur_numa_node]
    <3>1. placed \in Seq([pid : Pid, node : Nodes]) /\ turn \in [pid : Pid, node : Nodes]
      BY <2>2, AdvanceTurn DEF PassInv, TypeOK
    <3>2. placed' = Append(placed, turn)
      BY <2>2 DEF Advance
    <3>3. turn.node = IF placed = << >> \/ placed[Len(placed)].node = Len(NumaNodes) THEN 1
                      ELSE placed[Len(placed)].node + 1
      BY <2>2, AdvanceTurn DEF PassInv, TurnInv
    <3> SUFFICES ASSUME NEW k \in DOMAIN placed'
                 PROVE  placed'[k].node =
                          IF k = 1 \/ placed'[k - 1].node = Len(NumaNodes) THEN 1
                          ELSE placed'[k - 1].node + 1
      BY DEF RoundRobin
    <3>4. /\ DOMAIN placed' = 1 .. Len(placed) + 1 /\ Len(placed) \in Nat
          /\ placed'[Len(placed) + 1] = turn
          /\ \A j \in 1 .. Len(placed) : placed'[j] = placed[j]
          /\ Len(placed) = 0 <=> placed = << >>
      BY <3>1, <3>2
    <3>5. CASE k <= Len(placed)
      <4>1. k \in DOMAIN placed /\ placed'[k] = placed[k]
        BY <3>1, <3>4, <3>5
      <4>2. k = 1 \/ placed'[k - 1] = placed[k - 1]
        BY <3>4, <3>5
      <4> QED
        BY <4>1, <4>2 DEF RoundRobin
    <3>6. CASE k = Len(placed) + 1
      <4>1. k = 1 <=> placed = << >>
        BY <3>4, <3>6
      <4>2. k = 1 \/ placed'[k - 1] = placed[Len(placed)]
        BY <3>4, <3>6
      <4> QED
        BY <3>3, <3>4, <3>6, <4>1, <4>2
    <3> QED
      BY <3>4, <3>5, <3>6
  <2> QED
    BY <2>1, <2>2, HistorySteps
<1> QED
  BY <1>1, <1>2, PassInvariant, PTL DEF Spec

\* With no process placed no node has had a turn.
LEMMA EmptyCount ==
  ASSUME placed = << >>, index_numa_group = 0
  PROVE  CountInv
<1>1. \A n \in Nodes : Turns(n) = {}
  BY DEF Turns
<1>2. \A n \in Nodes : IsFiniteSet(Turns(n)) /\ Cardinality(Turns(n)) = 0
  BY <1>1, FS_EmptySet
<1>3. \A n \in Nodes : ~(n <= index_numa_group)
  BY DEF Nodes
<1> QED
  BY <1>2, <1>3 DEF CountInv

\* A turn adds one to the node the pointer shows, and the pointer goes past it.
LEMMA AdvanceCount ==
  ASSUME PassInv, CountInv, Advance
  PROVE  CountInv'
<1> DEFINE turn == [pid |-> process, node |-> cur_numa_node]
           last == Len(placed) + 1
<1>1. /\ placed \in Seq([pid : Pid, node : Nodes])
      /\ placed' = Append(placed, turn)
      /\ turn \in [pid : Pid, node : Nodes]
  BY AdvanceTurn DEF PassInv, TypeOK, Advance
<1>2. \A n \in Nodes :
        Turns(n)' = IF n = cur_numa_node THEN Turns(n) \cup {last} ELSE Turns(n)
  BY <1>1 DEF Turns
<1>3. \A n \in Nodes : last \notin Turns(n)
  BY <1>1 DEF Turns
<1>4. PICK rounds \in Nat : \A n \in Nodes :
        /\ IsFiniteSet(Turns(n))
        /\ Cardinality(Turns(n)) = IF n <= index_numa_group THEN rounds + 1 ELSE rounds
  BY DEF CountInv
<1>5. \A n \in Nodes :
        /\ IsFiniteSet(Turns(n)')
        /\ Cardinality(Turns(n)') = IF n <= cur_numa_node THEN rounds + 1 ELSE rounds
  <2> SUFFICES ASSUME NEW n \in Nodes
               PROVE  /\ IsFiniteSet(Turns(n)')
                      /\ Cardinality(Turns(n)') = IF n <= cur_numa_node THEN rounds + 1
                                                  ELSE rounds
    OBVIOUS
  <2>1. IsFiniteSet(Turns(n)) /\ last \notin Turns(n)
    BY <1>3, <1>4
  <2>2. /\ IsFiniteSet(Turns(n) \cup {last})
        /\ Cardinality(Turns(n) \cup {last}) = Cardinality(Turns(n)) + 1
    BY <2>1, FS_AddElement
  <2>3. /\ IsFiniteSet(Turns(n)')
        /\ Cardinality(Turns(n)') = IF n = cur_numa_node THEN Cardinality(Turns(n)) + 1
                                    ELSE Cardinality(Turns(n))
    BY <1>2, <2>1, <2>2
  <2>4. /\ index_numa_group = cur_numa_node - 1
        /\ n \in Int /\ cur_numa_node \in Int
    BY AdvanceTurn, NodesNonempty DEF Nodes, PassInv, TypeOK
  <2> QED
    BY <1>4, <2>3, <2>4
<1>6. CASE cur_numa_node = Len(NumaNodes)
  <2>1. index_numa_group' = 0
    BY <1>6, AdvanceTurn
  <2>2. \A n \in Nodes : IsFiniteSet(Turns(n)') /\ Cardinality(Turns(n)') = rounds + 1
    BY <1>5, <1>6, NodesNonempty DEF Nodes
  <2> QED
    BY <2>1, <2>2 DEF CountInv, Nodes
<1>7. CASE cur_numa_node # Len(NumaNodes)
  <2>1. index_numa_group' = cur_numa_node
    BY <1>7, AdvanceTurn
  <2> QED
    BY <1>5, <2>1 DEF CountInv, Nodes
<1> QED
  BY <1>6, <1>7

\* At no moment of a pass do two nodes differ by more than one in the number of
\* processes that were given to them, for any number of nodes and processes
\* (ProcessInfo.cpp:485-547).
THEOREM SpreadAlways == Spec => []Spread
<1>1. Init => CountInv
  BY EmptyCount DEF Init
<1>2. PassInv /\ CountInv /\ [Next]_vars => CountInv'
  <2> SUFFICES ASSUME PassInv, CountInv, [Next]_vars PROVE CountInv'
    OBVIOUS
  <2>1. CASE UNCHANGED <<placed, index_numa_group>>
    BY <2>1 DEF CountInv, Turns
  <2>2. CASE placed' = << >> /\ index_numa_group' = 0
    <3>1. \A n \in Nodes : Turns(n)' = {}
      BY <2>2 DEF Turns
    <3>2. \A n \in Nodes : IsFiniteSet(Turns(n)') /\ Cardinality(Turns(n)') = 0
      BY <3>1, FS_EmptySet
    <3>3. \A n \in Nodes : ~(n <= index_numa_group')
      BY <2>2 DEF Nodes
    <3> QED
      BY <3>2, <3>3 DEF CountInv, Nodes
  <2> QED
    BY <2>1, <2>2, AdvanceCount, HistorySteps
<1>3. CountInv => Spread
  <2> SUFFICES ASSUME CountInv, NEW m \in Nodes, NEW n \in Nodes
               PROVE  Cardinality(Turns(m)) - Cardinality(Turns(n)) <= 1
    BY DEF Spread
  <2> QED
    BY DEF CountInv
<1> QED
  BY <1>1, <1>2, <1>3, PassInvariant, PTL DEF Spec

-----------------------------------------------------------------------------
(* The order of the processes. *)

\* With no process placed yet the order holds.
LEMMA DecideOrder ==
  ASSUME TypeOK, Decide
  PROVE  OrderInv'
<1>1. /\ processes_affinity' \in [1 .. Cardinality(full) -> full]
      /\ \A i, j \in DOMAIN processes_affinity' :
           processes_affinity'[i] = processes_affinity'[j] => i = j
      /\ \A i, j \in DOMAIN processes_affinity' :
           i < j => average[processes_affinity'[i]] >= average[processes_affinity'[j]]
  BY DEF Decide, Sorted, Permutation
<1>2. Cardinality(full) \in Nat
  BY PassAssumption, FS_Subset, FS_CardinalityType DEF TypeOK
<1>3. placed' = << >> /\ pc' = "query" /\ UNCHANGED <<full, average>>
  BY DEF Decide, table
<1> QED
  BY <1>1, <1>2, <1>3 DEF OrderInv

\* The process whose turn ends comes after every process placed before it.
LEMMA AdvanceOrder ==
  ASSUME PassInv, OrderInv, Advance
  PROVE  OrderInv'
<1> DEFINE turn == [pid |-> process, node |-> cur_numa_node]
<1>1. /\ placed \in Seq([pid : Pid, node : Nodes])
      /\ turn \in [pid : Pid, node : Nodes]
      /\ placed' = Append(placed, turn)
      /\ it \in Nat \ {0} /\ it' = it + 1
      /\ pc' = "query" /\ UNCHANGED <<processes_affinity, full, average>>
  BY AdvanceTurn DEF PassInv, TypeOK, Advance, table
<1>2. \A k \in DOMAIN placed' : \E i \in 1 .. it' - 1 : placed'[k].pid = processes_affinity[i]
  <2> SUFFICES ASSUME NEW k \in DOMAIN placed'
               PROVE  \E i \in 1 .. it : placed'[k].pid = processes_affinity[i]
    BY <1>1
  <2>1. CASE k \in DOMAIN placed
    BY <1>1, <2>1 DEF OrderInv
  <2>2. CASE k = Len(placed) + 1
    BY <1>1, <2>2 DEF process
  <2> QED
    BY <1>1, <2>1, <2>2
<1> QED
  BY <1>1, <1>2 DEF OrderInv

\* Earlier turns go to processes with higher averages: strictly later positions
\* of the list for strictly later turns.
PositionInv ==
  \A j, k \in DOMAIN placed : j < k =>
    \E a, b \in DOMAIN processes_affinity :
      /\ a < b /\ placed[j].pid = processes_affinity[a] /\ placed[k].pid = processes_affinity[b]

\* A turn keeps the processes placed in the order of the list.
LEMMA AdvancePosition ==
  ASSUME PassInv, OrderInv, PositionInv, Advance
  PROVE  PositionInv'
<1> DEFINE turn == [pid |-> process, node |-> cur_numa_node]
<1>1. /\ placed \in Seq([pid : Pid, node : Nodes])
      /\ turn \in [pid : Pid, node : Nodes]
      /\ placed' = Append(placed, turn)
      /\ processes_affinity \in Seq(Pid)
      /\ it \in 1 .. Len(processes_affinity)
      /\ UNCHANGED processes_affinity
  BY AdvanceTurn DEF PassInv, TypeOK, Advance
<1> SUFFICES ASSUME NEW j \in DOMAIN placed', NEW k \in DOMAIN placed', j < k
             PROVE  \E a, b \in DOMAIN processes_affinity :
                      /\ a < b /\ placed'[j].pid = processes_affinity[a]
                      /\ placed'[k].pid = processes_affinity[b]
  BY <1>1 DEF PositionInv
<1>2. j \in DOMAIN placed /\ placed'[j] = placed[j]
  BY <1>1
<1>3. CASE k \in DOMAIN placed
  <2>1. placed'[k] = placed[k]
    BY <1>1, <1>3
  <2>2. PICK a, b \in DOMAIN processes_affinity :
          /\ a < b /\ placed[j].pid = processes_affinity[a]
          /\ placed[k].pid = processes_affinity[b]
    BY <1>2, <1>3 DEF PositionInv
  <2> QED
    BY <1>2, <2>1, <2>2
<1>4. CASE k = Len(placed) + 1
  <2>1. placed'[k].pid = processes_affinity[it]
    BY <1>1, <1>4 DEF process
  <2>2. PICK a \in 1 .. it - 1 : placed[j].pid = processes_affinity[a]
    BY <1>2 DEF OrderInv
  <2> QED
    BY <1>1, <1>2, <2>1, <2>2
<1>5. k \in DOMAIN placed \/ k = Len(placed) + 1
  BY <1>1
<1> QED
  BY <1>3, <1>4, <1>5

\* Every step keeps the list sorted and the processes placed in its order.
LEMMA NextOrder ==
  ASSUME PassInv, OrderInv, PositionInv, [Next]_vars
  PROVE  OrderInv' /\ PositionInv'
<1>1. CASE Environment \/ UNCHANGED vars
  BY <1>1 DEF Environment, StartProcess, ExitProcess, StartThread, ExitThread,
              vars, table, locals, history, OrderInv, PositionInv
<1>2. CASE Read
  <2>1. processes_affinity = << >> /\ placed = << >> /\ UNCHANGED <<processes_affinity, placed>>
    BY <1>2 DEF Read, OrderInv, locals, history
  <2> QED
    BY <2>1 DEF OrderInv, PositionInv
<1>3. CASE Return \/ Finish
  BY <1>3 DEF Return, Finish, EndPass, OrderInv, PositionInv
<1>4. CASE Decide
  <2>1. placed' = << >>
    BY <1>4 DEF Decide
  <2> QED
    BY <1>4, <2>1, DecideOrder DEF PassInv, PositionInv
<1>5. CASE Skip
  <2>1. /\ it \in Nat /\ it' = it + 1 /\ pc = "query"
        /\ UNCHANGED <<pc, processes_affinity, placed, full, average>>
    BY <1>5 DEF PassInv, TypeOK, Skip, table, history
  <2> QED
    BY <2>1 DEF OrderInv, PositionInv
<1>6. CASE Query \/ SetProcess \/ \E s \in todo : SetThread(s)
  <2>1. /\ pc' \in {"process", "threads"}
        /\ UNCHANGED <<it, processes_affinity, placed, full, average>>
    BY <1>6 DEF Query, SetProcess, SetThread, table, history
  <2> QED
    BY <2>1 DEF OrderInv, PositionInv
<1>7. CASE Advance
  BY <1>7, AdvanceOrder, AdvancePosition
<1> QED
  BY <1>1, <1>2, <1>3, <1>4, <1>5, <1>6, <1>7 DEF Next, SetAffinity

\* The heaviest process is placed first, none is placed twice in a pass, and only
\* processes whose window was full (ProcessInfo.cpp:466-475, 485).
THEOREM HeaviestFirstAlways == Spec => []HeaviestFirst
<1>1. Init => OrderInv /\ PositionInv
  BY DEF Init, OrderInv, PositionInv
<1>2. PassInv /\ OrderInv /\ PositionInv /\ [Next]_vars => OrderInv' /\ PositionInv'
  BY NextOrder
<1>3. PassInv /\ OrderInv /\ PositionInv => HeaviestFirst
  <2> SUFFICES ASSUME PassInv, OrderInv, PositionInv,
                      NEW j \in DOMAIN placed, NEW k \in DOMAIN placed
               PROVE  /\ placed[j].pid \in full
                      /\ j < k => /\ placed[j].pid # placed[k].pid
                                  /\ average[placed[j].pid] >= average[placed[k].pid]
    BY DEF HeaviestFirst
  <2>1. placed[j].pid \in full
    BY DEF OrderInv, PassInv, TypeOK
  <2> QED
    BY <2>1 DEF OrderInv, PositionInv
<1> QED
  BY <1>1, <1>2, <1>3, PassInvariant, PTL DEF Spec
-----------------------------------------------------------------------------
(* What the pass holds on to. *)

\* An id that the snapshot holds stays with the process it was taken from, or has
\* no owner any more.
HeldInv ==
  pc # "idle" => \A p \in full :
    /\ image[p] \in {"listed", "none"}
    /\ \A s \in threads[p] : owner[s.thread_id] \in {p, Nobody}

\* The pass has not come to p yet.
Untouched(p) == /\ \A k \in DOMAIN placed : placed[k].pid # p
                /\ ~(pc = "threads" /\ p = process)

\* Until its turn, what the snapshot says of a process is true.
SnapshotInv ==
  pc # "idle" => \A p \in full : Untouched(p) =>
    \A s \in threads[p] : owner[s.thread_id] = p /\ s.group_affinity # NoAffinity
                            => threadAffinity[s.thread_id] = s.group_affinity

\* A group and a mask that were read are those of the process.
QueriedInv ==
  pc = "process" =>
    /\ processAffinity[process].Group \in groups
    /\ mask # 0 /\ groups = {processAffinity[process].Group} => mask = processAffinity[process].Mask

\* In the inner loop the process is where it has to be, and so are its threads
\* that are not still to be visited; those are there or where the snapshot says.
Under(p, node) ==
  /\ Running(p) /\ p \notin failed => processAffinity[p] = node
  /\ \A s \in threads[p] :
       owner[s.thread_id] = p /\ s.thread_id \notin failed =>
         \/ threadAffinity[s.thread_id] = node
         \/ s \in todo /\ s.group_affinity \in {NoAffinity, threadAffinity[s.thread_id]}

\* A node without a processor has the mask of a call that failed; nothing is
\* claimed of those who are sent there.
ThreadsInv ==
  pc = "threads" => /\ todo \subseteq threads[process]
                    /\ GroupMask.Mask # 0 => Under(process, GroupMask)

\* A process that has had its turn and its threads are at the node, save what is
\* gone and what a call failed on: WholeProcessMoved, at every step of the pass.
AtNode(p, target) ==
  /\ Running(p) /\ p \notin failed => processAffinity[p] = target
  /\ \A s \in threads[p] : owner[s.thread_id] = p /\ s.thread_id \notin failed
                             => threadAffinity[s.thread_id] = target

MovedInv ==
  \A k \in DOMAIN placed :
    NumaNodes[placed[k].node].Mask # 0 => AtNode(placed[k].pid, NumaNodes[placed[k].node])

BoundInv == HeldInv /\ SnapshotInv /\ QueriedInv /\ ThreadsInv /\ MovedInv

\* While a pass runs, the operating system touches only what the pass does not
\* hold: a process or thread of the snapshot may end, and no more.
LEMMA EnvironmentHolds ==
  ASSUME PassInv, ~IdReuse, pc # "idle", Environment, NEW p \in full
  PROVE  /\ processAffinity'[p] = processAffinity[p]
         /\ image'[p] \in {image[p], "none"}
         /\ \A s \in threads[p] :
              /\ owner'[s.thread_id] \in {owner[s.thread_id], Nobody}
              /\ threadAffinity'[s.thread_id] = threadAffinity[s.thread_id]
<1> USE DEF PassInv
<1>1. p \in Pid /\ \A s \in threads[p] : s.thread_id \in Tid
  BY DEF TypeOK, ThreadInfo
<1>2. CASE \E q \in Pid : StartProcess(q)
  BY <1>1, <1>2 DEF StartProcess, Free, TypeOK
<1>3. CASE \E q \in Pid : ExitProcess(q)
  BY <1>1, <1>3 DEF ExitProcess, TypeOK
<1>4. CASE \E t \in Tid : ExitThread(t)
  BY <1>1, <1>4 DEF ExitThread, TypeOK
<1>5. CASE \E t \in Tid, q \in Pid : StartThread(t, q)
  <2> PICK t \in Tid, q \in Pid : StartThread(t, q)
    BY <1>5
  <2>1. \A s \in threads[p] : s.thread_id # t
    BY DEF StartThread, Free, SnapshotTids
  <2> QED
    BY <1>1, <2>1 DEF StartThread, TypeOK
<1> QED
  BY <1>2, <1>3, <1>4, <1>5 DEF Environment

\* It leaves the pass itself alone.
LEMMA EnvironmentFrame ==
  ASSUME Environment
  PROVE  UNCHANGED <<pc, table, locals, history>>
BY DEF Environment, StartProcess, ExitProcess, StartThread, ExitThread

\* The process whose turn it is has not been placed before.
LEMMA TurnIsNew ==
  ASSUME PassInv, OrderInv, pc \in {"process", "threads"} \/ it <= Len(processes_affinity)
  PROVE  /\ process \in full /\ process \in Pid
         /\ \A k \in DOMAIN placed : placed[k].pid # process
<1>1. it \in DOMAIN processes_affinity
  BY DEF PassInv, TypeOK
<1>2. process \in full /\ process \in Pid
  BY <1>1 DEF OrderInv, PassInv, TypeOK, process
<1>3. ASSUME NEW k \in DOMAIN placed
      PROVE  placed[k].pid # process
  <2> PICK i \in 1 .. it - 1 : placed[k].pid = processes_affinity[i]
    BY DEF OrderInv
  <2>1. i \in DOMAIN processes_affinity /\ i < it
    BY <1>1 DEF PassInv, TypeOK
  <2> QED
    BY <1>1, <2>1 DEF OrderInv, process
<1> QED
  BY <1>2, <1>3

\* A process that has been placed belongs to the pass, and has got a node.
LEMMA PlacedFull ==
  ASSUME PassInv, OrderInv, NEW k \in DOMAIN placed
  PROVE  placed[k].pid \in full /\ placed[k].pid \in Pid /\ placed[k].node \in Nodes
<1> PICK i \in 1 .. it - 1 : placed[k].pid = processes_affinity[i]
  BY DEF OrderInv
<1>1. i \in DOMAIN processes_affinity
  BY DEF PassInv, TypeOK
<1> DEFINE Turn == [pid : Pid, node : Nodes]
<1>2. placed \in Seq(Turn)
  BY DEF PassInv, TypeOK
<1> HIDE DEF Turn
<1>3. placed[k] \in Turn
  BY <1>2
<1> USE DEF Turn
<1> QED
  BY <1>1, <1>3 DEF OrderInv, PassInv, TypeOK

\* The operating system keeps what the pass holds on to.
LEMMA EnvironmentBound ==
  ASSUME PassInv, OrderInv, BoundInv, ~IdReuse, Environment
  PROVE  BoundInv'
<1> USE DEF BoundInv
<1>1. UNCHANGED <<pc, full, threads, placed, failed, todo, groups, mask, processes_affinity, it,
                  cur_numa_node>>
  BY EnvironmentFrame DEF table, locals, history
<1>2. UNCHANGED process /\ UNCHANGED GroupMask
  BY <1>1 DEF process, GroupMask
<1>3. CASE pc = "idle"
  <2>1. placed = << >>
    BY <1>3 DEF OrderInv
  <2> QED
    BY <1>1, <1>3, <2>1 DEF HeldInv, SnapshotInv, QueriedInv, ThreadsInv, MovedInv
<1>4. CASE pc # "idle"
  <2>1. \A p \in full :
          /\ p \in Pid
          /\ processAffinity'[p] = processAffinity[p]
          /\ image'[p] \in {image[p], "none"}
          /\ \A s \in threads[p] :
               /\ owner'[s.thread_id] \in {owner[s.thread_id], Nobody}
               /\ threadAffinity'[s.thread_id] = threadAffinity[s.thread_id]
    BY <1>4, EnvironmentHolds DEF PassInv, TypeOK
  <2>2. \A p \in full : Running(p)' => Running(p)
    BY <2>1 DEF Running
  <2>3. Nobody \notin Pid
    BY PassAssumption
  <2>4. HeldInv'
    BY <1>1, <1>4, <2>1 DEF HeldInv
  <2>5. SnapshotInv'
    <3> SUFFICES ASSUME NEW p \in full, Untouched(p)', NEW s \in threads[p],
                        owner'[s.thread_id] = p, s.group_affinity # NoAffinity
                 PROVE  threadAffinity'[s.thread_id] = s.group_affinity
      BY <1>1 DEF SnapshotInv
    <3>1. Untouched(p)
      BY <1>1, <1>2 DEF Untouched
    <3> QED
      BY <1>4, <2>1, <2>3, <3>1 DEF SnapshotInv
  <2>6. QueriedInv'
    <3> SUFFICES ASSUME pc = "process" PROVE QueriedInv'
      BY <1>1 DEF QueriedInv
    <3>1. process \in full
      BY TurnIsNew
    <3> QED
      BY <1>1, <1>2, <2>1, <3>1 DEF QueriedInv
  <2>7. ThreadsInv'
    <3> SUFFICES ASSUME pc = "threads", GroupMask.Mask # 0 PROVE Under(process, GroupMask)'
      BY <1>1, <1>2 DEF ThreadsInv
    <3>1. process \in full
      BY TurnIsNew
    <3>2. Running(process)' /\ process \notin failed => processAffinity'[process] = GroupMask
      BY <1>2, <2>1, <2>2, <3>1 DEF ThreadsInv, Under, Running
    <3>3. ASSUME NEW s \in threads[process], owner'[s.thread_id] = process,
                 s.thread_id \notin failed
          PROVE  \/ threadAffinity'[s.thread_id] = GroupMask
                 \/ s \in todo /\ s.group_affinity \in {NoAffinity, threadAffinity'[s.thread_id]}
      BY <2>1, <2>3, <3>1, <3>3 DEF ThreadsInv, Under
    <3> QED
      BY <1>1, <1>2, <3>2, <3>3 DEF Under
  <2>8. MovedInv'
    <3> SUFFICES ASSUME NEW k \in DOMAIN placed, NEW n \in Nodes, n = placed[k].node,
                        NumaNodes[n].Mask # 0
                 PROVE  AtNode(placed[k].pid, NumaNodes[n])'
      BY <1>1, PlacedFull DEF MovedInv
    <3>1. placed[k].pid \in full /\ AtNode(placed[k].pid, NumaNodes[n])
      BY PlacedFull DEF MovedInv
    <3> QED
      BY <1>1, <2>1, <2>2, <2>3, <3>1 DEF AtNode
  <2> QED
    BY <2>4, <2>5, <2>6, <2>7, <2>8
<1> QED
  BY <1>3, <1>4

\* Read takes the snapshot of listed processes, and what it says is true then.
LEMMA ReadBound ==
  ASSUME PassInv, OrderInv, Read
  PROVE  BoundInv'
<1>1. PICK unopened \in SUBSET {t \in Tid : CallsFail} :
        threads' = [p \in Pid |-> IF p \in full' THEN Snapshot(unopened)[p] ELSE {}]
  BY DEF Read
<1>2. /\ full' \subseteq {p \in Pid : Listed(p)} /\ pc' = "decide"
      /\ UNCHANGED <<image, owner, threadAffinity, placed>>
  BY DEF Read, os, history
<1>3. placed = << >>
  BY DEF Read, OrderInv
<1>4. \A p \in full' : \A s \in threads'[p] :
        /\ owner[s.thread_id] = p
        /\ s.group_affinity # NoAffinity => threadAffinity[s.thread_id] = s.group_affinity
  BY <1>1, <1>2 DEF Snapshot, ThreadsOf
<1>5. HeldInv'
  BY <1>2, <1>4 DEF HeldInv, Listed
<1>6. SnapshotInv'
  BY <1>2, <1>4 DEF SnapshotInv
<1>7. QueriedInv' /\ ThreadsInv' /\ MovedInv'
  BY <1>2, <1>3 DEF QueriedInv, ThreadsInv, MovedInv
<1> QED
  BY <1>5, <1>6, <1>7 DEF BoundInv

\* Sorting the list touches nothing.
LEMMA DecideBound ==
  ASSUME OrderInv, BoundInv, Decide
  PROVE  BoundInv'
<1>1. /\ pc = "decide" /\ pc' = "query" /\ placed' = << >>
      /\ UNCHANGED <<image, owner, threadAffinity, processAffinity, full, threads>>
  BY DEF Decide, os, table
<1>2. placed = << >>
  BY <1>1 DEF OrderInv
<1>3. SnapshotInv'
  BY <1>1, <1>2 DEF BoundInv, SnapshotInv, Untouched
<1> QED
  BY <1>1, <1>3 DEF BoundInv, HeldInv, QueriedInv, ThreadsInv, MovedInv

\* A process that is passed over is left alone.
LEMMA SkipBound ==
  ASSUME BoundInv, Skip
  PROVE  BoundInv'
<1>1. /\ pc = "query" /\ pc' = "query"
      /\ UNCHANGED <<os, full, threads, placed, failed>>
  BY DEF Skip, table, history
<1>2. SnapshotInv'
  BY <1>1 DEF BoundInv, SnapshotInv, Untouched, os
<1> QED
  BY <1>1, <1>2 DEF BoundInv, HeldInv, QueriedInv, ThreadsInv, MovedInv, AtNode, Running, os

\* The groups and the mask that are read are those of the process.
LEMMA QueryBound ==
  ASSUME PassInv, BoundInv, Query
  PROVE  BoundInv'
<1>1. /\ pc = "query" /\ pc' = "process"
      /\ UNCHANGED <<os, full, threads, placed, failed, it, processes_affinity>>
  BY DEF Query, table, history
<1>2. UNCHANGED process
  BY <1>1 DEF process
<1>3. /\ groups' = GroupsOf(process)
      /\ mask' \in {0, MaskOf(process)}
  BY DEF Query
<1>4. QueriedInv'
  BY <1>1, <1>2, <1>3 DEF QueriedInv, GroupsOf, MaskOf, os
<1>5. SnapshotInv'
  BY <1>1 DEF BoundInv, SnapshotInv, Untouched, os
<1> QED
  BY <1>1, <1>4, <1>5 DEF BoundInv, HeldInv, ThreadsInv, MovedInv, AtNode, Running, os

\* What the call on the process itself changes: it and its own threads, which go
\* to the node, or it is in the list of failures.
LEMMA SetProcessEffect ==
  ASSUME PassInv, process \in Pid, SetProcess
  PROVE  /\ failed \subseteq failed'
         /\ \A p \in Pid : p # process => processAffinity'[p] = processAffinity[p]
         /\ \A t \in Tid : \/ threadAffinity'[t] = threadAffinity[t]
                           \/ owner[t] = process /\ threadAffinity'[t] = GroupMask
         /\ \/ ~ProcessElsewhere /\ processAffinity' = processAffinity
            \/ process \in failed'
            \/ processAffinity'[process] = GroupMask
         /\ processAffinity' # processAffinity \/ threadAffinity' # threadAffinity
              => Running(process)
<1> USE DEF PassInv
<1>1. CASE ~ProcessElsewhere
  BY <1>1 DEF SetProcess
<1>2. CASE ProcessElsewhere
  <2> PICK opened \in Outcomes(Running(process)) : \E done \in Outcomes(opened) :
        IF done
        THEN /\ processAffinity' = [processAffinity EXCEPT ![process] = GroupMask]
             /\ \E moved \in {{}, ThreadsOf(process)} :
                  threadAffinity' = [t \in Tid |-> IF t \in moved THEN GroupMask
                                                   ELSE threadAffinity[t]]
             /\ UNCHANGED failed
        ELSE /\ failed' = failed \cup {process}
             /\ UNCHANGED <<processAffinity, threadAffinity>>
    BY <1>2 DEF SetProcess
  <2>1. CASE UNCHANGED <<processAffinity, threadAffinity>> /\ failed' = failed \cup {process}
    BY <2>1
  <2>2. CASE /\ processAffinity' = [processAffinity EXCEPT ![process] = GroupMask]
             /\ \E moved \in {{}, ThreadsOf(process)} :
                  threadAffinity' = [t \in Tid |-> IF t \in moved THEN GroupMask
                                                   ELSE threadAffinity[t]]
             /\ UNCHANGED failed
             /\ opened
    <3>1. Running(process)
      BY <2>2 DEF Outcomes
    <3>2. \A t \in Tid : \/ threadAffinity'[t] = threadAffinity[t]
                         \/ owner[t] = process /\ threadAffinity'[t] = GroupMask
      BY <2>2 DEF ThreadsOf
    <3> QED
      BY <2>2, <3>1, <3>2 DEF TypeOK
  <2> QED
    BY <2>1, <2>2 DEF Outcomes
<1> QED
  BY <1>1, <1>2

\* What the call on a thread changes: this thread, which goes to the node, or is in
\* the list of failures; a thread that is there already is left alone.
LEMMA SetThreadEffect ==
  ASSUME PassInv, NEW s \in todo, SetThread(s)
  PROVE  /\ failed \subseteq failed' /\ s.thread_id \in Tid
         /\ \A t \in Tid : t # s.thread_id => threadAffinity'[t] = threadAffinity[t]
         /\ \/ s.thread_id \in failed'
            \/ threadAffinity'[s.thread_id] = GroupMask
            \/ s.group_affinity = GroupMask
         /\ \/ threadAffinity'[s.thread_id] = threadAffinity[s.thread_id]
            \/ /\ threadAffinity'[s.thread_id] = GroupMask
               /\ owner[s.thread_id] # Nobody
<1> USE DEF PassInv
<1>1. s.thread_id \in Tid
  BY DEF TypeOK, ThreadInfo
<1>2. CASE s.group_affinity = GroupMask /\ UNCHANGED <<threadAffinity, failed>>
  BY <1>1, <1>2
<1>3. CASE \E done \in Outcomes(owner[s.thread_id] # Nobody) :
             IF done
             THEN /\ threadAffinity' = [threadAffinity EXCEPT ![s.thread_id] = GroupMask]
                  /\ UNCHANGED failed
             ELSE /\ failed' = failed \cup {s.thread_id}
                  /\ UNCHANGED threadAffinity
  <2>1. CASE /\ threadAffinity' = [threadAffinity EXCEPT ![s.thread_id] = GroupMask]
             /\ UNCHANGED failed
             /\ owner[s.thread_id] # Nobody
    BY <1>1, <2>1 DEF TypeOK
  <2>2. CASE failed' = failed \cup {s.thread_id} /\ UNCHANGED threadAffinity
    BY <1>1, <2>2
  <2> QED
    BY <1>3, <2>1, <2>2 DEF Outcomes
<1> QED
  BY <1>2, <1>3 DEF SetThread

\* A process that is not moved was there, and what is moved goes to the node.
LEMMA SetProcessBound ==
  ASSUME PassInv, OrderInv, BoundInv, SetProcess
  PROVE  BoundInv'
<1> USE DEF BoundInv
<1>1. /\ pc = "process" /\ pc' = "threads" /\ todo' = threads[process]
      /\ UNCHANGED <<image, owner, full, threads, placed, it, processes_affinity, cur_numa_node>>
  BY DEF SetProcess, table
<1>2. UNCHANGED process /\ UNCHANGED GroupMask
  BY <1>1 DEF process, GroupMask
<1>3. process \in full /\ process \in Pid /\ \A k \in DOMAIN placed : placed[k].pid # process
  BY <1>1, TurnIsNew
<1>4. /\ failed \subseteq failed'
      /\ \A p \in Pid : p # process => processAffinity'[p] = processAffinity[p]
      /\ \A t \in Tid : \/ threadAffinity'[t] = threadAffinity[t]
                        \/ owner[t] = process /\ threadAffinity'[t] = GroupMask
      /\ \/ ~ProcessElsewhere /\ processAffinity' = processAffinity
         \/ process \in failed'
         \/ processAffinity'[process] = GroupMask
  BY <1>3, SetProcessEffect
<1>5. \A p \in full : p \in Pid /\ \A s \in threads[p] : s.thread_id \in Tid
  BY DEF PassInv, TypeOK, ThreadInfo
<1>6. HeldInv' /\ QueriedInv'
  BY <1>1 DEF HeldInv, QueriedInv
<1>7. SnapshotInv'
  <2> SUFFICES ASSUME NEW p \in full, Untouched(p)', NEW s \in threads[p],
                      owner[s.thread_id] = p, s.group_affinity # NoAffinity
               PROVE  threadAffinity'[s.thread_id] = s.group_affinity
    BY <1>1 DEF SnapshotInv
  <2>1. Untouched(p) /\ p # process
    BY <1>1, <1>2 DEF Untouched
  <2> QED
    BY <1>1, <1>4, <1>5, <2>1 DEF SnapshotInv
<1>8. ThreadsInv'
  <2> SUFFICES ASSUME GroupMask.Mask # 0 PROVE Under(process, GroupMask)'
    BY <1>1, <1>2 DEF ThreadsInv
  <2>1. ~ProcessElsewhere => processAffinity[process] = GroupMask
    <3> SUFFICES ASSUME ~ProcessElsewhere PROVE processAffinity[process] = GroupMask
      OBVIOUS
    <3>1. groups = {GroupMask.Group} /\ mask = GroupMask.Mask
      BY DEF ProcessElsewhere
    <3>2. cur_numa_node \in Nodes /\ processAffinity[process] \in Affinity
      BY <1>1, <1>3 DEF PassInv, TypeOK
    <3>3. mask # 0
      BY <3>1
    <3>4. /\ processAffinity[process].Group = GroupMask.Group
          /\ processAffinity[process].Mask = GroupMask.Mask
      BY <1>1, <3>1, <3>3 DEF QueriedInv
    <3>5. GroupMask \in Affinity
      BY <3>2, GroupMaskType DEF PassInv
    <3> QED
      BY <3>2, <3>4, <3>5, PassAssumption
  <2>2. process \notin failed' => processAffinity'[process] = GroupMask
    BY <1>4, <2>1
  <2>3. ASSUME NEW s \in threads[process], owner[s.thread_id] = process
        PROVE  \/ threadAffinity'[s.thread_id] = GroupMask
               \/ s.group_affinity \in {NoAffinity, threadAffinity'[s.thread_id]}
    <3>1. Untouched(process)
      BY <1>1, <1>3 DEF Untouched
    <3>2. s.group_affinity \in {NoAffinity, threadAffinity[s.thread_id]}
      BY <1>1, <1>3, <2>3, <3>1 DEF SnapshotInv
    <3> QED
      BY <1>3, <1>4, <1>5, <3>2
  <2> QED
    BY <1>1, <1>2, <2>2, <2>3 DEF Under
<1>9. MovedInv'
  <2> SUFFICES ASSUME NEW k \in DOMAIN placed, NEW n \in Nodes, n = placed[k].node,
                        NumaNodes[n].Mask # 0
               PROVE  AtNode(placed[k].pid, NumaNodes[n])'
    BY <1>1, PlacedFull DEF MovedInv
  <2>1. /\ placed[k].pid \in full /\ placed[k].pid # process
        /\ AtNode(placed[k].pid, NumaNodes[n])
    BY <1>3, PlacedFull DEF MovedInv
  <2> QED
    BY <1>1, <1>4, <1>5, <2>1 DEF AtNode, Running
<1> QED
  BY <1>6, <1>7, <1>8, <1>9

\* A thread of the process is moved, or it is there, or the call failed.
LEMMA SetThreadBound ==
  ASSUME PassInv, OrderInv, BoundInv, NEW s \in todo, SetThread(s)
  PROVE  BoundInv'
<1> USE DEF BoundInv
<1>1. /\ pc = "threads" /\ pc' = "threads" /\ todo' = todo \ {s}
      /\ UNCHANGED <<image, owner, processAffinity, full, threads, placed, it,
                     processes_affinity, cur_numa_node>>
  BY DEF SetThread, table
<1>2. UNCHANGED process /\ UNCHANGED GroupMask
  BY <1>1 DEF process, GroupMask
<1>3. process \in full /\ process \in Pid /\ \A k \in DOMAIN placed : placed[k].pid # process
  BY <1>1, TurnIsNew
<1>4. s \in threads[process] /\ owner[s.thread_id] \in {process, Nobody}
  BY <1>1, <1>3 DEF ThreadsInv, HeldInv
<1>5. /\ failed \subseteq failed' /\ s.thread_id \in Tid
      /\ \A t \in Tid : t # s.thread_id => threadAffinity'[t] = threadAffinity[t]
      /\ \/ s.thread_id \in failed'
         \/ threadAffinity'[s.thread_id] = GroupMask
         \/ s.group_affinity = GroupMask
      /\ \/ threadAffinity'[s.thread_id] = threadAffinity[s.thread_id]
         \/ threadAffinity'[s.thread_id] = GroupMask
  BY SetThreadEffect
<1>6. \A p \in full : p \in Pid /\ \A r \in threads[p] : r.thread_id \in Tid
  BY DEF PassInv, TypeOK, ThreadInfo
<1>7. ASSUME NEW p \in full, p # process, NEW r \in threads[p], owner[r.thread_id] = p
      PROVE  threadAffinity'[r.thread_id] = threadAffinity[r.thread_id]
  <2>1. p # Nobody
    BY <1>6, PassAssumption
  <2>2. r.thread_id # s.thread_id
    BY <1>4, <1>7, <2>1
  <2> QED
    BY <1>5, <1>6, <2>2
<1>8. HeldInv' /\ QueriedInv'
  BY <1>1 DEF HeldInv, QueriedInv
<1>9. SnapshotInv'
  <2> SUFFICES ASSUME NEW p \in full, Untouched(p)', NEW r \in threads[p],
                      owner[r.thread_id] = p, r.group_affinity # NoAffinity
               PROVE  threadAffinity'[r.thread_id] = r.group_affinity
    BY <1>1 DEF SnapshotInv
  <2>1. Untouched(p) /\ p # process
    BY <1>1, <1>2 DEF Untouched
  <2> QED
    BY <1>1, <1>7, <2>1 DEF SnapshotInv
<1>10. ThreadsInv'
  <2>1. todo' \subseteq threads[process]
    BY <1>1 DEF ThreadsInv
  <2> SUFFICES ASSUME GroupMask.Mask # 0 PROVE Under(process, GroupMask)'
    BY <1>1, <1>2, <2>1 DEF ThreadsInv
  <2>2. Running(process) /\ process \notin failed' => processAffinity[process] = GroupMask
    BY <1>1, <1>5 DEF ThreadsInv, Under
  <2>3. ASSUME NEW r \in threads[process], owner[r.thread_id] = process,
               r.thread_id \notin failed'
        PROVE  \/ threadAffinity'[r.thread_id] = GroupMask
               \/ r \in todo' /\ r.group_affinity \in {NoAffinity, threadAffinity'[r.thread_id]}
    <3>1. \/ threadAffinity[r.thread_id] = GroupMask
          \/ r \in todo /\ r.group_affinity \in {NoAffinity, threadAffinity[r.thread_id]}
      BY <1>1, <1>5, <2>3 DEF ThreadsInv, Under
    <3>2. threadAffinity'[r.thread_id] \in {threadAffinity[r.thread_id], GroupMask}
      BY <1>3, <1>5, <1>6
    <3>3. CASE r = s
      <4>1. GroupMask # NoAffinity
        BY DEF NoAffinity
      <4> QED
        BY <1>5, <2>3, <3>1, <3>2, <3>3, <4>1
    <3>4. CASE r # s
      BY <1>1, <3>1, <3>2, <3>4
    <3> QED
      BY <3>3, <3>4
  <2> QED
    BY <1>1, <1>2, <2>2, <2>3 DEF Under, Running
<1>11. MovedInv'
  <2> SUFFICES ASSUME NEW k \in DOMAIN placed, NEW n \in Nodes, n = placed[k].node,
                        NumaNodes[n].Mask # 0
               PROVE  AtNode(placed[k].pid, NumaNodes[n])'
    BY <1>1, PlacedFull DEF MovedInv
  <2>1. /\ placed[k].pid \in full /\ placed[k].pid # process
        /\ AtNode(placed[k].pid, NumaNodes[n])
    BY <1>3, PlacedFull DEF MovedInv
  <2> QED
    BY <1>1, <1>5, <1>7, <2>1 DEF AtNode, Running
<1> QED
  BY <1>8, <1>9, <1>10, <1>11

\* When no thread is left to visit, the whole process is at the node.
LEMMA AdvanceBound ==
  ASSUME PassInv, OrderInv, BoundInv, Advance
  PROVE  BoundInv'
<1> USE DEF BoundInv
<1> DEFINE turn == [pid |-> process, node |-> cur_numa_node]
<1>1. /\ pc = "threads" /\ pc' = "query" /\ todo = {}
      /\ UNCHANGED <<os, full, threads, failed>>
      /\ placed' = Append(placed, turn)
  BY DEF Advance, table
<1>2. /\ placed \in Seq([pid : Pid, node : Nodes])
      /\ turn \in [pid : Pid, node : Nodes]
  BY <1>1, AdvanceTurn DEF PassInv, TypeOK
<1>3. /\ DOMAIN placed' = DOMAIN placed \cup {Len(placed) + 1}
      /\ placed'[Len(placed) + 1] = turn
      /\ \A k \in DOMAIN placed : placed'[k] = placed[k]
  BY <1>1, <1>2
<1>4. HeldInv' /\ QueriedInv' /\ ThreadsInv'
  BY <1>1 DEF HeldInv, QueriedInv, ThreadsInv, os
<1>5. SnapshotInv'
  <2> SUFFICES ASSUME NEW p \in full, Untouched(p)'
               PROVE  Untouched(p)
    BY <1>1 DEF SnapshotInv, os
  <2>1. turn.pid # p
    BY <1>3 DEF Untouched
  <2> QED
    BY <1>3, <2>1 DEF Untouched
<1>6. MovedInv'
  <2>1. GroupMask.Mask # 0 => AtNode(process, GroupMask)
    BY <1>1 DEF ThreadsInv, Under, AtNode
  <2> SUFFICES ASSUME NEW k \in DOMAIN placed', NumaNodes[placed'[k].node].Mask # 0
               PROVE  AtNode(placed'[k].pid, NumaNodes[placed'[k].node])
    BY <1>1 DEF MovedInv, AtNode, Running, os
  <2>2. CASE k \in DOMAIN placed
    BY <1>3, <2>2 DEF MovedInv
  <2>3. CASE k = Len(placed) + 1
    BY <1>3, <2>1, <2>3 DEF GroupMask
  <2> QED
    BY <1>3, <2>2, <2>3
<1> QED
  BY <1>4, <1>5, <1>6

\* Every step keeps what the pass holds on to.
LEMMA NextBound ==
  ASSUME PassInv, OrderInv, BoundInv, ~IdReuse, [Next]_vars
  PROVE  BoundInv'
<1>1. CASE Return \/ Finish
  BY <1>1 DEF Return, Finish, EndPass, BoundInv, HeldInv, SnapshotInv, QueriedInv, ThreadsInv,
              MovedInv
<1>2. CASE UNCHANGED vars
  BY <1>2 DEF vars, os, table, locals, history, BoundInv, HeldInv, SnapshotInv, QueriedInv,
              ThreadsInv, MovedInv, AtNode, Under, Untouched, Running, process, GroupMask
<1> QED
  BY <1>1, <1>2, EnvironmentBound, ReadBound, DecideBound, SkipBound, QueryBound,
     SetProcessBound, SetThreadBound, AdvanceBound DEF Next, SetAffinity

\* Without the reuse of ids, what the pass holds on to is true at every moment.
LEMMA BoundInvariant ==
  ASSUME ~IdReuse
  PROVE  Spec => [](PassInv /\ OrderInv /\ BoundInv)
<1>1. Init => OrderInv /\ PositionInv /\ BoundInv
  BY DEF Init, OrderInv, PositionInv, BoundInv, HeldInv, SnapshotInv, QueriedInv, ThreadsInv,
         MovedInv
<1>2. /\ PassInv /\ OrderInv /\ PositionInv /\ BoundInv
      /\ [Next]_vars
      => OrderInv' /\ PositionInv' /\ BoundInv'
  BY NextOrder, NextBound
<1> QED
  BY <1>1, <1>2, PassInvariant, PTL DEF Spec

\* When a process has had its turn, it and all its threads of the snapshot are at
\* its node, save what has gone and what a call failed on, whatever exits and fails
\* and in whichever group the threads were: comparing with affinities that were
\* read earlier skips nothing that had to move (ProcessInfo.cpp:485-543).  Ids are
\* not reused in a pass, and every node has a processor.
THEOREM WholeProcessMovedAlways ==
  ASSUME ~IdReuse, \A n \in Nodes : NumaNodes[n].Mask # 0
  PROVE  Spec => []WholeProcessMoved
<1>1. PassInv /\ OrderInv /\ BoundInv => WholeProcessMoved
  <2> SUFFICES ASSUME PassInv, OrderInv, BoundInv PROVE WholeProcessMoved
    OBVIOUS
  <2>1. ASSUME NEW k \in DOMAIN placed
        PROVE  AtNode(placed[k].pid, NumaNodes[placed[k].node])
    BY PlacedFull DEF BoundInv, MovedInv
  <2> QED
    BY <2>1 DEF WholeProcessMoved, AtNode
<1> QED
  BY <1>1, BoundInvariant, PTL

\* Who owns a thread runs: a process takes its threads with it.
OwnersRun == \A t \in Tid : owner[t] # Nobody => Running(owner[t])

\* Only the operating system starts and ends processes and threads.
LEMMA NextOwnersRun ==
  ASSUME PassInv, OwnersRun, [Next]_vars
  PROVE  OwnersRun'
<1> USE DEF PassInv
<1>1. CASE UNCHANGED <<image, owner>>
  BY <1>1 DEF OwnersRun, Running
<1>2. CASE \E p \in Pid : StartProcess(p)
  BY <1>2 DEF StartProcess, OwnersRun, Running, TypeOK
<1>3. CASE \E p \in Pid : ExitProcess(p)
  BY <1>3 DEF ExitProcess, OwnersRun, Running, TypeOK
<1>4. CASE \E t \in Tid : ExitThread(t)
  BY <1>4 DEF ExitThread, OwnersRun, Running, TypeOK
<1>5. CASE \E t \in Tid, p \in Pid : StartThread(t, p)
  BY <1>5 DEF StartThread, OwnersRun, Running, TypeOK
<1>6. CASE Read \/ SetAffinity \/ UNCHANGED vars
  BY <1>1, <1>6 DEF Read, SetAffinity, Return, Decide, Skip, Query, SetProcess, SetThread,
                   Advance, Finish, EndPass, vars, os
<1> QED
  BY <1>2, <1>3, <1>4, <1>5, <1>6 DEF Next, Environment

\* So it is at every moment.
LEMMA OwnersRunAlways == Spec => []OwnersRun
<1>1. Init => OwnersRun
  BY DEF Init, OwnersRun, Running
<1>2. PassInv /\ OwnersRun /\ [Next]_vars => OwnersRun'
  BY NextOwnersRun
<1> QED
  BY <1>1, <1>2, PassInvariant, PTL DEF Spec

\* A step of the pass that changes an affinity changes that of a process that runs
\* what is listed, or of a thread of one.
LEMMA StepOnlyListed ==
  ASSUME PassInv, OrderInv, BoundInv, OwnersRun, SetAffinity
  PROVE  /\ \A p \in Pid : processAffinity'[p] # processAffinity[p] => image[p] = "listed"
         /\ \A t \in Tid : threadAffinity'[t] # threadAffinity[t]
              => owner[t] # Nobody /\ image[owner[t]] = "listed"
<1> USE DEF BoundInv
<1>1. CASE Return \/ Decide \/ Skip \/ Query \/ Advance \/ Finish
  BY <1>1 DEF Return, Decide, Skip, Query, Advance, Finish, EndPass, os
<1>2. CASE SetProcess
  <2>1. pc = "process" /\ process \in full /\ process \in Pid
    BY <1>2, TurnIsNew DEF SetProcess
  <2>2. Running(process) => image[process] = "listed"
    BY <2>1 DEF HeldInv, Running
  <2>3. process # Nobody
    BY <2>1, PassAssumption
  <2> QED
    BY <1>2, <2>1, <2>2, <2>3, SetProcessEffect
<1>3. CASE \E s \in todo : SetThread(s)
  <2> PICK s \in todo : SetThread(s)
    BY <1>3
  <2>1. pc = "threads" /\ process \in full /\ UNCHANGED processAffinity
    BY TurnIsNew DEF SetThread
  <2>2. s.thread_id \in Tid /\ owner[s.thread_id] \in {process, Nobody}
    BY <2>1, SetThreadEffect DEF ThreadsInv, HeldInv
  <2>3. owner[s.thread_id] # Nobody => image[owner[s.thread_id]] = "listed"
    BY <2>1, <2>2 DEF HeldInv, OwnersRun, Running
  <2> QED
    BY <2>1, <2>2, <2>3, SetThreadEffect
<1> QED
  BY <1>1, <1>2, <1>3 DEF SetAffinity

\* The pass changes the affinity of a process only while it runs what is listed, and
\* of a thread only while its process does, for any number of each, and whatever
\* exits between the calls (ProcessInfo.cpp:397-450).  Ids are not reused in a pass.
THEOREM OnlyListedAlways == ASSUME ~IdReuse PROVE Spec => OnlyListed
<1> DEFINE Moves == /\ \A p \in Pid : processAffinity'[p] # processAffinity[p] => image[p] = "listed"
                    /\ \A t \in Tid : threadAffinity'[t] # threadAffinity[t]
                         => owner[t] # Nobody /\ image[owner[t]] = "listed"
<1>1. PassInv /\ OrderInv /\ BoundInv /\ OwnersRun /\ SetAffinity => Moves
  BY StepOnlyListed
<1>2. PassInv /\ OrderInv /\ BoundInv /\ OwnersRun => [SetAffinity => Moves]_vars
  BY <1>1
<1>3. Spec => [][SetAffinity => Moves]_vars
  BY <1>2, OwnersRunAlways, BoundInvariant, PTL
<1> QED
  BY <1>3 DEF OnlyListed

-----------------------------------------------------------------------------
(* The end of a pass: what the scheduler has to do for PassEnds.               *)

\* The system calls and assignments of a turn, at most.
Turn == Cardinality(Tid) + 3

\* The steps that are left of a pass, at most.
StepsLeft ==
  CASE pc = "decide"  -> Turn * Cardinality(full) + 2
    [] pc = "query"   -> Turn * (Len(processes_affinity) + 1 - it) + 1
    [] pc = "process" -> Turn * (Len(processes_affinity) + 1 - it)
    [] pc = "threads" -> Turn * (Len(processes_affinity) - it) + Cardinality(todo) + 2
    [] OTHER          -> 0

\* Every step of a pass is one of a bounded number, whatever the calls return and
\* whatever starts and exits between them.
PassAdvances ==
  [][/\ StepsLeft' \in 0 .. Turn * Cardinality(Pid) + 2
     /\ SetAffinity => StepsLeft' < StepsLeft
     /\ Environment => StepsLeft' = StepsLeft]_vars

\* No process has more threads in the table than there are, and the inner loop goes
\* through those of one process.
SizeInv ==
  /\ \A p \in Pid : IsFiniteSet(threads[p]) /\ Cardinality(threads[p]) <= Cardinality(Tid)
  /\ IsFiniteSet(todo) /\ Cardinality(todo) <= Cardinality(Tid)

\* There are numbers of threads and of processes.
LEMMA Sizes ==
  ASSUME TypeOK
  PROVE  /\ Cardinality(Tid) \in Nat /\ Cardinality(Pid) \in Nat /\ Turn \in Nat /\ Turn >= 3
         /\ Cardinality(full) \in Nat /\ Cardinality(full) <= Cardinality(Pid)
BY PassAssumption, FS_CardinalityType, FS_Subset DEF TypeOK, Turn

\* Nothing has no elements.
LEMMA EmptySizes == IsFiniteSet({}) /\ Cardinality({}) <= Cardinality(Tid)
BY PassAssumption, FS_EmptySet, FS_CardinalityType

\* What Read finds of a process are not more threads than there are.
LEMMA SnapshotSize ==
  ASSUME NEW unopened, NEW p \in Pid
  PROVE  /\ IsFiniteSet(Snapshot(unopened)[p])
         /\ Cardinality(Snapshot(unopened)[p]) <= Cardinality(Tid)
<1> DEFINE seen(t) == [thread_id |-> t,
                       group_affinity |-> IF t \in unopened THEN NoAffinity ELSE threadAffinity[t]]
           S == ThreadsOf(p)
           R == {seen(t) : t \in S}
           f == [t \in S |-> seen(t)]
<1>1. /\ IsFiniteSet(S) /\ Cardinality(S) <= Cardinality(Tid)
      /\ Cardinality(S) \in Nat /\ Cardinality(Tid) \in Nat
  BY PassAssumption, FS_Subset, FS_CardinalityType DEF ThreadsOf
<1>2. f \in Surjection(S, R)
  BY DEF Surjection
<1>3. IsFiniteSet(R) /\ Cardinality(R) <= Cardinality(S)
  BY <1>1, <1>2, FS_Surjection
<1>4. Cardinality(R) \in Nat
  BY <1>3, FS_CardinalityType
<1>5. Snapshot(unopened)[p] = R
  BY DEF Snapshot
<1> HIDE DEF R, S
<1> QED
  BY <1>1, <1>3, <1>4, <1>5

\* Every step keeps the sizes.
LEMMA SizeInvariant == Spec => []SizeInv
<1>1. Init => SizeInv
  BY EmptySizes DEF Init, SizeInv
<1>2. PassInv /\ SizeInv /\ [Next]_vars => SizeInv'
  <2> SUFFICES ASSUME PassInv, SizeInv, [Next]_vars PROVE SizeInv'
    OBVIOUS
  <2>1. CASE Environment \/ Skip \/ Query \/ Advance \/ Decide \/ UNCHANGED vars
    <3>1. UNCHANGED <<threads, todo>>
      BY <2>1 DEF Environment, StartProcess, ExitProcess, StartThread, ExitThread, Skip, Query,
                  Advance, Decide, vars, table, locals
    <3> QED
      BY <3>1 DEF SizeInv
  <2>2. CASE Read
    <3>1. PICK unopened \in SUBSET {t \in Tid : CallsFail} :
            threads' = [p \in Pid |-> IF p \in full' THEN Snapshot(unopened)[p] ELSE {}]
      BY <2>2 DEF Read
    <3>2. \A p \in Pid : threads'[p] = Snapshot(unopened)[p] \/ threads'[p] = {}
      BY <3>1
    <3>3. todo' = todo
      BY <2>2 DEF Read, locals
    <3> QED
      BY <3>2, <3>3, SnapshotSize, EmptySizes, Zenon DEF SizeInv
  <2>3. CASE Return \/ Finish
    <3>1. threads' = [p \in Pid |-> {}] /\ todo' = {}
      BY <2>3 DEF Return, Finish, EndPass
    <3> QED
      BY <3>1, EmptySizes DEF SizeInv
  <2>4. CASE SetProcess
    <3>1. process \in Pid /\ todo' = threads[process] /\ threads' = threads
      BY <2>4 DEF PassInv, TypeOK, SetProcess, process, table
    <3> QED
      BY <3>1, Zenon DEF SizeInv
  <2>5. CASE \E s \in todo : SetThread(s)
    <3>1. PICK s \in todo : todo' = todo \ {s} /\ threads' = threads
      BY <2>5 DEF SetThread, table
    <3>2. IsFiniteSet(todo \ {s}) /\ Cardinality(todo \ {s}) = Cardinality(todo) - 1
      BY FS_RemoveElement DEF SizeInv
    <3>3. Cardinality(todo) \in Nat /\ Cardinality(Tid) \in Nat
      BY PassAssumption, FS_CardinalityType DEF SizeInv
    <3>4. Cardinality(todo') <= Cardinality(Tid)
      BY <3>1, <3>2, <3>3 DEF SizeInv
    <3> QED
      BY <3>1, <3>2, <3>4 DEF SizeInv
  <2> QED
    BY <2>1, <2>2, <2>3, <2>4, <2>5 DEF Next, SetAffinity
<1> QED
  BY <1>1, <1>2, PassInvariant, PTL DEF Spec

\* The list of a pass is no longer than there are full windows.
ListInv == Len(processes_affinity) <= Cardinality(Pid)

\* Every step keeps it.
LEMMA ListInvariant == Spec => []ListInv
<1>1. Init => ListInv
  BY PassAssumption, FS_CardinalityType DEF Init, ListInv
<1>2. PassInv /\ ListInv /\ [Next]_vars => ListInv'
  <2> SUFFICES ASSUME PassInv, ListInv, [Next]_vars PROVE ListInv'
    OBVIOUS
  <2>1. CASE Decide
    <3>1. processes_affinity' \in [1 .. Cardinality(full) -> full]
      BY <2>1 DEF Decide, Sorted, Permutation
    <3>2. Cardinality(full) \in Nat /\ Cardinality(full) <= Cardinality(Pid)
      BY Sizes DEF PassInv
    <3>3. Len(processes_affinity') = Cardinality(full)
      BY <3>1, <3>2
    <3> QED
      BY <3>2, <3>3 DEF ListInv
  <2>2. CASE Return \/ Finish
    BY <2>2, PassAssumption, FS_CardinalityType DEF Return, Finish, EndPass, ListInv
  <2>3. CASE Environment \/ Read \/ Skip \/ Query \/ SetProcess \/ Advance
             \/ (\E s \in todo : SetThread(s)) \/ UNCHANGED vars
    <3>1. processes_affinity' = processes_affinity
      BY <2>3 DEF Environment, StartProcess, ExitProcess, StartThread, ExitThread, Read, Skip,
                  Query, SetProcess, Advance, SetThread, vars, locals
    <3> QED
      BY <3>1 DEF ListInv
  <2> QED
    BY <2>1, <2>2, <2>3 DEF Next, SetAffinity
<1> QED
  BY <1>1, <1>2, PassInvariant, PTL DEF Spec

\* One process more is one turn more.
LEMMA OneTurnMore ==
  ASSUME NEW n \in Int, NEW t \in Nat
  PROVE  /\ t * (n + 1) = t * n + t /\ t * n \in Int
         /\ n >= 0 => t * n >= 0
         /\ \A m \in Int : n <= m => t * n <= t * m
OBVIOUS

\* The steps left of a pass are a number, and not more than a whole pass has.
LEMMA StepsLeftType ==
  ASSUME PassInv, SizeInv, ListInv
  PROVE  StepsLeft \in 0 .. Turn * Cardinality(Pid) + 2
<1> DEFINE P == Cardinality(Pid)
           T == Cardinality(Tid)
           n == Len(processes_affinity) - it
           k == Cardinality(todo)
<1>1. T \in Nat /\ P \in Nat /\ Turn \in Nat /\ Turn = T + 3
      /\ Cardinality(full) \in Nat /\ Cardinality(full) <= P
  BY Sizes DEF PassInv, Turn
<1>2. k \in Nat /\ k <= T
  BY FS_CardinalityType DEF SizeInv
<1>3. /\ n \in Int /\ n >= -1 /\ Len(processes_affinity) + 1 - it = n + 1 /\ n + 1 <= P
      /\ pc \in {"process", "threads"} => n >= 0
  <2>1. /\ processes_affinity \in Seq(Pid) /\ it \in 1 .. Len(processes_affinity) + 1
        /\ pc \in {"process", "threads"} => it <= Len(processes_affinity)
        /\ Len(processes_affinity) <= P
    BY DEF PassInv, TypeOK, ListInv
  <2>2. Len(processes_affinity) \in Nat
    BY <2>1
  <2> HIDE DEF P
  <2> QED
    BY <1>1, <2>1, <2>2
<1> HIDE DEF n, k, P, T
<1>4. /\ Turn * (n + 1) = Turn * n + Turn /\ Turn * n \in Int /\ Turn * (n + 1) >= 0
      /\ n >= 0 => Turn * n >= 0
      /\ Turn * (n + 1) <= Turn * P
  BY <1>1, <1>3, OneTurnMore
<1>5. Turn * P \in Int /\ Turn * P >= 0
      /\ Turn * Cardinality(full) >= 0 /\ Turn * Cardinality(full) <= Turn * P
      /\ Turn * Cardinality(full) \in Int
  BY <1>1, OneTurnMore
<1>6. CASE pc = "decide"
  BY <1>1, <1>5, <1>6 DEF StepsLeft, P
<1>7. CASE pc = "query"
  <2>1. StepsLeft = Turn * (n + 1) + 1
    BY <1>3, <1>7, Zenon DEF StepsLeft
  <2> QED
    BY <2>1, <1>1, <1>4, <1>5 DEF P
<1>8. CASE pc = "process"
  <2>1. StepsLeft = Turn * (n + 1)
    BY <1>3, <1>8, Zenon DEF StepsLeft
  <2> QED
    BY <2>1, <1>1, <1>4, <1>5 DEF P
<1>9. CASE pc = "threads"
  <2>1. StepsLeft = Turn * n + k + 2
    BY <1>9 DEF StepsLeft, n, k
  <2> QED
    BY <2>1, <1>1, <1>2, <1>3, <1>4, <1>5, <1>9 DEF P
<1>10. CASE pc \notin {"decide", "query", "process", "threads"}
  BY <1>5, <1>10 DEF StepsLeft, P
<1> QED
  BY <1>6, <1>7, <1>8, <1>9, <1>10

\* A step of SetAffinity brings the end of the pass nearer.
LEMMA SetAffinityAdvances ==
  ASSUME PassInv, SizeInv, ListInv, StepsLeft' \in Int, SetAffinity
  PROVE  StepsLeft' < StepsLeft
<1> DEFINE n == Len(processes_affinity) - it
           k == Cardinality(todo)
<1>1. /\ Turn \in Nat /\ Turn = Cardinality(Tid) + 3 /\ Cardinality(Tid) \in Nat
      /\ Cardinality(full) \in Nat
  BY Sizes DEF PassInv, Turn
<1>2. k \in Nat /\ k <= Cardinality(Tid)
  BY FS_CardinalityType DEF SizeInv
<1>3. /\ processes_affinity \in Seq(Pid) /\ Len(processes_affinity) \in Nat
      /\ it \in 1 .. Len(processes_affinity) + 1
  BY DEF PassInv, TypeOK
<1>4. n \in Int /\ n >= -1 /\ Len(processes_affinity) + 1 - it = n + 1
  BY <1>3
<1> HIDE DEF n, k
<1>5. /\ Turn * (n + 1) = Turn * n + Turn /\ Turn * n \in Int /\ Turn * (n + 1) >= 0
      /\ Turn * Cardinality(full) \in Int /\ Turn * Cardinality(full) >= 0
  <2> DEFINE m == n + 1
             c == Cardinality(full)
  <2>1. Turn * m = Turn * n + Turn /\ Turn * n \in Int
    BY <1>1, <1>4, OneTurnMore
  <2>2. m \in Int /\ m >= 0 /\ c \in Int /\ c >= 0
    BY <1>1, <1>4
  <2> HIDE DEF m, c
  <2>3. Turn * m >= 0 /\ Turn * c \in Int /\ Turn * c >= 0
    BY <1>1, <2>2, OneTurnMore
  <2> QED
    BY <2>1, <2>3 DEF m, c
<1>6. CASE Decide
  <2>1. processes_affinity' \in [1 .. Cardinality(full) -> full] /\ it' = 1
    BY <1>6 DEF Decide, Sorted, Permutation
  <2>2. Len(processes_affinity') + 1 - it' = Cardinality(full)
    BY <2>1, <1>1
  <2>3. StepsLeft = Turn * Cardinality(full) + 2
    BY <1>6, Zenon DEF Decide, StepsLeft
  <2>4. StepsLeft' = Turn * Cardinality(full) + 1
    BY <1>6, <2>2, Zenon DEF Decide, StepsLeft, Turn
  <2> QED
    BY <2>3, <2>4, <1>5
<1>7. CASE Return \/ Finish
  <2>1. pc' = "idle"
    BY <1>7 DEF Return, Finish, EndPass
  <2>2. StepsLeft' = 0
    BY <2>1 DEF StepsLeft
  <2>3. CASE Return
    <3>1. StepsLeft = Turn * Cardinality(full) + 2
      BY <2>3, Zenon DEF Return, StepsLeft
    <3> QED
      BY <2>2, <3>1, <1>5
  <2>4. CASE Finish
    <3>1. StepsLeft = Turn * (n + 1) + 1
      BY <2>4, <1>4, Zenon DEF Finish, StepsLeft
    <3> QED
      BY <2>2, <3>1, <1>1, <1>4, <1>5
  <2> QED
    BY <1>7, <2>3, <2>4
<1>8. CASE Skip
  <2>1. StepsLeft = Turn * (n + 1) + 1
    BY <1>8, <1>4, Zenon DEF Skip, StepsLeft
  <2>2. it' = it + 1 /\ processes_affinity' = processes_affinity /\ pc' = "query"
    BY <1>8 DEF Skip
  <2>3. Len(processes_affinity') + 1 - it' = n
    BY <2>2, <1>3 DEF n
  <2>4. StepsLeft' = Turn * n + 1
    BY <2>2, <2>3, Zenon DEF StepsLeft, Turn
  <2> QED
    BY <2>1, <2>4, <1>1, <1>5
<1>9. CASE Query
  <2>1. StepsLeft = Turn * (n + 1) + 1
    BY <1>9, <1>4, Zenon DEF Query, StepsLeft
  <2>2. UNCHANGED <<it, processes_affinity>> /\ pc' = "process"
    BY <1>9 DEF Query
  <2>3. StepsLeft' = Turn * (n + 1)
    BY <2>2, <1>4, Zenon DEF StepsLeft, Turn
  <2> QED
    BY <2>1, <2>3, <1>1, <1>5
<1>10. CASE SetProcess
  <2>1. StepsLeft = Turn * (n + 1)
    BY <1>10, <1>4, Zenon DEF SetProcess, StepsLeft
  <2>2. UNCHANGED <<it, processes_affinity>> /\ pc' = "threads" /\ todo' = threads[process]
    BY <1>10 DEF SetProcess
  <2>3. process \in Pid
    BY <1>10 DEF PassInv, TypeOK, SetProcess, process
  <2>4. StepsLeft' = Turn * n + Cardinality(threads[process]) + 2
    BY <2>2, Zenon DEF StepsLeft, Turn, n
  <2> DEFINE c == Cardinality(threads[process])
  <2>5. c \in Nat /\ c <= Cardinality(Tid)
    BY <2>3, FS_CardinalityType DEF SizeInv
  <2> HIDE DEF c
  <2> QED
    BY <2>1, <2>4, <2>5, <1>1, <1>5 DEF c
<1>11. CASE \E s \in todo : SetThread(s)
  <2>1. PICK s \in todo : SetThread(s)
    BY <1>11
  <2>2. StepsLeft = Turn * n + k + 2
    BY <2>1, Zenon DEF SetThread, StepsLeft, k, n
  <2>3. UNCHANGED <<it, processes_affinity>> /\ pc' = "threads" /\ todo' = todo \ {s}
    BY <2>1 DEF SetThread
  <2>4. StepsLeft' = Turn * n + Cardinality(todo \ {s}) + 2
    BY <2>3, Zenon DEF StepsLeft, Turn, n
  <2>5. Cardinality(todo \ {s}) = k - 1
    BY FS_RemoveElement DEF SizeInv, k
  <2> QED
    BY <2>2, <2>4, <2>5, <1>2, <1>5
<1>12. CASE Advance
  <2>1. StepsLeft = Turn * n + k + 2
    BY <1>12, Zenon DEF Advance, StepsLeft, k, n
  <2>2. it' = it + 1 /\ processes_affinity' = processes_affinity /\ pc' = "query"
    BY <1>12 DEF Advance
  <2>3. Len(processes_affinity') + 1 - it' = n
    BY <2>2, <1>3 DEF n
  <2>4. StepsLeft' = Turn * n + 1
    BY <2>2, <2>3, Zenon DEF StepsLeft, Turn
  <2> QED
    BY <2>1, <2>4, <1>2, <1>5
<1> QED
  BY <1>6, <1>7, <1>8, <1>9, <1>10, <1>11, <1>12 DEF SetAffinity

\* What starts and exits during a pass makes it neither longer nor shorter.
LEMMA EnvironmentKeepsSteps == ASSUME Environment PROVE StepsLeft' = StepsLeft
<1>1. UNCHANGED <<pc, full, processes_affinity, it, todo>>
  BY DEF Environment, StartProcess, ExitProcess, StartThread, ExitThread, table, locals
<1> QED
  BY <1>1 DEF StepsLeft, Turn

\* A pass takes a bounded number of steps: a turn for every process whose window is
\* full, with a step for every thread, and three more, whatever calls fail and
\* whatever starts and exits between them; it needs nothing but to be scheduled to
\* come to its end (SetAffinity, ProcessInfo.cpp:452-548).
THEOREM PassAdvancesAlways == Spec => PassAdvances
<1> DEFINE Advances ==
             /\ StepsLeft' \in 0 .. Turn * Cardinality(Pid) + 2
             /\ SetAffinity => StepsLeft' < StepsLeft
             /\ Environment => StepsLeft' = StepsLeft
           Inv == PassInv /\ SizeInv /\ ListInv
<1>1. Inv => StepsLeft \in 0 .. Turn * Cardinality(Pid) + 2
  BY StepsLeftType
<1>2. Inv /\ (StepsLeft \in 0 .. Turn * Cardinality(Pid) + 2)' /\ [Next]_vars => [Advances]_vars
  <2> SUFFICES ASSUME Inv, (StepsLeft \in 0 .. Turn * Cardinality(Pid) + 2)'
               PROVE  Advances
    OBVIOUS
  <2>1. StepsLeft' \in 0 .. Turn * Cardinality(Pid) + 2
    BY DEF Turn
  <2>2. StepsLeft' \in Int
    BY <2>1
  <2> QED
    BY <2>1, <2>2, SetAffinityAdvances, EnvironmentKeepsSteps
<1>3. Spec => []Inv
  BY PassInvariant, SizeInvariant, ListInvariant, PTL
<1> QED
  BY <1>1, <1>2, <1>3, PTL DEF Spec, PassAdvances
=============================================================================
