---------------------------- MODULE AffinityPass ----------------------------
(* One pass of ProcessesInfo::SetAffinity (ProcessInfo.cpp) after a Read, one  *)
(* system call at a time, while the operating system starts and ends processes *)
(* and threads.  What Read leaves behind is chosen freely: ProcessTable says   *)
(* which windows and averages it computes.                                     *)
EXTENDS CpuLoad

CONSTANTS Pid,          \* process identifiers
          Tid,          \* thread identifiers
          Nobody,       \* the owner of a tid that no thread has
          NumaNodes,    \* numa_nodes_: the sequence of GroupMasks [Group, Mask]
          Affinity,     \* every group affinity a process or a thread may have;
                        \* no group is beyond the last node
          Average,      \* the values an average of user time may take
          CpuReading,   \* the sequences GetAvgValues may return
          Test,         \* the member test
          CallsFail,    \* may the system calls about single processes fail?
          IdReuse,      \* may a pid or tid of the snapshot be reused in the pass?
          MaxEvents     \* bound: starts and exits of processes and threads

ASSUME PassAssumption ==
  /\ NumaNodes \in Seq(Affinity) /\ NumaNodes # << >>
  /\ Affinity \subseteq [Group : 0 .. Len(NumaNodes) - 1, Mask : Nat]
  /\ Average \subseteq Int /\ 0 \in Average
  /\ IsFiniteSet(Pid) /\ IsFiniteSet(Tid) /\ Nobody \notin Pid
  /\ Test \in BOOLEAN /\ CallsFail \in BOOLEAN /\ IdReuse \in BOOLEAN
  /\ MaxEvents \in Nat

Nodes == 1 .. Len(NumaNodes)
NullNode == 0           \* cur_numa_node == nullptr

\* GROUP_AFFINITY {}, what the snapshot says of a thread OpenThread failed on.
NoAffinity == [Group |-> 0, Mask |-> 0]

Image == {"none", "listed", "other"}
ThreadInfo == [thread_id : Tid, group_affinity : Affinity \cup {NoAffinity}]

VARIABLES
  image,                \* the OS: what runs under each pid, seen by the filter
  processAffinity,      \* the OS: the affinity of each process
  owner,                \* the OS: the process of each thread
  threadAffinity,       \* the OS: the affinity of each thread
  events,               \* the starts and exits used up, of MaxEvents
  threads,              \* threads_ of each pid, as Read left it
  full,                 \* the pids whose window is full
  average,              \* user_time_.Avg() of each pid
  pc,                   \* where SetAffinity is
  processes_affinity,   \* the full pids in the order of the pass
  it,                   \* the iterator, a position in processes_affinity
  index_numa_group,
  cur_numa_node,        \* the index of a node, or NullNode
  groups, mask,         \* process_numa_groups and process_affinity_mask.first
  todo,                 \* the elements of threads_ the inner loop has still to visit
  placed,               \* history: the processes the pass has been through
  failed,               \* history: the pids and tids a set call failed on
  report                \* history: whether the last SetProcessAffinity set the
                        \* affinity, and what it returned

os == <<image, processAffinity, owner, threadAffinity, events>>
table == <<threads, full, average>>
locals == <<processes_affinity, it, index_numa_group, cur_numa_node, groups, mask, todo>>
history == <<placed, failed, report>>
vars == <<pc, os, table, locals, history>>

Running(p) == image[p] # "none"
ThreadsOf(p) == {t \in Tid : owner[t] = p}

\* GetProcessGroupAffinity: the group of the process and those of its threads.
GroupsOf(p) ==
  {processAffinity[p].Group} \cup {threadAffinity[t].Group : t \in ThreadsOf(p)}

\* GetProcessAffinityMask: zero for a process with threads in several groups.
MaskOf(p) == IF GroupsOf(p) = {processAffinity[p].Group} THEN processAffinity[p].Mask ELSE 0

\* The outcomes of a call on an object that is there or not.
Outcomes(alive) == IF ~alive THEN {FALSE} ELSE IF CallsFail THEN BOOLEAN ELSE {TRUE}

Init ==
  /\ pc = "idle"
  /\ image \in [Pid -> Image]
  /\ processAffinity \in [Pid -> Affinity]
  /\ owner \in [Tid -> Pid \cup {Nobody}]
  /\ \A t \in Tid : owner[t] # Nobody => Running(owner[t])
  /\ threadAffinity \in [Tid -> Affinity]
  /\ events \in 0 .. MaxEvents
  /\ threads = [p \in Pid |-> {}] /\ full = {} /\ average = [p \in Pid |-> 0]
  /\ processes_affinity = << >> /\ it = 1
  /\ index_numa_group = 0 /\ cur_numa_node = NullNode
  /\ groups = {} /\ mask = 0 /\ todo = {}
  /\ placed = << >> /\ failed = {} /\ report = [applied |-> TRUE, returned |-> TRUE]

-----------------------------------------------------------------------------
(* The operating system. *)

\* An id may be given out: always when the OS is quick to reuse ids, otherwise
\* only when the pass under way does not hold it.
Free(id, snapshot) == IdReuse \/ pc = "idle" \/ id \notin snapshot

SnapshotTids == UNION {{s.thread_id : s \in threads[p]} : p \in full}

StartProcess(p) ==
  /\ ~Running(p) /\ events < MaxEvents /\ Free(p, full)
  /\ \E kind \in {"listed", "other"}, a \in Affinity :
       /\ image' = [image EXCEPT ![p] = kind]
       /\ processAffinity' = [processAffinity EXCEPT ![p] = a]
  /\ events' = events + 1
  /\ UNCHANGED <<owner, threadAffinity, pc, table, locals, history>>

ExitProcess(p) ==
  /\ Running(p) /\ events < MaxEvents
  /\ image' = [image EXCEPT ![p] = "none"]
  /\ owner' = [t \in Tid |-> IF owner[t] = p THEN Nobody ELSE owner[t]]
  /\ events' = events + 1
  /\ UNCHANGED <<processAffinity, threadAffinity, pc, table, locals, history>>

\* A new thread starts with the affinity of its process.
StartThread(t, p) ==
  /\ owner[t] = Nobody /\ Running(p) /\ events < MaxEvents /\ Free(t, SnapshotTids)
  /\ owner' = [owner EXCEPT ![t] = p]
  /\ threadAffinity' = [threadAffinity EXCEPT ![t] = processAffinity[p]]
  /\ events' = events + 1
  /\ UNCHANGED <<image, processAffinity, pc, table, locals, history>>

ExitThread(t) ==
  /\ owner[t] # Nobody /\ events < MaxEvents
  /\ owner' = [owner EXCEPT ![t] = Nobody]
  /\ events' = events + 1
  /\ UNCHANGED <<image, processAffinity, threadAffinity, pc, table, locals, history>>
-----------------------------------------------------------------------------
(* Read, seen from SetAffinity: it leaves some windows full, and remembers the *)
(* threads of the processes and their affinities, {} where OpenThread failed.  *)
(* The threads and the averages of the others are not looked at.               *)

\* A mistake: the filter is not applied.
Unfiltered(p) == Running(p)
Listed(p) == image[p] = "listed"

\* The threads of each process, when those in unopened cannot be opened.
Snapshot(unopened) ==
  [p \in Pid |-> {[thread_id |-> t,
                   group_affinity |-> IF t \in unopened THEN NoAffinity ELSE threadAffinity[t]] :
                  t \in ThreadsOf(p)}]

Read ==
  /\ pc = "idle" /\ pc' = "decide"
  /\ full' \in SUBSET {p \in Pid : Listed(p)}
  /\ \E unopened \in SUBSET {t \in Tid : CallsFail} :
       threads' = [p \in Pid |-> IF p \in full' THEN Snapshot(unopened)[p] ELSE {}]
  /\ average' \in {a \in [Pid -> Average] : \A p \in Pid \ full' : a[p] = 0}
  /\ UNCHANGED <<os, locals, history>>

-----------------------------------------------------------------------------
(* SetAffinity. *)

\* The orders std::sort may leave S in: descending averages, ties anyhow.
Permutation(S) ==
  {s \in [1 .. Cardinality(S) -> S] : \A i, j \in DOMAIN s : s[i] = s[j] => i = j}

\* A mistake: the comparison the wrong way round.
SortedUpwards(S) == {s \in Permutation(S) :
                     \A i, j \in DOMAIN s : i < j => average[s[i]] <= average[s[j]]}

Sorted(S) == {s \in Permutation(S) :
              \A i, j \in DOMAIN s : i < j => average[s[i]] >= average[s[j]]}

\* The node CalculateNumaWeight picks for a process with threads in several
\* groups.  aggregator counts threads by group and is read by node; the count
\* to beat starts at 0 and is unsigned, so no node is lighter and the pick is
\* the first node.
InitialCount == 0
Aggregator(ts, n) == Cardinality({s \in ts : s.group_affinity.Group = n - 1})

\* The change a reader expects: start from a count that can be beaten.
LightestNode(ts) ==
  CHOOSE n \in Nodes : \A m \in Nodes :
    Aggregator(ts, n) < Aggregator(ts, m) \/ (Aggregator(ts, n) = Aggregator(ts, m) /\ n <= m)

CalculateNumaWeight(ts) ==
  LET lighter == {n \in Nodes : Aggregator(ts, n) < InitialCount}
  IN  IF lighter = {} THEN 1
      ELSE CHOOSE n \in lighter : \A m \in lighter :
             Aggregator(ts, n) < Aggregator(ts, m) \/ (Aggregator(ts, n) = Aggregator(ts, m) /\ n <= m)

\* SetAffinity returns: its locals are gone, and what Read left is forgotten, for
\* the next Read replaces it before it is used.
EndPass ==
  /\ pc' = "idle"
  /\ threads' = [p \in Pid |-> {}] /\ full' = {} /\ average' = [p \in Pid |-> 0]
  /\ processes_affinity' = << >> /\ it' = 1
  /\ index_numa_group' = 0 /\ cur_numa_node' = NullNode
  /\ groups' = {} /\ mask' = 0 /\ todo' = {}
  /\ placed' = << >> /\ failed' = {} /\ report' = [applied |-> TRUE, returned |-> TRUE]
  /\ UNCHANGED os

\* The early return, when no node is overloaded.  The other one, when ntdll has no
\* NtSetInformationProcess, does not happen on the systems modelled.
Return ==
  /\ pc = "decide"
  /\ \E values \in CpuReading : ~IsNeedToSetAffinity(values)
  /\ EndPass

\* The list of the processes to go through.
Decide ==
  /\ pc = "decide"
  /\ \E values \in CpuReading : IsNeedToSetAffinity(values)
  /\ processes_affinity' \in Sorted(full)
  /\ it' = 1 /\ index_numa_group' = 0 /\ cur_numa_node' = NullNode
  /\ placed' = << >> /\ failed' = {}
  /\ pc' = "query"
  /\ UNCHANGED <<os, table, groups, mask, todo, report>>

process == processes_affinity[it]
GroupMask == NumaNodes[cur_numa_node]

\* Where the turn goes after a node, and the index that wraps one node too late.
NextIndexUnwrapped == IF index_numa_group + 1 > Len(NumaNodes) THEN 0 ELSE index_numa_group + 1
NextIndex == IF index_numa_group + 1 >= Len(NumaNodes) THEN 0 ELSE index_numa_group + 1

\* Two mistakes: the turn passes although no process was bound, and the list is
\* not advanced.
SkipTakesTurn ==
  /\ pc = "query" /\ it <= Len(processes_affinity)
  /\ FALSE \in Outcomes(Running(process))
  /\ it' = it + 1
  /\ index_numa_group' = NextIndex /\ cur_numa_node' = NextIndex + 1
  /\ UNCHANGED <<pc, os, table, processes_affinity, groups, mask, todo, history>>
SkipStays ==
  /\ pc = "query" /\ it <= Len(processes_affinity)
  /\ FALSE \in Outcomes(Running(process))
  /\ UNCHANGED vars

\* GetProcessNumaGroup fails: the process is passed over and takes no turn.
Skip ==
  /\ pc = "query" /\ it <= Len(processes_affinity)
  /\ FALSE \in Outcomes(Running(process))
  /\ it' = it + 1
  /\ UNCHANGED <<pc, os, table, processes_affinity, index_numa_group, cur_numa_node,
                 groups, mask, todo, history>>

\* The groups and the mask of the process are read, and the first process that
\* is not passed over starts the round.
Query ==
  /\ pc = "query" /\ it <= Len(processes_affinity)
  /\ TRUE \in Outcomes(Running(process))
  /\ groups' = GroupsOf(process)
  /\ \E ok \in Outcomes(Running(process)) : mask' = IF ok THEN MaskOf(process) ELSE 0
  /\ cur_numa_node' = IF cur_numa_node # NullNode THEN cur_numa_node
                      ELSE IF Cardinality(groups') = 1 THEN 1
                      ELSE CalculateNumaWeight(threads[process])
  /\ pc' = "process"
  /\ UNCHANGED <<os, table, processes_affinity, it, index_numa_group, todo, history>>

\* The condition to move the process, and one that forgets that a group may have
\* more than one node.
ProcessInOtherGroup == groups # {GroupMask.Group} \/ Test
ProcessElsewhere == groups # {GroupMask.Group} \/ mask # GroupMask.Mask \/ Test

\* SetProcessAffinity on whatever process has the pid now.  The NTSTATUS of
\* success is 0, which the code takes for the error.  Whether the call moves
\* the threads as well is left open.
SetProcess ==
  /\ pc = "process"
  /\ \/ /\ ~ProcessElsewhere
        /\ UNCHANGED <<processAffinity, threadAffinity, failed, report>>
     \/ /\ ProcessElsewhere
        /\ \E opened \in Outcomes(Running(process)) : \E done \in Outcomes(opened) :
             /\ report' = [applied |-> done, returned |-> opened /\ ~done]
             /\ IF done
                THEN /\ processAffinity' = [processAffinity EXCEPT ![process] = GroupMask]
                     /\ \E moved \in {{}, ThreadsOf(process)} :
                          threadAffinity' = [t \in Tid |-> IF t \in moved THEN GroupMask
                                                           ELSE threadAffinity[t]]
                     /\ UNCHANGED failed
                ELSE /\ failed' = failed \cup {process}
                     /\ UNCHANGED <<processAffinity, threadAffinity>>
  /\ todo' = threads[process]
  /\ groups' = {} /\ mask' = 0       \* not read again
  /\ pc' = "threads"
  /\ UNCHANGED <<image, owner, events, table, processes_affinity, it, index_numa_group,
                 cur_numa_node, placed>>

\* SetThreadAffinity on whatever thread has the tid now, when the snapshot says
\* the thread is elsewhere.
SetThread(s) ==
  /\ pc = "threads" /\ s \in todo
  /\ \/ /\ s.group_affinity = GroupMask /\ ~Test
        /\ UNCHANGED <<threadAffinity, failed>>
     \/ /\ s.group_affinity # GroupMask \/ Test
        /\ \E done \in Outcomes(owner[s.thread_id] # Nobody) :
             IF done
             THEN /\ threadAffinity' = [threadAffinity EXCEPT ![s.thread_id] = GroupMask]
                  /\ UNCHANGED failed
             ELSE /\ failed' = failed \cup {s.thread_id}
                  /\ UNCHANGED threadAffinity
  /\ todo' = todo \ {s}
  /\ UNCHANGED <<pc, image, processAffinity, owner, events, table, processes_affinity, it,
                 index_numa_group, cur_numa_node, groups, mask, placed, report>>

\* The end of the body of the outer loop: the turn goes to the next node.
Advance ==
  /\ pc = "threads" /\ todo = {}
  /\ index_numa_group' = NextIndex
  /\ cur_numa_node' = NextIndex + 1
  /\ placed' = Append(placed, [pid |-> process, node |-> cur_numa_node])
  /\ it' = it + 1
  /\ pc' = "query"
  /\ UNCHANGED <<os, table, processes_affinity, groups, mask, todo, failed, report>>

Finish ==
  /\ pc = "query" /\ it > Len(processes_affinity)
  /\ EndPass

SetAffinity == Return \/ Decide \/ Skip \/ Query \/ SetProcess \/ (\E s \in todo : SetThread(s))
               \/ Advance \/ Finish

Environment == \/ \E p \in Pid : StartProcess(p) \/ ExitProcess(p)
               \/ \E t \in Tid : ExitThread(t) \/ \E p \in Pid : StartThread(t, p)

Next == Environment \/ Read \/ SetAffinity

Spec == Init /\ [][Next]_vars

\* The worker thread is scheduled and no system call blocks for ever.
FairSpec == Spec /\ WF_vars(SetAffinity)

-----------------------------------------------------------------------------
\* Every variable of the pass keeps its type: the iterator is at most one past the
\* list, and the node pointer is null or a node of numa_nodes_.
TypeOK ==
  /\ image \in [Pid -> Image]
  /\ processAffinity \in [Pid -> Affinity]
  /\ owner \in [Tid -> Pid \cup {Nobody}]
  /\ threadAffinity \in [Tid -> Affinity]
  /\ events \in 0 .. MaxEvents
  /\ threads \in [Pid -> SUBSET ThreadInfo]
  /\ full \subseteq Pid
  /\ average \in [Pid -> Average]
  /\ pc \in {"idle", "decide", "query", "process", "threads"}
  /\ processes_affinity \in Seq(Pid)
  /\ it \in 1 .. Len(processes_affinity) + 1
  /\ pc \in {"process", "threads"} => it <= Len(processes_affinity)
  /\ index_numa_group \in 0 .. Len(NumaNodes) - 1
  /\ cur_numa_node \in Nodes \cup {NullNode}
  /\ pc \in {"process", "threads"} => cur_numa_node \in Nodes
  /\ mask \in Nat
  /\ todo \subseteq ThreadInfo
  /\ placed \in Seq([pid : Pid, node : Nodes])
  /\ failed \subseteq Pid \cup Tid
  /\ report \in [applied : BOOLEAN, returned : BOOLEAN]

\* The k-th process that is not passed over is bound to the k-th node, the
\* nodes taken in a circle from the first one (README.md, algorithm, step 4:
\* round robin), whatever fails and whatever exits during the pass.
RoundRobin ==
  \A k \in DOMAIN placed :
    placed[k].node = IF k = 1 \/ placed[k - 1].node = Len(NumaNodes) THEN 1
                     ELSE placed[k - 1].node + 1

\* At no moment of a pass does a node have two more of the processes placed so
\* far than another node.
Turns(n) == {k \in DOMAIN placed : placed[k].node = n}
Spread == \A m, n \in Nodes : Cardinality(Turns(m)) - Cardinality(Turns(n)) <= 1

\* The processes are placed in descending order of their averages, each once,
\* and only those whose window is full.
HeaviestFirst ==
  \A j, k \in DOMAIN placed :
    /\ placed[j].pid \in full
    /\ j < k => /\ placed[j].pid # placed[k].pid
                /\ average[placed[j].pid] >= average[placed[k].pid]

\* When a process has had its turn, it and all the threads the snapshot showed
\* are on its node, save the ones that are gone and the ones a call failed on:
\* the comparisons with old affinities skip nothing that had to move.
WholeProcessMoved ==
  pc = "query" =>
    \A k \in DOMAIN placed :
      LET p == placed[k].pid
          target == NumaNodes[placed[k].node]
      IN  /\ Running(p) /\ p \notin failed => processAffinity[p] = target
          /\ \A s \in threads[p] :
               owner[s.thread_id] = p /\ s.thread_id \notin failed
                 => threadAffinity[s.thread_id] = target

\* The balancer never changes the affinity of a process that is not listed or
\* of a thread of one (README.md: "processes" are the processes to be bound).
OnlyListed ==
  [][SetAffinity =>
       /\ \A p \in Pid : processAffinity'[p] # processAffinity[p] => image[p] = "listed"
       /\ \A t \in Tid : threadAffinity'[t] # threadAffinity[t]
            => owner[t] # Nobody /\ image[owner[t]] = "listed"]_vars

\* SetProcessAffinity returns true, and logs no error, exactly when the
\* affinity of the process was set (ProcessInfo.cpp:432 and 520).
ReportTruthful == report.returned = report.applied

\* A pass that has begun ends, whatever fails and whatever exits.
PassEnds == pc # "idle" ~> pc = "idle"
=============================================================================
