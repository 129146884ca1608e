---------------------------- MODULE ProcessTable ----------------------------
(* The table of processes of ProcessesInfo (ProcessInfo.cpp) and the operating *)
(* system it watches.  Read takes a snapshot of the running processes, forgets *)
(* the pids that are gone and adds to every other entry the user time spent    *)
(* since the snapshot before.  Processes start, work and exit in between, and  *)
(* a snapshot may fail.                                                        *)
EXTENDS RingBuffer

CONSTANTS Pid,          \* process identifiers; the OS reuses them
          Image,        \* image names
          Filter,       \* process_filter_, the setting "processes"
          ThreadList,   \* what a thread list may be: an opaque value
          NoImage,      \* the image of a pid that no process has
          PidReuse,     \* may a pid be reused before Read saw it unused?
          MaxCreate,    \* bound: processes started under one pid
          MaxUser       \* bound: user time of one process

ASSUME TableAssumption ==
  /\ Filter \subseteq Image /\ NoImage \notin Image /\ ThreadList # {}
  /\ PidReuse \in BOOLEAN /\ MaxCreate \in Nat /\ MaxUser \in Nat

VARIABLES process,      \* the OS: pid |-> image, creation time, user time
          processes,    \* processes_: pid |-> ProcessInfo, for the pids in the table
          readings      \* history: the last Capacity + 1 readings of each pid that
                        \* were taken by consecutive calls of Read

vars == <<process, processes, readings>>

OsProcess == [name : Image \cup {NoImage}, create : 0 .. MaxCreate, user : 0 .. MaxUser]
Reading == [name : Image \cup {NoImage}, create : 0 .. MaxCreate, user : 0 .. MaxUser,
            threads : ThreadList]
Entry == [create_time : 0 .. MaxCreate, cur_user_time : 0 .. MaxUser,
          user_time : Rings(-MaxUser .. MaxUser), threads : ThreadList]

Running(p) == process[p].name # NoImage

\* Some processes run when the balancer starts.
Init == /\ process \in [Pid -> {q \in OsProcess : q.create = 0}]
        /\ processes = << >>
        /\ readings = [p \in Pid |-> << >>]

-----------------------------------------------------------------------------
(* The operating system. *)

\* A process starts under a pid that no process has; create tells apart the
\* processes that have had the pid, as CreateTime does.  A pid that the last
\* snapshot still showed is taken only when pids are reused that fast.
Start(p) ==
  /\ ~Running(p) /\ process[p].create < MaxCreate
  /\ PidReuse \/ readings[p] = << >>
  /\ \E image \in Image :
       process' = [process EXCEPT ![p].name = image, ![p].create = @ + 1, ![p].user = 0]
  /\ UNCHANGED <<processes, readings>>

Work(p) ==
  /\ Running(p)
  /\ \E user \in process[p].user .. MaxUser : process' = [process EXCEPT ![p].user = user]
  /\ UNCHANGED <<processes, readings>>

Exit(p) ==
  /\ Running(p)
  /\ process' = [process EXCEPT ![p].name = NoImage]
  /\ UNCHANGED <<processes, readings>>

-----------------------------------------------------------------------------
(* Read. *)

\* ActiveProcesses: nothing at all when either call of NtQuerySystemInformation
\* fails, otherwise the running processes the filter lets through, where an
\* empty filter lets everything through.  lists has the threads of each process,
\* which the system gives with it.
ActiveProcesses(ok, lists) ==
  [p \in {q \in Pid : ok /\ Running(q) /\ (Filter = {} \/ process[q].name \in Filter)}
     |-> [name |-> process[p].name, create |-> process[p].create, user |-> process[p].user,
          threads |-> lists[p]]]

\* A mistake: the entries of the pids that are gone stay.
DeleteNothing(lhs, rhs) == lhs

DeleteOldProcess(lhs, rhs) == [p \in DOMAIN lhs \cap DOMAIN rhs |-> lhs[p]]

\* The first branch of AddProcess.  Only the pid tells that the entry is about
\* the process of the snapshot: create_time_ and name_ are neither compared nor
\* replaced.
Updated(e, reading) ==
  [e EXCEPT !.user_time = Add(e.user_time, reading.user - e.cur_user_time),
            !.cur_user_time = reading.user,
            !.threads = reading.threads]

\* The second branch: a new entry has its first reading and no sample.
Inserted(reading) ==
  [create_time |-> reading.create, cur_user_time |-> reading.user,
   user_time |-> NewRing, threads |-> reading.threads]

\* A mistake: the user time of the last snapshot is not remembered.
AddWithoutUpdate(lhs, rhs) ==
  [p \in DOMAIN lhs \cup DOMAIN rhs |->
     IF p \notin DOMAIN rhs THEN lhs[p]
     ELSE IF p \in DOMAIN lhs
          THEN [Updated(lhs[p], rhs[p]) EXCEPT !.cur_user_time = lhs[p].cur_user_time]
          ELSE Inserted(rhs[p])]

\* A mistake: the thread list of the first snapshot stays.
AddKeepingThreads(lhs, rhs) ==
  [p \in DOMAIN lhs \cup DOMAIN rhs |->
     IF p \notin DOMAIN rhs THEN lhs[p]
     ELSE IF p \in DOMAIN lhs
          THEN [Updated(lhs[p], rhs[p]) EXCEPT !.threads = lhs[p].threads]
          ELSE Inserted(rhs[p])]

AddProcess(lhs, rhs) ==
  [p \in DOMAIN lhs \cup DOMAIN rhs |->
     IF p \notin DOMAIN rhs THEN lhs[p]
     ELSE IF p \in DOMAIN lhs THEN Updated(lhs[p], rhs[p])
     ELSE Inserted(rhs[p])]

\* The history: the last Capacity + 1 of the readings in a row.
Remember(seen, reading) ==
  IF Len(seen) <= Capacity THEN Append(seen, reading) ELSE Append(Tail(seen), reading)

\* The snapshot is one system call and everything after it works on the copy,
\* so the whole of Read is one step.
Read(ok, lists) ==
  LET active_processes == ActiveProcesses(ok, lists) IN
  /\ processes' = AddProcess(DeleteOldProcess(processes, active_processes), active_processes)
  /\ readings' = [p \in Pid |-> IF p \in DOMAIN active_processes
                                THEN Remember(readings[p], active_processes[p])
                                ELSE << >>]
  /\ UNCHANGED process

Next == \/ \E p \in Pid : Start(p) \/ Work(p) \/ Exit(p)
        \/ \E ok \in BOOLEAN, lists \in [Pid -> ThreadList] : Read(ok, lists)

Spec == Init /\ [][Next]_vars

-----------------------------------------------------------------------------
\* The processes of the system, the table of ProcessInfo and the ring of every
\* entry keep their types.
TypeOK == /\ process \in [Pid -> OsProcess]
          /\ DOMAIN processes \subseteq Pid
          /\ \A p \in DOMAIN processes : processes[p] \in Entry

\* The user times spent between successive readings.
Differences(seen) == [k \in 1 .. Len(seen) - 1 |-> seen[k + 1].user - seen[k].user]

\* The table holds the pids that every recent snapshot showed, its window of a
\* pid is what was spent between the readings of that pid, none lost, repeated
\* or older than the last gap, and its thread list is the newest one (Read,
\* DeleteOldProcess and AddProcess together, whatever was reused or failed).
WindowIsDifferences ==
  \A p \in Pid :
    /\ p \in DOMAIN processes <=> readings[p] # << >>
    /\ p \in DOMAIN processes =>
         LET e == processes[p]
             last == readings[p][Len(readings[p])]
         IN  /\ Window(e.user_time) = Differences(readings[p])
             /\ e.cur_user_time = last.user /\ e.threads = last.threads

\* When pids are not reused between two calls of Read, all the readings behind
\* an entry are of one process, the one whose creation time the entry holds:
\* the pid alone is enough to find the entry (AddProcess).
OneProcess ==
  \A p \in DOMAIN processes : \A k \in DOMAIN readings[p] :
    readings[p][k].create = processes[p].create_time

\* The average by which SetAffinity ranks a process is what the process spent
\* over the whole analysis period, per reading (README.md, algorithm, step 4).
AverageIsConsumption ==
  \A p \in DOMAIN processes :
    LET seen == readings[p] IN
    Full(processes[p].user_time) =>
      AvgLongLong(processes[p].user_time) = (seen[Capacity + 1].user - seen[1].user) \div Capacity

\* A process is never ranked as if it had spent more user time than it did.
AverageWithinUserTime ==
  \A p \in DOMAIN processes :
    AvgLongLong(processes[p].user_time) <= processes[p].cur_user_time
=============================================================================
