------------------------- MODULE ProcessTableProofs -------------------------
(* The table of processes for any number of pids, any filter, any period of    *)
(* analysis: the window of a process is what it spent between the readings,    *)
(* and without reuse of pids the readings are all of one process.              *)
EXTENDS ProcessTable, RingBufferProofs

FilledFromZero(r) == r.size < Capacity => r.index = r.size

\* The strengthening: the rings have the shape Add relies on, and the history
\* holds at least the last reading and at most the ones behind a full window.
TableInv ==
  /\ TypeOK
  /\ readings \in [Pid -> Seq(Reading)]
  /\ \A p \in Pid : Len(readings[p]) <= Capacity + 1
  /\ \A p \in DOMAIN processes : FilledFromZero(processes[p].user_time)
  /\ WindowIsDifferences

-----------------------------------------------------------------------------
\* One more reading keeps the history within its bound.
LEMMA RememberIsSequence ==
  ASSUME NEW seen \in Seq(Reading), Len(seen) <= Capacity + 1, NEW r \in Reading
  PROVE  /\ Remember(seen, r) \in Seq(Reading)
         /\ Remember(seen, r) # << >>
         /\ Len(Remember(seen, r)) <= Capacity + 1
         /\ Remember(seen, r)[Len(Remember(seen, r))] = r
<1>1. CASE Len(seen) <= Capacity
  <2>1. Remember(seen, r) = Append(seen, r)
    BY <1>1 DEF Remember
  <2>2. Append(seen, r) \in Seq(Reading) /\ Len(Append(seen, r)) = Len(seen) + 1
        /\ Append(seen, r)[Len(seen) + 1] = r
    BY SMTT(20)
  <2> QED
    BY <1>1, <2>1, <2>2, RingAssumption
<1>2. CASE ~(Len(seen) <= Capacity)
  <2>1. seen # << >> /\ Tail(seen) \in Seq(Reading) /\ Len(Tail(seen)) = Len(seen) - 1
    BY <1>2, RingAssumption
  <2>2. Remember(seen, r) = Append(Tail(seen), r)
    BY <1>2 DEF Remember
  <2> QED
    BY <2>1, <2>2, RingAssumption
<1> QED
  BY <1>1, <1>2

\* One more reading slides the differences by the difference it makes.
LEMMA DifferencesSlide ==
  ASSUME NEW seen \in Seq(Reading), NEW r \in Reading,
         seen # << >>, Len(seen) <= Capacity + 1
  PROVE  Differences(Remember(seen, r))
           = Slide(Differences(seen), r.user - seen[Len(seen)].user)
<1> DEFINE n == Len(seen)
           d == Differences(seen)
           x == r.user - seen[n].user
<1>1. n \in Nat /\ n >= 1 /\ Capacity \in Nat /\ Capacity >= 1
  BY RingAssumption
<1>2. \A k \in 1 .. n : seen[k] \in Reading /\ seen[k].user \in Int
  <2>1. \A q \in Reading : q.user \in Int
    BY TableAssumption DEF Reading
  <2>2. \A k \in 1 .. n : seen[k] \in Reading
    OBVIOUS
  <2> QED
    BY <2>1, <2>2
<1>3. x \in Int
  BY <1>1, <1>2, TableAssumption DEF Reading
<1>4. \A k \in 1 .. n - 1 : seen[k + 1].user - seen[k].user \in Int
  BY <1>1, <1>2
<1>5. d \in Seq(Int) /\ Len(d) = n - 1
  BY <1>1, <1>4 DEF Differences
<1>6. CASE n <= Capacity
  <2>1. Remember(seen, r) = Append(seen, r) /\ Len(Append(seen, r)) = n + 1
    BY <1>6 DEF Remember
  <2>2. \A k \in 1 .. n : Append(seen, r)[k] = seen[k]
    BY <1>1
  <2>3. Append(seen, r)[n + 1] = r
    BY <1>1
  <2>4. Differences(Append(seen, r))
          = [k \in 1 .. n |-> Append(seen, r)[k + 1].user - Append(seen, r)[k].user]
    BY <2>1, <1>1 DEF Differences
  <2>5. Append(d, x) = [k \in 1 .. n |-> IF k = n THEN x ELSE d[k]]
    BY <1>1, <1>5, <1>3
  <2>6. \A k \in 1 .. n :
          Append(seen, r)[k + 1].user - Append(seen, r)[k].user = IF k = n THEN x ELSE d[k]
    <3> SUFFICES ASSUME NEW k \in 1 .. n
                 PROVE  Append(seen, r)[k + 1].user - Append(seen, r)[k].user
                          = IF k = n THEN x ELSE d[k]
      OBVIOUS
    <3>1. CASE k = n
      BY <3>1, <2>2, <2>3, <1>1
    <3>2. CASE k # n
      <4>1. k + 1 \in 1 .. n /\ k \in 1 .. n - 1
        BY <3>2, <1>1
      <4>2. d[k] = seen[k + 1].user - seen[k].user
        BY <4>1 DEF Differences
      <4> QED
        BY <3>2, <4>1, <4>2, <2>2
    <3> QED
      BY <3>1, <3>2
  <2>7. Differences(Append(seen, r)) = Append(d, x)
    BY <2>4, <2>5, <2>6
  <2> QED
    BY <2>1, <2>7, <1>5, <1>6, <1>1 DEF Slide
<1>7. CASE n = Capacity + 1
  <2> DEFINE t == Append(Tail(seen), r)
  <2>1. Tail(seen) \in Seq(Reading) /\ Len(Tail(seen)) = Capacity
        /\ \A k \in 1 .. Capacity : Tail(seen)[k] = seen[k + 1]
    BY <1>1, <1>7
  <2>2. Remember(seen, r) = t /\ Len(t) = Capacity + 1
    BY <1>1, <1>7, <2>1 DEF Remember
  <2>3. /\ t[Capacity + 1] = r
        /\ \A k \in 1 .. Capacity : t[k] = seen[k + 1]
    BY <1>1, <2>1
  <2>4. Differences(t) = [k \in 1 .. Capacity |-> t[k + 1].user - t[k].user]
    BY <2>2, <1>1 DEF Differences
  <2>5. Tail(d) \in Seq(Int) /\ Len(Tail(d)) = Capacity - 1
        /\ \A k \in 1 .. Capacity - 1 : Tail(d)[k] = d[k + 1]
    BY <1>1, <1>5, <1>7
  <2>6. Append(Tail(d), x)
          = [k \in 1 .. Capacity |-> IF k = Capacity THEN x ELSE Tail(d)[k]]
    BY <1>1, <1>3, <2>5
  <2>7. \A k \in 1 .. Capacity :
          t[k + 1].user - t[k].user = IF k = Capacity THEN x ELSE Tail(d)[k]
    <3> SUFFICES ASSUME NEW k \in 1 .. Capacity
                 PROVE  t[k + 1].user - t[k].user
                          = IF k = Capacity THEN x ELSE Tail(d)[k]
      OBVIOUS
    <3>1. CASE k = Capacity
      BY <3>1, <2>3, <1>1, <1>7
    <3>2. CASE k # Capacity
      <4>1. k + 1 \in 1 .. Capacity /\ k \in 1 .. Capacity - 1 /\ k + 1 \in 1 .. n - 1
        BY <3>2, <1>1, <1>7
      <4>2. d[k + 1] = seen[k + 1 + 1].user - seen[k + 1].user
        BY <4>1 DEF Differences
      <4>3. t[k + 1] = seen[k + 1 + 1] /\ t[k] = seen[k + 1]
        BY <4>1, <2>3
      <4>4. Tail(d)[k] = d[k + 1]
        BY <4>1, <2>5
      <4> QED
        BY <3>2, <4>2, <4>3, <4>4
    <3> QED
      BY <3>1, <3>2
  <2>8. Differences(t) = Append(Tail(d), x)
    BY <2>4, <2>6, <2>7
  <2> QED
    BY <2>2, <2>8, <1>5, <1>7, <1>1 DEF Slide
<1> QED
  BY <1>1, <1>6, <1>7

\* A new ring has an empty window.
LEMMA NewRingIsEmpty ==
  ASSUME NEW S
  PROVE  NewRing \in Rings(S) /\ FilledFromZero(NewRing) /\ Window(NewRing) = << >>
BY RingAssumption DEF NewRing, Rings, Slots, FilledFromZero, Window

-----------------------------------------------------------------------------
\* What Read leaves in the table: the pids of the snapshot, updated when the
\* table had them and new otherwise.
LEMMA ReadTable ==
  ASSUME NEW ok \in BOOLEAN, NEW lists \in [Pid -> ThreadList], Read(ok, lists)
  PROVE  /\ DOMAIN processes' = DOMAIN ActiveProcesses(ok, lists)
         /\ \A p \in DOMAIN ActiveProcesses(ok, lists) :
              processes'[p] = IF p \in DOMAIN processes
                              THEN Updated(processes[p], ActiveProcesses(ok, lists)[p])
                              ELSE Inserted(ActiveProcesses(ok, lists)[p])
         /\ readings' = [p \in Pid |-> IF p \in DOMAIN ActiveProcesses(ok, lists)
                                       THEN Remember(readings[p], ActiveProcesses(ok, lists)[p])
                                       ELSE << >>]
         /\ process' = process
<1> DEFINE a == ActiveProcesses(ok, lists)
           kept == DeleteOldProcess(processes, a)
<1> HIDE DEF a
<1>1. DOMAIN kept = DOMAIN processes \cap DOMAIN a
      /\ \A p \in DOMAIN kept : kept[p] = processes[p]
  BY DEF DeleteOldProcess
<1> HIDE DEF kept
<1>2. processes' = AddProcess(kept, a)
  BY DEF Read, kept, a
<1>3. DOMAIN processes' = DOMAIN a
  BY <1>1, <1>2 DEF AddProcess
<1>4. \A p \in DOMAIN a : processes'[p] = IF p \in DOMAIN processes
                                         THEN Updated(processes[p], a[p])
                                         ELSE Inserted(a[p])
  BY <1>1, <1>2, Zenon DEF AddProcess
<1>5. readings' = [p \in Pid |-> IF p \in DOMAIN a THEN Remember(readings[p], a[p])
                                ELSE << >>] /\ process' = process
  BY DEF Read, a
<1> QED
  BY <1>3, <1>4, <1>5 DEF a

\* Every pid of a snapshot is a pid, with the reading the system had of it.
LEMMA SnapshotIsTyped ==
  ASSUME process \in [Pid -> OsProcess], NEW ok \in BOOLEAN, NEW lists \in [Pid -> ThreadList],
         NEW p \in DOMAIN ActiveProcesses(ok, lists)
  PROVE  /\ p \in Pid /\ process[p] \in OsProcess
         /\ ActiveProcesses(ok, lists)[p] \in Reading
         /\ ActiveProcesses(ok, lists)[p].create = process[p].create
BY DEF ActiveProcesses, OsProcess, Reading

\* An entry that is updated keeps its type and slides its window.
LEMMA UpdatedEntry ==
  ASSUME NEW e \in Entry, FilledFromZero(e.user_time), NEW q \in Reading
  PROVE  /\ Updated(e, q) \in Entry
         /\ FilledFromZero(Updated(e, q).user_time)
         /\ Window(Updated(e, q).user_time)
              = Slide(Window(e.user_time), q.user - e.cur_user_time)
         /\ Updated(e, q).cur_user_time = q.user
         /\ Updated(e, q).threads = q.threads
         /\ Updated(e, q).create_time = e.create_time
<1> DEFINE S == -MaxUser .. MaxUser
           v == q.user - e.cur_user_time
<1>1. e.user_time \in Rings(S) /\ e.cur_user_time \in 0 .. MaxUser /\ q.user \in 0 .. MaxUser
      /\ q.threads \in ThreadList /\ e.create_time \in 0 .. MaxCreate
  BY DEF Entry, Reading
<1>2. v \in S
  BY <1>1, TableAssumption
<1>3. Add(e.user_time, v) \in Rings(S) /\ FilledFromZero(Add(e.user_time, v))
      /\ Window(Add(e.user_time, v)) = Slide(Window(e.user_time), v)
  <2> HIDE DEF S, v
  <2> QED
    BY <1>1, <1>2, AddKeepsRing, AddSlidesWindow DEF FilledFromZero
<1>4. Updated(e, q) = [create_time |-> e.create_time, cur_user_time |-> q.user,
                       user_time |-> Add(e.user_time, v), threads |-> q.threads]
  <2>1. e = [create_time |-> e.create_time, cur_user_time |-> e.cur_user_time,
             user_time |-> e.user_time, threads |-> e.threads]
    BY DEF Entry
  <2> HIDE DEF v
  <2>2. Updated(e, q) = [e EXCEPT !.user_time = Add(e.user_time, v),
                                  !.cur_user_time = q.user, !.threads = q.threads]
    BY DEF Updated, v
  <2> QED
    BY <2>1, <2>2
<1> QED
  BY <1>1, <1>3, <1>4 DEF Entry

\* A new entry has its type and an empty window.
LEMMA InsertedEntry ==
  ASSUME NEW q \in Reading
  PROVE  /\ Inserted(q) \in Entry
         /\ FilledFromZero(Inserted(q).user_time)
         /\ Window(Inserted(q).user_time) = << >>
         /\ Inserted(q).cur_user_time = q.user
         /\ Inserted(q).threads = q.threads
         /\ Inserted(q).create_time = q.create
<1>1. q.user \in 0 .. MaxUser /\ q.threads \in ThreadList /\ q.create \in 0 .. MaxCreate
  BY DEF Reading
<1>2. NewRing \in Rings(-MaxUser .. MaxUser) /\ FilledFromZero(NewRing)
      /\ Window(NewRing) = << >>
  BY NewRingIsEmpty
<1> QED
  BY <1>1, <1>2 DEF Inserted, Entry

-----------------------------------------------------------------------------
\* The strengthened invariant holds at first.
LEMMA TableInvInit == Init => TableInv
<1> SUFFICES ASSUME Init PROVE TableInv
  OBVIOUS
<1>1. DOMAIN processes = {}
  BY DEF Init
<1>2. process \in [Pid -> OsProcess]
  BY TableAssumption DEF Init, OsProcess
<1>3. \A p \in Pid : readings[p] = << >>
  BY DEF Init
<1>4. readings \in [Pid -> Seq(Reading)]
  BY DEF Init
<1> QED
  BY <1>1, <1>2, <1>3, <1>4, RingAssumption DEF TableInv, TypeOK, WindowIsDifferences

\* What the operating system does touches neither the table nor the history.
LEMMA SystemKeepsTableInv ==
  ASSUME TableInv, NEW p \in Pid, Start(p) \/ Work(p) \/ Exit(p)
  PROVE  TableInv'
<1>1. processes' = processes /\ readings' = readings
  BY DEF Start, Work, Exit
<1>2. process' \in [Pid -> OsProcess]
  <2>1. process \in [Pid -> OsProcess] /\ process[p] \in OsProcess
    BY DEF TableInv, TypeOK
  <2>2. CASE Start(p)
    <3>1. PICK image \in Image :
            process' = [process EXCEPT ![p].name = image, ![p].create = @ + 1, ![p].user = 0]
      BY <2>2 DEF Start
    <3>2. process[p].create + 1 \in 0 .. MaxCreate /\ 0 \in 0 .. MaxUser
      <4>1. process[p].create \in 0 .. MaxCreate
        BY <2>1 DEF OsProcess
      <4>2. process[p].create < MaxCreate
        BY <2>2 DEF Start
      <4> QED
        BY <4>1, <4>2, TableAssumption
    <3> QED
      BY <2>1, <3>1, <3>2 DEF OsProcess
  <2>3. CASE Work(p)
    <3>1. PICK user \in process[p].user .. MaxUser : process' = [process EXCEPT ![p].user = user]
      BY <2>3 DEF Work
    <3>2. user \in 0 .. MaxUser
      BY <2>1, TableAssumption DEF OsProcess
    <3> QED
      BY <2>1, <3>1, <3>2 DEF OsProcess
  <2>4. CASE Exit(p)
    BY <2>1, <2>4 DEF Exit, OsProcess
  <2> QED
    BY <2>2, <2>3, <2>4
<1> QED
  BY <1>1, <1>2 DEF TableInv, TypeOK, WindowIsDifferences

\* Read keeps the table in step with the history.
LEMMA ReadKeepsTableInv ==
  ASSUME TableInv, NEW ok \in BOOLEAN, NEW lists \in [Pid -> ThreadList], Read(ok, lists)
  PROVE  TableInv'
<1> DEFINE a == ActiveProcesses(ok, lists)
<1>1. /\ DOMAIN processes' = DOMAIN a
      /\ \A p \in DOMAIN a : processes'[p] = IF p \in DOMAIN processes
                                             THEN Updated(processes[p], a[p])
                                             ELSE Inserted(a[p])
      /\ readings' = [p \in Pid |-> IF p \in DOMAIN a THEN Remember(readings[p], a[p])
                                    ELSE << >>]
      /\ process' = process
  BY ReadTable
<1>2. /\ process \in [Pid -> OsProcess]
      /\ \A p \in DOMAIN processes : processes[p] \in Entry
      /\ readings \in [Pid -> Seq(Reading)]
      /\ \A p \in Pid : readings[p] \in Seq(Reading) /\ Len(readings[p]) <= Capacity + 1
      /\ \A p \in DOMAIN processes : FilledFromZero(processes[p].user_time)
  BY DEF TableInv, TypeOK
<1>3. \A p \in DOMAIN a : p \in Pid /\ a[p] \in Reading
  BY <1>2, SnapshotIsTyped
<1> HIDE DEF a
<1>4. \A p \in DOMAIN a :
        /\ readings'[p] = Remember(readings[p], a[p])
        /\ readings'[p] \in Seq(Reading) /\ readings'[p] # << >>
        /\ Len(readings'[p]) <= Capacity + 1
        /\ readings'[p][Len(readings'[p])] = a[p]
  BY <1>1, <1>2, <1>3, RememberIsSequence
<1>5. \A p \in Pid : p \notin DOMAIN a => readings'[p] = << >>
  BY <1>1
<1>6. \A p \in DOMAIN a :
        /\ processes'[p] \in Entry
        /\ FilledFromZero(processes'[p].user_time)
        /\ processes'[p].cur_user_time = a[p].user
        /\ processes'[p].threads = a[p].threads
  <2> TAKE p \in DOMAIN a
  <2>1. a[p] \in Reading
    BY <1>3
  <2>2. CASE p \in DOMAIN processes
    <3>1. processes'[p] = Updated(processes[p], a[p])
      BY <1>1, <2>2
    <3>2. processes[p] \in Entry /\ FilledFromZero(processes[p].user_time)
      BY <1>2, <2>2
    <3> QED
      BY <2>1, <3>1, <3>2, UpdatedEntry
  <2>3. CASE p \notin DOMAIN processes
    <3>1. processes'[p] = Inserted(a[p])
      BY <1>1, <2>3
    <3> QED
      BY <2>1, <3>1, InsertedEntry
  <2> QED
    BY <2>2, <2>3
<1>7. \A p \in DOMAIN a : Window(processes'[p].user_time) = Differences(readings'[p])
  <2> SUFFICES ASSUME NEW p \in DOMAIN a
               PROVE  Window(processes'[p].user_time) = Differences(readings'[p])
    OBVIOUS
  <2>1. p \in Pid /\ a[p] \in Reading
    BY <1>3
  <2>2. CASE p \in DOMAIN processes
    <3>1. /\ readings[p] # << >>
          /\ Window(processes[p].user_time) = Differences(readings[p])
          /\ processes[p].cur_user_time = readings[p][Len(readings[p])].user
      BY <2>1, <2>2 DEF TableInv, WindowIsDifferences
    <3>2. Window(processes'[p].user_time)
            = Slide(Window(processes[p].user_time), a[p].user - processes[p].cur_user_time)
      BY <1>1, <1>2, <2>1, <2>2, UpdatedEntry
    <3>3. Differences(readings'[p])
            = Slide(Differences(readings[p]), a[p].user - readings[p][Len(readings[p])].user)
      BY <1>2, <1>4, <2>1, <3>1, DifferencesSlide
    <3> QED
      BY <3>1, <3>2, <3>3
  <2>3. CASE p \notin DOMAIN processes
    <3>1. readings[p] = << >>
      BY <2>1, <2>3 DEF TableInv, WindowIsDifferences
    <3>2. readings'[p] = <<a[p]>>
      <4>1. readings'[p] = Remember(<< >>, a[p])
        BY <1>4, <3>1
      <4>2. Len(<< >>) <= Capacity
        BY RingAssumption
      <4>3. Remember(<< >>, a[p]) = Append(<< >>, a[p])
        BY <4>2 DEF Remember
      <4> QED
        BY <4>1, <4>3
    <3>3. Differences(readings'[p]) = << >>
      BY <3>2 DEF Differences
    <3>4. Window(processes'[p].user_time) = << >>
      BY <1>1, <2>1, <2>3, InsertedEntry
    <3> QED
      BY <3>3, <3>4
  <2> QED
    BY <2>2, <2>3
<1>8. readings' \in [Pid -> Seq(Reading)] /\ \A p \in Pid : Len(readings'[p]) <= Capacity + 1
  <2>1. \A p \in Pid : readings'[p] \in Seq(Reading) /\ Len(readings'[p]) <= Capacity + 1
    <3> TAKE p \in Pid
    <3>1. CASE p \in DOMAIN a
      BY <1>4, <3>1
    <3>2. CASE p \notin DOMAIN a
      <4>1. readings'[p] = << >>
        BY <1>5, <3>2
      <4> QED
        BY <4>1, RingAssumption
    <3> QED
      BY <3>1, <3>2
  <2> QED
    BY <1>1, <2>1
<1>9. TypeOK'
  BY <1>1, <1>2, <1>3, <1>6 DEF TypeOK
<1>10. WindowIsDifferences'
  BY <1>1, <1>3, <1>4, <1>5, <1>6, <1>7 DEF WindowIsDifferences
<1> QED
  BY <1>1, <1>6, <1>8, <1>9, <1>10 DEF TableInv

\* Every step keeps the table in step with the history.
LEMMA NextTableInv == TableInv /\ [Next]_vars => TableInv'
<1> SUFFICES ASSUME TableInv, [Next]_vars PROVE TableInv'
  OBVIOUS
<1>1. ASSUME NEW p \in Pid, Start(p) \/ Work(p) \/ Exit(p) PROVE TableInv'
  BY <1>1, SystemKeepsTableInv
<1>2. ASSUME NEW ok \in BOOLEAN, NEW lists \in [Pid -> ThreadList], Read(ok, lists)
      PROVE  TableInv'
  BY <1>2, ReadKeepsTableInv
<1>3. CASE UNCHANGED vars
  BY <1>3 DEF vars, TableInv, TypeOK, WindowIsDifferences
<1> QED
  BY <1>1, <1>2, <1>3 DEF Next

\* The window of every entry, its last reading and its thread list are exactly
\* what the snapshots since its first one showed (Read, DeleteOldProcess,
\* AddProcess, RingBuffer::Add), whatever exits, is reused or fails.
THEOREM TableInvariant == Spec => []TableInv
BY TableInvInit, NextTableInv, PTL DEF Spec

\* The variables of the table keep their types.
THEOREM TableTypeOK == Spec => []TypeOK
<1>1. TableInv => TypeOK
  BY DEF TableInv
<1> QED
  BY <1>1, TableInvariant, PTL

\* The table holds the pids every recent snapshot showed, each with the window
\* of the differences of its readings and with its newest thread list.
THEOREM TableWindowIsDifferences == Spec => []WindowIsDifferences
<1>1. TableInv => WindowIsDifferences
  BY DEF TableInv
<1> QED
  BY <1>1, TableInvariant, PTL

-----------------------------------------------------------------------------
\* Why OneProcess holds: while a pid is in the table no other process takes it.
SameProcess ==
  \A p \in DOMAIN processes : process[p].create = processes[p].create_time

\* Without reuse of pids between two calls of Read, every reading behind an
\* entry is of the process whose creation time the entry holds.
THEOREM OneProcessAlways ==
  ASSUME PidReuse = FALSE
  PROVE  Spec => []OneProcess
<1> DEFINE I == TableInv /\ SameProcess /\ OneProcess
<1>1. Init => I
  <2>1. Init => SameProcess /\ OneProcess
    BY DEF Init, SameProcess, OneProcess
  <2> QED
    BY <2>1, TableInvInit
<1>2. I /\ TableInv' /\ [Next]_vars => I'
  <2> SUFFICES ASSUME I, TableInv', [Next]_vars PROVE SameProcess' /\ OneProcess'
    OBVIOUS
  <2>1. ASSUME NEW p \in Pid, Start(p) \/ Work(p) \/ Exit(p)
        PROVE  SameProcess' /\ OneProcess'
    <3>1. processes' = processes /\ readings' = readings
      BY <2>1 DEF Start, Work, Exit
    <3>2. process \in [Pid -> OsProcess] /\ process[p] \in OsProcess
          /\ DOMAIN processes \subseteq Pid
      BY DEF TableInv, TypeOK
    <3>3. \A q \in DOMAIN processes : process'[q].create = process[q].create
      <4>1. CASE Start(p)
        <5>1. p \notin DOMAIN processes
          BY <4>1 DEF Start, TableInv, WindowIsDifferences
        <5>2. \A q \in Pid \ {p} : process'[q] = process[q]
          BY <4>1, <3>2 DEF Start
        <5> QED
          BY <5>1, <5>2, <3>2
      <4>2. CASE Work(p)
        BY <4>2, <3>2 DEF Work, OsProcess
      <4>3. CASE Exit(p)
        BY <4>3, <3>2 DEF Exit, OsProcess
      <4> QED
        BY <2>1, <4>1, <4>2, <4>3
    <3> QED
      BY <3>1, <3>3 DEF SameProcess, OneProcess
  <2>2. ASSUME NEW ok \in BOOLEAN, NEW lists \in [Pid -> ThreadList], Read(ok, lists) PROVE SameProcess' /\ OneProcess'
    <3> DEFINE a == ActiveProcesses(ok, lists)
    <3>1. /\ DOMAIN processes' = DOMAIN a
          /\ \A p \in DOMAIN a : processes'[p] = IF p \in DOMAIN processes
                                                 THEN Updated(processes[p], a[p])
                                                 ELSE Inserted(a[p])
          /\ readings' = [p \in Pid |-> IF p \in DOMAIN a THEN Remember(readings[p], a[p])
                                        ELSE << >>]
          /\ process' = process
      BY <2>2, ReadTable
    <3>2. /\ process \in [Pid -> OsProcess]
          /\ \A p \in DOMAIN processes :
               processes[p] \in Entry /\ FilledFromZero(processes[p].user_time)
          /\ \A p \in Pid : readings[p] \in Seq(Reading) /\ Len(readings[p]) <= Capacity + 1
      BY DEF TableInv, TypeOK
    <3>3. \A p \in DOMAIN a : p \in Pid /\ a[p].create = process[p].create /\ a[p] \in Reading
      BY <3>2, SnapshotIsTyped
    <3> HIDE DEF a
    <3> SUFFICES ASSUME NEW p \in DOMAIN a
                 PROVE  /\ process[p].create = processes'[p].create_time
                        /\ \A k \in DOMAIN readings'[p] :
                             readings'[p][k].create = processes'[p].create_time
      BY <3>1 DEF SameProcess, OneProcess
    <3>4. p \in Pid /\ a[p].create = process[p].create /\ a[p] \in Reading
          /\ readings'[p] = Remember(readings[p], a[p])
      BY <3>1, <3>3
    <3>5. CASE p \in DOMAIN processes
      <4>1. processes'[p].create_time = processes[p].create_time
        BY <3>1, <3>2, <3>4, <3>5, UpdatedEntry
      <4>2. process[p].create = processes[p].create_time
        BY <3>5 DEF SameProcess
      <4>3. \A k \in DOMAIN readings[p] : readings[p][k].create = processes[p].create_time
        BY <3>5 DEF OneProcess
      <4>4. \A k \in DOMAIN readings'[p] :
              readings'[p][k] = a[p] \/ \E j \in DOMAIN readings[p] : readings'[p][k] = readings[p][j]
        <5>1. readings[p] \in Seq(Reading) /\ Len(readings[p]) \in Nat
          BY <3>2, <3>4
        <5>2. CASE Len(readings[p]) <= Capacity
          BY <5>1, <5>2, <3>4 DEF Remember
        <5>3. CASE ~(Len(readings[p]) <= Capacity)
          <6>1. readings'[p] = Append(Tail(readings[p]), a[p])
            BY <5>3, <3>4 DEF Remember
          <6>2. readings[p] # << >> /\ Tail(readings[p]) \in Seq(Reading)
                /\ Len(Tail(readings[p])) = Len(readings[p]) - 1
                /\ \A k \in 1 .. Len(readings[p]) - 1 : Tail(readings[p])[k] = readings[p][k + 1]
            BY <5>1, <5>3, RingAssumption
          <6> QED
            BY <6>1, <6>2, <5>1
        <5> QED
          BY <5>2, <5>3
      <4> QED
        BY <3>4, <4>1, <4>2, <4>3, <4>4
    <3>6. CASE p \notin DOMAIN processes
      <4>1. readings[p] = << >>
        BY <3>4, <3>6 DEF TableInv, WindowIsDifferences
      <4>2. readings'[p] = <<a[p]>>
        BY <3>4, <4>1, RingAssumption DEF Remember
      <4>3. processes'[p].create_time = a[p].create
        BY <3>1, <3>4, <3>6, InsertedEntry
      <4> QED
        BY <3>4, <4>2, <4>3
    <3> QED
      BY <3>5, <3>6
  <2>3. CASE UNCHANGED vars
    BY <2>3 DEF vars, SameProcess, OneProcess
  <2> QED
    BY <2>1, <2>2, <2>3 DEF Next
<1>3. I => OneProcess
  OBVIOUS
<1> QED
  BY <1>1, <1>2, <1>3, TableInvariant, PTL DEF Spec

-----------------------------------------------------------------------------
\* Why the average is never that of a negative sum: without reuse of pids the
\* user time of a pid only grows from one reading to the next.
UsersGrow ==
  \A p \in Pid : \A k \in DOMAIN readings[p] :
    /\ readings[p][k].user <= process[p].user
    /\ \A i \in 1 .. k : readings[p][i].user <= readings[p][k].user

\* One more reading that is not less than any before it keeps them growing.
LEMMA RememberGrows ==
  ASSUME NEW seen \in Seq(Reading), Len(seen) <= Capacity + 1, NEW r \in Reading,
         \A k \in 1 .. Len(seen) : /\ seen[k].user <= r.user
                                  /\ \A i \in 1 .. k : seen[i].user <= seen[k].user
  PROVE  \A k \in 1 .. Len(Remember(seen, r)) :
           /\ Remember(seen, r)[k].user <= r.user
           /\ \A i \in 1 .. k : Remember(seen, r)[i].user <= Remember(seen, r)[k].user
<1> DEFINE n == Len(seen)
           t == Remember(seen, r)
<1>1. n \in Nat /\ Capacity \in Nat \ {0} /\ r.user \in Int
  BY RingAssumption, TableAssumption DEF Reading
<1>2. PICK e \in {0, 1} :
        /\ n - e \in Nat /\ Len(t) = n - e + 1
        /\ t[n - e + 1] = r
        /\ \A k \in 1 .. n - e : t[k] = seen[k + e]
  <2>1. CASE n <= Capacity
    <3>1. t = Append(seen, r)
      BY <2>1 DEF Remember
    <3>2. Len(t) = n - 0 + 1 /\ t[n - 0 + 1] = r /\ n - 0 \in Nat
          /\ \A k \in 1 .. n - 0 : t[k] = seen[k + 0]
      BY <1>1, <3>1
    <3> QED
      BY <3>2
  <2>2. CASE ~(n <= Capacity)
    <3>1. t = Append(Tail(seen), r)
      BY <2>2 DEF Remember
    <3>2. Tail(seen) \in Seq(Reading) /\ Len(Tail(seen)) = n - 1
          /\ \A k \in 1 .. n - 1 : Tail(seen)[k] = seen[k + 1]
      BY <1>1, <2>2
    <3>3. Len(t) = n - 1 + 1 /\ t[n - 1 + 1] = r /\ n - 1 \in Nat
          /\ \A k \in 1 .. n - 1 : t[k] = seen[k + 1]
      BY <1>1, <2>2, <3>1, <3>2
    <3> QED
      BY <3>3
  <2> QED
    BY <2>1, <2>2
<1> HIDE DEF t
<1> SUFFICES ASSUME NEW k \in 1 .. Len(t), NEW i \in 1 .. k
             PROVE  t[k].user <= r.user /\ t[i].user <= t[k].user
  BY <1>1, <1>2 DEF t
<1>3. CASE k = n - e + 1
  <2>1. i = k \/ (i \in 1 .. n - e /\ i + e \in 1 .. n)
    BY <1>1, <1>2, <1>3
  <2>2. t[k] = r
    BY <1>2, <1>3
  <2> QED
    BY <1>1, <1>2, <2>1, <2>2
<1>4. CASE k # n - e + 1
  <2>1. k \in 1 .. n - e /\ i \in 1 .. n - e /\ k + e \in 1 .. n /\ i + e \in 1 .. k + e
    BY <1>1, <1>2, <1>4
  <2>2. t[k] = seen[k + e] /\ t[i] = seen[i + e]
    BY <1>2, <2>1
  <2> QED
    BY <2>1, <2>2
<1> QED
  BY <1>3, <1>4

\* Without reuse of pids no process is seen to lose user time.
LEMMA UsersGrowAlways ==
  ASSUME PidReuse = FALSE
  PROVE  Spec => []UsersGrow
<1>1. Init => UsersGrow
  BY DEF Init, UsersGrow
<1>2. TableInv /\ UsersGrow /\ [Next]_vars => UsersGrow'
  <2> SUFFICES ASSUME TableInv, UsersGrow, [Next]_vars PROVE UsersGrow'
    OBVIOUS
  <2>0. /\ process \in [Pid -> OsProcess]
        /\ \A p \in Pid : process[p].user \in 0 .. MaxUser
        /\ \A p \in Pid : readings[p] \in Seq(Reading) /\ Len(readings[p]) <= Capacity + 1
    BY DEF TableInv, TypeOK, OsProcess
  <2>1. ASSUME NEW p \in Pid, Start(p) \/ Work(p) \/ Exit(p) PROVE UsersGrow'
    <3>1. readings' = readings
      BY <2>1 DEF Start, Work, Exit
    <3>2. \A q \in Pid : readings[q] # << >> =>
            process'[q].user \in Int /\ process[q].user <= process'[q].user
      <4>1. CASE Start(p)
        <5>1. readings[p] = << >>
          BY <4>1 DEF Start
        <5>2. \A q \in Pid \ {p} : process'[q] = process[q]
          BY <4>1, <2>0 DEF Start
        <5> QED
          BY <5>1, <5>2, <2>0, TableAssumption
      <4>2. CASE Work(p)
        <5>1. PICK user \in process[p].user .. MaxUser :
                process' = [process EXCEPT ![p].user = user]
          BY <4>2 DEF Work
        <5>2. process'[p].user = user /\ \A q \in Pid \ {p} : process'[q] = process[q]
          BY <5>1, <2>0 DEF OsProcess
        <5> QED
          BY <5>2, <2>0, TableAssumption
      <4>3. CASE Exit(p)
        <5>1. \A q \in Pid : process'[q].user = process[q].user
          BY <4>3, <2>0 DEF Exit, OsProcess
        <5> QED
          BY <5>1, <2>0, TableAssumption
      <4> QED
        BY <2>1, <4>1, <4>2, <4>3
    <3> SUFFICES ASSUME NEW q \in Pid, NEW k \in 1 .. Len(readings[q])
                 PROVE  /\ readings[q][k].user <= process'[q].user
                        /\ \A i \in 1 .. k : readings[q][i].user <= readings[q][k].user
      BY <2>0, <3>1 DEF UsersGrow
    <3>3. /\ readings[q][k].user <= process[q].user
          /\ \A i \in 1 .. k : readings[q][i].user <= readings[q][k].user
      BY <2>0 DEF UsersGrow
    <3>4. readings[q] # << >> /\ readings[q][k].user \in Int
      <4>1. readings[q][k] \in Reading
        BY <2>0
      <4>2. Len(readings[q]) # 0
        BY <2>0
      <4> QED
        BY <4>1, <4>2, TableAssumption DEF Reading
    <3> QED
      BY <2>0, <3>2, <3>3, <3>4, TableAssumption
  <2>2. ASSUME NEW ok \in BOOLEAN, NEW lists \in [Pid -> ThreadList], Read(ok, lists)
        PROVE  UsersGrow'
    <3> DEFINE a == ActiveProcesses(ok, lists)
    <3>1. /\ readings' = [p \in Pid |-> IF p \in DOMAIN a THEN Remember(readings[p], a[p])
                                        ELSE << >>]
          /\ process' = process
      BY <2>2, ReadTable
    <3>2. \A p \in DOMAIN a : p \in Pid /\ a[p].user = process[p].user /\ a[p] \in Reading
      <4>1. \A p \in DOMAIN a : p \in Pid /\ a[p] \in Reading
        BY <2>0, SnapshotIsTyped
      <4>2. \A p \in DOMAIN a : a[p].user = process[p].user
        BY DEF ActiveProcesses
      <4> QED
        BY <4>1, <4>2
    <3> HIDE DEF a
    <3> SUFFICES ASSUME NEW p \in Pid, NEW k \in DOMAIN readings'[p]
                 PROVE  /\ readings'[p][k].user <= process[p].user
                        /\ \A i \in 1 .. k : readings'[p][i].user <= readings'[p][k].user
      BY <3>1 DEF UsersGrow
    <3>3. CASE p \in DOMAIN a
      <4>1. a[p].user = process[p].user /\ a[p] \in Reading
            /\ readings'[p] = Remember(readings[p], a[p])
        BY <3>1, <3>2, <3>3
      <4>2. \A j \in 1 .. Len(readings[p]) :
              /\ readings[p][j].user <= a[p].user
              /\ \A i \in 1 .. j : readings[p][i].user <= readings[p][j].user
        BY <2>0, <4>1 DEF UsersGrow
      <4>3. \A j \in 1 .. Len(readings'[p]) :
              /\ readings'[p][j].user <= a[p].user
              /\ \A i \in 1 .. j : readings'[p][i].user <= readings'[p][j].user
        BY <2>0, <4>1, <4>2, RememberGrows
      <4>4. readings'[p] \in Seq(Reading)
        BY <2>0, <4>1, RememberIsSequence
      <4>5. k \in 1 .. Len(readings'[p])
        BY <4>4
      <4> QED
        BY <4>1, <4>3, <4>5
    <3>4. CASE p \notin DOMAIN a
      BY <3>1, <3>4
    <3> QED
      BY <3>3, <3>4
  <2>3. CASE UNCHANGED vars
    BY <2>3 DEF vars, UsersGrow
  <2> QED
    BY <2>1, <2>2, <2>3 DEF Next
<1> QED
  BY <1>1, <1>2, TableInvariant, PTL DEF Spec

\* Behind a full window there are as many readings as the history remembers.
LEMMA FullWindow ==
  ASSUME TableInv, NEW p \in DOMAIN processes, Full(processes[p].user_time)
  PROVE  Len(readings[p]) = Capacity + 1
<1> DEFINE r == processes[p].user_time
           seen == readings[p]
           d == Differences(seen)
<1>1. /\ r \in Rings(-MaxUser .. MaxUser) /\ r.size = Capacity
      /\ r.size < Capacity => r.index = r.size
      /\ seen \in Seq(Reading) /\ seen # << >>
      /\ Window(r) = d
  BY DEF TableInv, TypeOK, Entry, Full, FilledFromZero, WindowIsDifferences
<1>2. Len(Window(r)) = Capacity
  BY <1>1, WindowIsSequence
<1>3. Len(seen) \in Nat \ {0}
  BY <1>1
<1>4. Len(d) = Len(seen) - 1
  <2> DEFINE m == Len(seen) - 1
             g(k) == seen[k + 1].user - seen[k].user
  <2>1. m \in Nat
    BY <1>3
  <2>2. d = [k \in 1 .. m |-> g(k)]
    BY DEF Differences
  <2> HIDE DEF m, g, d
  <2>3. Len(d) = m
    BY <2>1, <2>2
  <2> QED
    BY <2>3 DEF m
<1> QED
  BY <1>1, <1>2, <1>3, <1>4, RingAssumption

\* Without reuse of pids, and with user times that a LONGLONG holds, the average by
\* which SetAffinity ranks a process is what the process spent over the whole
\* period, per reading (RingBuffer<LONGLONG>::Avg, AddProcess).
THEOREM AverageIsConsumptionAlways ==
  ASSUME PidReuse = FALSE, MaxUser < 2 ^ (Width - 1)
  PROVE  Spec => []AverageIsConsumption
<1>1. TableInv /\ UsersGrow => AverageIsConsumption
  <2> SUFFICES ASSUME TableInv, UsersGrow, NEW p \in DOMAIN processes,
                      Full(processes[p].user_time)
               PROVE  AvgLongLong(processes[p].user_time)
                        = (readings[p][Capacity + 1].user - readings[p][1].user) \div Capacity
    BY DEF AverageIsConsumption
  <2> DEFINE r == processes[p].user_time
             seen == readings[p]
             user == [k \in 1 .. Capacity + 1 |-> seen[k].user]
             d == Differences(seen)
             spent == seen[Capacity + 1].user - seen[1].user
  <2>0. Capacity \in Nat \ {0}
    BY RingAssumption
  <2>1. /\ p \in Pid /\ r \in Rings(-MaxUser .. MaxUser) /\ r.size = Capacity
        /\ r.size < Capacity => r.index = r.size
        /\ seen \in Seq(Reading)
        /\ Window(r) = d
    BY DEF TableInv, TypeOK, Entry, Full, FilledFromZero, WindowIsDifferences
  <2>2. Len(seen) = Capacity + 1
    BY FullWindow
  <2>3. \A k \in 1 .. Capacity + 1 : seen[k].user \in 0 .. MaxUser
    <3>1. \A k \in 1 .. Capacity + 1 : seen[k] \in Reading
      BY <2>1, <2>2
    <3> QED
      BY <3>1 DEF Reading
  <2>4. spent \in 0 .. MaxUser
    <3>1. Capacity + 1 \in DOMAIN seen /\ 1 \in 1 .. Capacity + 1 /\ Capacity + 1 \in 1 .. Capacity + 1
      BY <2>0, <2>1, <2>2
    <3>2. seen[1].user <= seen[Capacity + 1].user
      BY <2>1, <3>1 DEF UsersGrow
    <3> QED
      BY <2>3, <3>1, <3>2, TableAssumption
  <2>5. Accumulate(r) = SumFunctionOnSet(d, 1 .. Capacity)
    <3>1. -MaxUser .. MaxUser \in SUBSET Int
      BY TableAssumption
    <3>2. Accumulate(r) = SumFunction(d)
      BY <2>1, <3>1, AccumulateIsWindowSum
    <3>3. DOMAIN d = 1 .. Capacity
      BY <2>0, <2>2 DEF Differences
    <3> QED
      BY <3>2, <3>3, Zenon DEF SumFunction
  <2>6. SumFunctionOnSet(d, 1 .. Capacity) = user[Capacity + 1] - user[1]
    <3>1. \A k \in 1 .. Capacity + 1 : user[k] \in Int
      BY <2>3, TableAssumption
    <3>2. \A k \in 1 .. Capacity : d[k] = user[k + 1] - user[k]
      BY <2>0, <2>2 DEF Differences
    <3> HIDE DEF d, user
    <3> QED
      BY <2>0, <3>1, <3>2, SumTelescopes
  <2>7. user[Capacity + 1] - user[1] = spent
    BY <2>0
  <2>8. Accumulate(r) = spent
    BY <2>5, <2>6, <2>7, Zenon
  <2>9. Accumulate(r) \in Nat /\ Accumulate(r) < 2 ^ (Width - 1)
    <3> DEFINE half == 2 ^ (Width - 1)
    <3>1. half \in Nat
      <4> DEFINE n == Width - 1
      <4>1. n \in Nat
        BY RingAssumption
      <4> HIDE DEF n
      <4> QED
        BY <4>1, PowersGrow DEF n
    <3>2. MaxUser < half /\ MaxUser \in Nat
      BY TableAssumption
    <3> HIDE DEF half, spent
    <3>3. spent \in Nat /\ spent < half
      BY <2>4, <3>1, <3>2
    <3> QED
      BY <2>8, <3>3 DEF half
  <2>10. AvgLongLong(r) = Accumulate(r) \div Capacity
    BY <2>0, <2>1, <2>9, AvgIsQuotient
  <2> QED
    BY <2>8, <2>10
<1> QED
  BY <1>1, UsersGrowAlways, TableInvariant, PTL
=============================================================================
