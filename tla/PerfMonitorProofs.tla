-------------------------- MODULE PerfMonitorProofs --------------------------
(* The hand-shake between ~PerfMonitor and the collector thread, what the      *)
(* rings of the counters hold, and how the wait of the destructor ends, for    *)
(* any number of counters, any loads and any window.                           *)
EXTENDS PerfMonitor, RingBufferProofs, SequenceTheorems

Looping == {"test", "collect", "lock", "add"}

\* The stored id says when the collector has left: until the worker clears the
\* flag a collector in its loop finds it set, so it leaves only when the
\* destructor runs, and clearing the id is the last thing it does.
HandshakeInv ==
  /\ worker = "init" => collector = None
  /\ worker = "start" => collector = "spawned" \/ (collector \in Looping /\ is_collect)
  /\ worker = "running" => /\ collector = "spawned" \/ (collector \in Looping /\ is_collect)
                           /\ collector_thread_id = "collector"
  /\ worker = "waiting" => /\ collector \in Looping \cup {"spawned", "leave", "done"}
                           /\ collector_thread_id = None => collector = "done"
  /\ worker = "destroyed" => collector = "done"
  /\ worker \in {"init", "start", "running", "waiting", "destroyed"}

\* The steps of the worker keep the handshake invariant.
LEMMA WorkerKeepsHandshake ==
  ASSUME HandshakeInv, Worker
  PROVE  HandshakeInv'
<1>1. CASE AddCounter \/ GetAvgValues
  <2>1. UNCHANGED <<worker, collector, collector_thread_id, is_collect>>
    BY <1>1 DEF AddCounter, GetAvgValues, members
  <2> QED
    BY <2>1 DEF HandshakeInv
<1>2. CASE StartThread
  BY <1>2 DEF StartThread, HandshakeInv, members
<1>3. CASE StoreId
  BY <1>3 DEF StoreId, HandshakeInv
<1>4. CASE ClearFlag
  BY <1>4 DEF ClearFlag, HandshakeInv, None
<1>5. CASE Destroy
  BY <1>5 DEF Destroy, HandshakeInv
<1> QED
  BY <1>1, <1>2, <1>3, <1>4, <1>5 DEF Worker

\* The steps of the collector thread keep the handshake invariant.
LEMMA CollectorKeepsHandshake ==
  ASSUME HandshakeInv, Collector
  PROVE  HandshakeInv'
<1> USE DEF HandshakeInv, Looping, None
<1>1. CASE SetFlag
  BY <1>1 DEF SetFlag
<1>2. CASE TestFlag
  BY <1>2 DEF TestFlag, members
<1>3. CASE Query \/ Lock \/ AddValue \/ Unlock
  BY <1>3 DEF Query, Lock, AddValue, Unlock, members
<1>4. CASE Leave
  BY <1>4 DEF Leave
<1> QED
  BY <1>1, <1>2, <1>3, <1>4 DEF Collector

\* The flag, the thread id and the places of the two threads agree at every moment
\* (StartCollecting, StartCollectingThread, ~PerfMonitor in perf_monitor.cpp).
THEOREM HandshakeInvariant == Spec => []HandshakeInv
<1>1. Init => HandshakeInv
  BY DEF Init, HandshakeInv
<1>2. HandshakeInv /\ [Next]_vars => HandshakeInv'
  <2>1. HandshakeInv /\ UNCHANGED vars => HandshakeInv'
    BY DEF HandshakeInv, vars, members
  <2> QED
    BY <2>1, WorkerKeepsHandshake, CollectorKeepsHandshake DEF Next
<1> QED
  BY <1>1, <1>2, PTL DEF Spec

\* The members of the monitor are never released under the collector thread,
\* for any number of counters and any window (perf_monitor.cpp:7-30).
THEOREM NoUseAfterDestroyAlways == Spec => []NoUseAfterDestroy
<1>1. HandshakeInv => NoUseAfterDestroy
  BY DEF HandshakeInv, NoUseAfterDestroy
<1> QED
  BY <1>1, HandshakeInvariant, PTL

\* The monitor with all its counters keeps to the handshake of StopHandshake: no
\* other step of either thread touches the flag, the id or the order of events
\* (StartCollecting, StartCollectingThread, ~PerfMonitor).
THEOREM MonitorImplementsHandshake == Spec => ImplementsHandshake
<1>1. Init => HS!InitHandshake
  BY DEF Init, HS!InitHandshake, None, HS!None
<1>2. [Next]_vars => [HS!NextHandshake]_HS!handshake
  <2> SUFFICES ASSUME [Next]_vars PROVE [HS!NextHandshake]_HS!handshake
    OBVIOUS
  <2> USE DEF HS!NextHandshake, HS!Collector, HS!handshake
  <2>1. CASE AddCounter \/ GetAvgValues
    BY <2>1 DEF AddCounter, GetAvgValues, members
  <2>2. CASE StartThread
    BY <2>2 DEF StartThread, HS!Create, members
  <2>3. CASE StoreId
    BY <2>3 DEF StoreId, HS!StoreId
  <2>4. CASE ClearFlag
    BY <2>4 DEF ClearFlag, HS!ClearFlag
  <2>5. CASE Destroy
    BY <2>5 DEF Destroy, HS!Destroy, None, HS!None
  <2>6. CASE SetFlag
    BY <2>6 DEF SetFlag, HS!SetFlag
  <2>7. CASE TestFlag
    BY <2>7 DEF TestFlag, HS!TestFlag, members
  <2>8. CASE Query
    BY <2>8 DEF Query, HS!Collect, members
  <2>9. CASE Lock \/ AddValue
    BY <2>9 DEF Lock, AddValue
  <2>10. CASE Unlock
    BY <2>10 DEF Unlock, HS!Collect
  <2>11. CASE Leave
    BY <2>11 DEF Leave, HS!Leave, None, HS!None
  <2>12. CASE UNCHANGED vars
    BY <2>12 DEF vars, members
  <2> QED
    BY <2>1, <2>2, <2>3, <2>4, <2>5, <2>6, <2>7, <2>8, <2>9, <2>10, <2>11, <2>12
       DEF Next, Worker, Collector
<1> QED
  BY <1>1, <1>2, PTL DEF Spec, ImplementsHandshake, HS!SpecHandshake

-----------------------------------------------------------------------------
(* The counters and their rings. *)

FilledFromZero(r) == r.size < Capacity => r.index = r.size

Value == Load \cup {0}

\* Every counter has a ring that Add can be called on, all the counters are there
\* before the collector is, and only the collector holds the lock, while it adds.
CountersInv ==
  /\ counters \in Seq(BOOLEAN) /\ Len(counters) <= Counters
  /\ counters_values \in Seq(Rings(Load)) /\ Len(counters_values) = Len(counters)
  /\ \A c \in 1 .. Len(counters_values) : FilledFromZero(counters_values[c])
  /\ worker \in {"start", "running", "waiting"} => Len(counters) = Counters
  /\ access_counters = IF collector = "add" THEN "collector" ELSE None
  /\ i \in 1 .. Counters + 1 /\ samples \in 0 .. 2
  /\ value \in [Counter -> Value]
  /\ recent \in Seq([Counter -> Value]) /\ Len(recent) <= Capacity

\* A ring of loads is a ring of loads and zeros.
LEMMA RingOfValues ==
  ASSUME NEW r \in Rings(Load), FilledFromZero(r), NEW v \in Value
  PROVE  /\ Add(r, v) \in Rings(Load) /\ FilledFromZero(Add(r, v))
         /\ Window(Add(r, v)) = Slide(Window(r), v)
<1>1. Rings(Value) = Rings(Load)
  <2>1. Value \cup {0} = Load \cup {0}
    BY DEF Value
  <2> QED
    BY <2>1 DEF Rings
<1> QED
  BY <1>1, AddKeepsRing, AddSlidesWindow DEF FilledFromZero

\* A new ring is a ring of loads with an empty window.
LEMMA RingOfNothing ==
  NewRing \in Rings(Load) /\ FilledFromZero(NewRing) /\ Window(NewRing) = << >>
BY RingAssumption DEF NewRing, Rings, Slots, FilledFromZero, Window

\* At first there are no counters.
LEMMA CountersInvInit == Init => CountersInv
BY RingAssumption, MonitorAssumption DEF Init, CountersInv, None, Counter, Value

\* The steps of the worker keep the counters in order.
LEMMA WorkerKeepsCounters ==
  ASSUME CountersInv, HandshakeInv, Worker
  PROVE  CountersInv'
<1>1. CASE AddCounter
  <2>1. PICK b \in BOOLEAN : counters' = Append(counters, b)
    <3>1. PICK opened \in May(CounterFails), known \in May(CounterFails) :
            counters' = Append(counters, known /\ pdh_query')
      BY <1>1 DEF AddCounter
    <3>2. (known /\ pdh_query') \in BOOLEAN
      OBVIOUS
    <3> QED
      BY <3>1, <3>2, Zenon
  <2>2. /\ worker = "init" /\ Len(counters) < Counters
        /\ counters_values' = Append(counters_values, NewRing)
        /\ UNCHANGED <<access_counters, worker, collector, i, value, samples, recent>>
    BY <1>1 DEF AddCounter
  <2>3. /\ counters \in Seq(BOOLEAN) /\ counters_values \in Seq(Rings(Load))
        /\ Len(counters_values) = Len(counters)
        /\ \A c \in 1 .. Len(counters_values) : FilledFromZero(counters_values[c])
    BY DEF CountersInv
  <2>4. counters' \in Seq(BOOLEAN) /\ Len(counters') = Len(counters) + 1
    BY <2>1, <2>3
  <2>5. counters_values' \in Seq(Rings(Load)) /\ Len(counters_values') = Len(counters_values) + 1
    BY <2>2, <2>3, RingOfNothing
  <2>6. \A c \in 1 .. Len(counters_values') : FilledFromZero(counters_values'[c])
    <3> SUFFICES ASSUME NEW c \in 1 .. Len(counters_values')
                 PROVE  FilledFromZero(counters_values'[c])
      OBVIOUS
    <3>1. counters_values'[c]
            = IF c = Len(counters_values) + 1 THEN NewRing ELSE counters_values[c]
      BY <2>2, <2>3, <2>5
    <3> QED
      BY <2>3, <2>5, <3>1, RingOfNothing
  <2>7. Len(counters') <= Counters
    BY <2>2, <2>3, <2>4, MonitorAssumption
  <2> QED
    BY <2>2, <2>3, <2>4, <2>5, <2>6, <2>7 DEF CountersInv
<1>2. CASE StartThread
  BY <1>2 DEF StartThread, CountersInv, HandshakeInv, members, None
<1>3. CASE StoreId
  BY <1>3 DEF StoreId, CountersInv
<1>4. CASE GetAvgValues
  BY <1>4 DEF GetAvgValues, CountersInv, members
<1>5. CASE ClearFlag
  BY <1>5 DEF ClearFlag, CountersInv
<1>6. CASE Destroy
  <2>1. counters' = << >> /\ counters_values' = << >> /\ worker' = "destroyed"
        /\ UNCHANGED <<access_counters, collector, i, value, samples, recent>>
    BY <1>6 DEF Destroy
  <2> QED
    BY <2>1, MonitorAssumption DEF CountersInv
<1> QED
  BY <1>1, <1>2, <1>3, <1>4, <1>5, <1>6 DEF Worker

\* What AddValue does to the rings: the one of the counter it is at may get the
\* value of that counter.
LEMMA AddValueAdds ==
  ASSUME CountersInv, AddValue
  PROVE  /\ i \in 1 .. Len(counters) /\ i \in Counter /\ value[i] \in Value
         /\ \/ counters_values' = [counters_values EXCEPT ![i] = Add(counters_values[i], value[i])]
            \/ counters_values' = counters_values
<1>1. i \in 1 .. Len(counters) /\ i \in Counter
  BY MonitorAssumption DEF CountersInv, AddValue, Counter
<1>2. value[i] \in Value
  BY <1>1 DEF CountersInv
<1>3. PICK ok \in Formatted(i) :
        counters_values' = IF ok THEN [counters_values EXCEPT ![i] = Add(@, value[i])]
                           ELSE counters_values
  BY DEF AddValue
<1> QED
  BY <1>1, <1>2, <1>3, Zenon

\* The steps of the collector keep the counters in order.
LEMMA CollectorKeepsCounters ==
  ASSUME CountersInv, HandshakeInv, Collector
  PROVE  CountersInv'
<1>1. CASE SetFlag \/ TestFlag \/ Leave
  <2>1. /\ UNCHANGED <<counters, counters_values, worker, access_counters, i, value, samples, recent>>
        /\ collector # "add" /\ collector' # "add"
    BY <1>1 DEF SetFlag, TestFlag, Leave, members
  <2> QED
    BY <2>1 DEF CountersInv
<1>2. CASE Query
  <2>1. /\ UNCHANGED <<counters, counters_values, worker, access_counters, i, recent>>
        /\ collector # "add" /\ collector' # "add"
    BY <1>2 DEF Query, members
  <2>2. value' \in [Counter -> Value] /\ samples' \in 0 .. 2
    <3>1. value \in [Counter -> Value] /\ samples \in 0 .. 2
      BY DEF CountersInv
    <3>2. \/ value' \in [Counter -> Load] /\ samples' = IF samples < 2 THEN samples + 1 ELSE 2
          \/ value' = value /\ samples' = samples
      BY <1>2 DEF Query
    <3> QED
      BY <3>1, <3>2 DEF Value
  <2> QED
    BY <2>1, <2>2 DEF CountersInv
<1>3. CASE Lock
  <2>1. /\ UNCHANGED <<counters, counters_values, worker, value, samples, recent>>
        /\ collector' = "add" /\ access_counters' = "collector" /\ i' = 1
    BY <1>3 DEF Lock
  <2> QED
    BY <2>1, MonitorAssumption DEF CountersInv
<1>4. CASE AddValue
  <2>1. /\ UNCHANGED <<counters, worker, access_counters, collector, value, samples, recent>>
        /\ i' = i + 1
    BY <1>4 DEF AddValue
  <2>2. /\ i \in 1 .. Len(counters) /\ i \in Counter /\ value[i] \in Value
        /\ \/ counters_values' = [counters_values EXCEPT ![i] = Add(counters_values[i], value[i])]
           \/ counters_values' = counters_values
    BY <1>4, AddValueAdds
  <2>3. /\ counters_values \in Seq(Rings(Load)) /\ Len(counters_values) = Len(counters)
        /\ \A c \in 1 .. Len(counters_values) : FilledFromZero(counters_values[c])
    BY DEF CountersInv
  <2>4. /\ counters_values' \in Seq(Rings(Load)) /\ Len(counters_values') = Len(counters)
        /\ \A c \in 1 .. Len(counters_values') : FilledFromZero(counters_values'[c])
    <3>1. counters_values[i] \in Rings(Load) /\ FilledFromZero(counters_values[i])
      BY <2>2, <2>3
    <3> DEFINE new == Add(counters_values[i], value[i])
    <3>2. new \in Rings(Load) /\ FilledFromZero(new)
      BY <2>2, <3>1, RingOfValues
    <3> HIDE DEF new
    <3>3. CASE counters_values' = [counters_values EXCEPT ![i] = new]
      <4>1. i \in 1 .. Len(counters_values)
        BY <2>2, <2>3
      <4>2. /\ counters_values' \in Seq(Rings(Load)) /\ Len(counters_values') = Len(counters_values)
            /\ \A c \in 1 .. Len(counters_values) :
                 counters_values'[c] = IF c = i THEN new ELSE counters_values[c]
        BY <2>3, <3>2, <3>3, <4>1, ExceptSeq
      <4> QED
        BY <2>3, <3>2, <4>2
    <3> QED
      BY <2>2, <2>3, <3>3 DEF new
  <2>5. i' \in 1 .. Counters + 1
    BY <2>1, <2>2, MonitorAssumption DEF Counter
  <2> QED
    BY <2>1, <2>4, <2>5 DEF CountersInv
<1>5. CASE Unlock
  <2>1. /\ UNCHANGED <<counters, counters_values, worker, samples>>
        /\ collector' = "test" /\ access_counters' = None /\ i' = 1
        /\ value' = [c \in Counter |-> 0]
        /\ recent' = recent \/ recent' = Slide(recent, value)
    BY <1>5 DEF Unlock, Slide
  <2>2. recent' \in Seq([Counter -> Value]) /\ Len(recent') <= Capacity
    <3>1. /\ recent \in Seq([Counter -> Value]) /\ Len(recent) <= Capacity
          /\ value \in [Counter -> Value]
      BY DEF CountersInv
    <3>2. CASE recent' = Slide(recent, value) /\ Len(recent) < Capacity
      BY <3>1, <3>2, RingAssumption DEF Slide
    <3>3. CASE recent' = Slide(recent, value) /\ ~(Len(recent) < Capacity)
      <4>1. Tail(recent) \in Seq([Counter -> Value]) /\ Len(Tail(recent)) = Len(recent) - 1
        BY <3>1, <3>3, RingAssumption
      <4> QED
        BY <3>1, <3>3, <4>1, RingAssumption DEF Slide
    <3> QED
      BY <2>1, <3>1, <3>2, <3>3
  <2>3. value' \in [Counter -> Value]
    BY <2>1 DEF Value
  <2> QED
    BY <2>1, <2>2, <2>3, MonitorAssumption DEF CountersInv
<1> QED
  BY <1>1, <1>2, <1>3, <1>4, <1>5 DEF Collector

\* Whatever fails, every counter has its ring, and only the collector holds the lock.
LEMMA CountersInvariant == Spec => []CountersInv
<1>1. CountersInv /\ HandshakeInv /\ [Next]_vars => CountersInv'
  <2>1. CountersInv /\ UNCHANGED vars => CountersInv'
    BY DEF CountersInv, vars, members
  <2> QED
    BY <2>1, WorkerKeepsCounters, CollectorKeepsCounters DEF Next
<1> QED
  BY <1>1, CountersInvInit, HandshakeInvariant, PTL DEF Spec

-----------------------------------------------------------------------------
(* The rings are in step, as long as no single counter fails. *)

\* The last values of one counter.
Column(c) == [k \in DOMAIN recent |-> recent[k][c]]

\* PDH knows every counter, nothing is collected before all are there, and the window
\* of a counter holds its last values: inside Collect the counters that the loop has
\* passed are one value ahead of the others, when there is a value.
InStep ==
  /\ \A c \in 1 .. Len(counters) : counters[c]
  /\ worker = "init" => recent = << >>
  /\ \A c \in 1 .. Len(counters_values) :
       Window(counters_values[c])
         = IF collector = "add" /\ c < i /\ samples = 2 THEN Slide(Column(c), value[c])
           ELSE Column(c)

\* A sequence is a column when it agrees with it in every place.
LEMMA SameColumn ==
  ASSUME NEW A, NEW B \in Seq(Value), NEW c, DOMAIN A = DOMAIN B,
         \A k \in DOMAIN B : A[k][c] = B[k]
  PROVE  [k \in DOMAIN A |-> A[k][c]] = B
OBVIOUS

\* One more second: the columns slide as the seconds do.
LEMMA ColumnSlides ==
  ASSUME NEW s \in Seq([Counter -> Value]), NEW v \in [Counter -> Value], NEW c \in Counter
  PROVE  [k \in DOMAIN Slide(s, v) |-> Slide(s, v)[k][c]]
           = Slide([k \in DOMAIN s |-> s[k][c]], v[c])
<1> DEFINE n == Len(s)
           g == [k \in DOMAIN s |-> s[k][c]]
           A == Slide(s, v)
           B == Slide(g, v[c])
<1>1. n \in Nat /\ DOMAIN s = 1 .. n /\ v[c] \in Value
  OBVIOUS
<1>2. \A k \in 1 .. n : s[k] \in [Counter -> Value] /\ s[k][c] \in Value
  <2>1. \A k \in 1 .. n : s[k] \in [Counter -> Value]
    OBVIOUS
  <2> QED
    BY <2>1
<1>3. g \in [1 .. n -> Value] /\ \A k \in 1 .. n : g[k] = s[k][c]
  <2> HIDE DEF n
  <2> QED
    BY <1>1, <1>2
<1> HIDE DEF g
<1>4. g \in Seq(Value) /\ Len(g) = n
  BY <1>1, <1>3
<1>5. CASE n < Capacity
  <2>1. Slide(s, v) = Append(s, v) /\ Slide(g, v[c]) = Append(g, v[c])
    BY <1>4, <1>5 DEF Slide
  <2>2. DOMAIN Append(s, v) = 1 .. n + 1 /\ Append(g, v[c]) \in Seq(Value)
        /\ DOMAIN Append(g, v[c]) = 1 .. n + 1
    BY <1>1, <1>4
  <2>3. \A k \in 1 .. n + 1 : Append(s, v)[k][c] = Append(g, v[c])[k]
    BY <1>1, <1>3, <1>4
  <2>4. /\ DOMAIN A = 1 .. n + 1 /\ B \in Seq(Value) /\ DOMAIN B = 1 .. n + 1
        /\ \A k \in 1 .. n + 1 : A[k][c] = B[k]
    BY <2>1, <2>2, <2>3, Zenon
  <2> HIDE DEF A, B
  <2> QED
    <3>1. [k \in DOMAIN A |-> A[k][c]] = B
      BY <2>4, SameColumn
    <3> QED
      BY <3>1, Zenon DEF A, B, g
<1>6. CASE ~(n < Capacity)
  <2>0. n >= 1
    BY <1>1, <1>6, RingAssumption
  <2>1. Slide(s, v) = Append(Tail(s), v) /\ Slide(g, v[c]) = Append(Tail(g), v[c])
    BY <1>4, <1>6 DEF Slide
  <2>2. /\ Tail(s) \in Seq([Counter -> Value]) /\ Len(Tail(s)) = n - 1
        /\ \A k \in 1 .. n - 1 : Tail(s)[k] = s[k + 1]
    BY <2>0, <1>1
  <2>3. /\ Tail(g) \in Seq(Value) /\ Len(Tail(g)) = n - 1
        /\ \A k \in 1 .. n - 1 : Tail(g)[k] = g[k + 1]
    BY <2>0, <1>4
  <2>4. /\ DOMAIN Append(Tail(s), v) = 1 .. n /\ Append(Tail(g), v[c]) \in Seq(Value)
        /\ DOMAIN Append(Tail(g), v[c]) = 1 .. n
    BY <1>1, <2>0, <2>2, <2>3
  <2>5. \A k \in 1 .. n : Append(Tail(s), v)[k][c] = Append(Tail(g), v[c])[k]
    <3> SUFFICES ASSUME NEW k \in 1 .. n
                 PROVE  Append(Tail(s), v)[k][c] = Append(Tail(g), v[c])[k]
      OBVIOUS
    <3>1. CASE k = n
      <4>1. Append(Tail(s), v)[k] = v /\ Append(Tail(g), v[c])[k] = v[c]
        BY <3>1, <2>0, <2>2, <2>3, <1>1
      <4> QED
        BY <4>1
    <3>2. CASE k # n
      <4>1. k \in 1 .. n - 1 /\ k + 1 \in 1 .. n
        <5>1. n \in Nat /\ k \in 1 .. n /\ k # n
          BY <3>2, <1>1
        <5> HIDE DEF n
        <5> QED
          BY <5>1
      <4>2. Append(Tail(s), v)[k] = s[k + 1] /\ Append(Tail(g), v[c])[k] = g[k + 1]
        BY <4>1, <2>2, <2>3, <1>1
      <4> QED
        BY <4>1, <4>2, <1>3
    <3> QED
      BY <3>1, <3>2
  <2>6. /\ DOMAIN A = 1 .. n /\ B \in Seq(Value) /\ DOMAIN B = 1 .. n
        /\ \A k \in 1 .. n : A[k][c] = B[k]
    BY <2>1, <2>4, <2>5, Zenon
  <2> HIDE DEF A, B
  <2> QED
    <3>1. [k \in DOMAIN A |-> A[k][c]] = B
      BY <2>6, SameColumn
    <3> QED
      BY <3>1, Zenon DEF A, B, g
<1> QED
  BY <1>5, <1>6

\* Nothing has been collected at first.
LEMMA InStepInit == Init => InStep
BY DEF Init, InStep

\* The steps of the worker leave the rings in step.
LEMMA WorkerKeepsStep ==
  ASSUME CounterFails = FALSE, CountersInv, HandshakeInv, InStep, Worker
  PROVE  InStep'
<1>1. CASE AddCounter
  <2>1. counters' = Append(counters, TRUE)
    <3>1. May(CounterFails) = {TRUE}
      BY DEF May
    <3>2. PICK opened \in May(CounterFails), known \in May(CounterFails) :
            /\ pdh_query' = (pdh_query \/ opened)
            /\ counters' = Append(counters, known /\ pdh_query')
      BY <1>1 DEF AddCounter
    <3>3. opened = TRUE /\ known = TRUE
      BY <3>1, <3>2, Zenon
    <3>4. pdh_query'
      BY <3>2, <3>3, Zenon
    <3>5. (known /\ pdh_query') = TRUE
      BY <3>3, <3>4, Zenon
    <3> QED
      BY <3>2, <3>5, Zenon
  <2>2. /\ worker = "init" /\ recent = << >> /\ collector = None
        /\ counters_values' = Append(counters_values, NewRing)
        /\ UNCHANGED <<worker, collector, i, value, samples, recent>>
    BY <1>1 DEF AddCounter, InStep, HandshakeInv
  <2>3. /\ counters \in Seq(BOOLEAN) /\ counters_values \in Seq(Rings(Load))
        /\ Len(counters_values) = Len(counters)
    BY DEF CountersInv
  <2>4. \A c \in 1 .. Len(counters') : counters'[c]
    <3> SUFFICES ASSUME NEW c \in 1 .. Len(counters') PROVE counters'[c]
      OBVIOUS
    <3>1. /\ Len(counters') = Len(counters) + 1 /\ counters'[Len(counters) + 1] = TRUE
          /\ \A b \in 1 .. Len(counters) : counters'[b] = counters[b]
      BY <2>1, <2>3, AppendProperties
    <3>2. c = Len(counters) + 1 \/ c \in 1 .. Len(counters)
      BY <2>3, <3>1
    <3> QED
      BY <3>1, <3>2, Zenon DEF InStep
  <2>5. \A c \in 1 .. Len(counters_values') : Window(counters_values'[c]) = << >>
    <3> SUFFICES ASSUME NEW c \in 1 .. Len(counters_values')
                 PROVE  Window(counters_values'[c]) = << >>
      OBVIOUS
    <3>1. Len(counters_values') = Len(counters_values) + 1 /\ Len(counters_values) \in Nat
      BY <2>2, <2>3, RingOfNothing
    <3>2. CASE c = Len(counters_values) + 1
      BY <2>2, <2>3, <3>2, RingOfNothing
    <3>3. CASE c # Len(counters_values) + 1
      <4>1. c \in 1 .. Len(counters_values) /\ counters_values'[c] = counters_values[c]
        BY <2>2, <2>3, <3>1, <3>3
      <4>2. collector # "add"
        BY <2>2 DEF None
      <4>3. Window(counters_values[c]) = Column(c)
        BY <4>1, <4>2 DEF InStep
      <4>4. Column(c) = << >>
        BY <2>2 DEF Column
      <4> QED
        BY <4>1, <4>3, <4>4
    <3> QED
      BY <3>2, <3>3
  <2>6. \A c \in 1 .. Len(counters_values') : Column(c)' = << >>
    BY <2>2 DEF Column
  <2>7. collector' # "add"
    BY <2>2 DEF None
  <2> QED
    BY <2>2, <2>4, <2>5, <2>6, <2>7 DEF InStep
<1>2. CASE StartThread
  <2>1. /\ UNCHANGED <<counters, counters_values, i, value, samples, recent>>
        /\ collector # "add" /\ collector' # "add" /\ worker' # "init"
    BY <1>2 DEF StartThread, HandshakeInv, members, None
  <2> QED
    BY <2>1 DEF InStep, Column
<1>3. CASE StoreId \/ GetAvgValues \/ ClearFlag
  <2>1. /\ UNCHANGED <<counters, counters_values, collector, i, value, samples, recent>>
        /\ worker' # "init"
    BY <1>3 DEF StoreId, GetAvgValues, ClearFlag, members
  <2> QED
    BY <2>1 DEF InStep, Column
<1>4. CASE Destroy
  BY <1>4 DEF Destroy, InStep
<1> QED
  BY <1>1, <1>2, <1>3, <1>4 DEF Worker

\* The steps of the collector leave the rings in step.
LEMMA CollectorKeepsStep ==
  ASSUME CounterFails = FALSE, CountersInv, HandshakeInv, InStep, Collector
  PROVE  InStep'
<1>0. /\ counters \in Seq(BOOLEAN) /\ Len(counters) <= Counters
      /\ counters_values \in Seq(Rings(Load)) /\ Len(counters_values) = Len(counters)
      /\ i \in 1 .. Counters + 1 /\ samples \in 0 .. 2
      /\ value \in [Counter -> Value] /\ recent \in Seq([Counter -> Value])
  BY DEF CountersInv
<1>1. CASE SetFlag \/ TestFlag \/ Leave
  <2>1. /\ UNCHANGED <<counters, counters_values, worker, recent>>
        /\ collector # "add" /\ collector' # "add"
    BY <1>1 DEF SetFlag, TestFlag, Leave, members
  <2> QED
    BY <2>1 DEF InStep, Column
<1>2. CASE Query
  <2>1. /\ UNCHANGED <<counters, counters_values, worker, recent>>
        /\ collector # "add" /\ collector' # "add"
    BY <1>2 DEF Query, members
  <2> QED
    BY <2>1 DEF InStep, Column
<1>3. CASE Lock
  <2>1. /\ UNCHANGED <<counters, counters_values, worker, recent>>
        /\ collector # "add" /\ i' = 1
    BY <1>3 DEF Lock
  <2>2. \A c \in 1 .. Len(counters_values) : ~(c < i')
    BY <1>0, <2>1
  <2> QED
    BY <2>1, <2>2 DEF InStep, Column
<1>4. CASE AddValue
  <2>1. /\ UNCHANGED <<counters, worker, collector, value, samples, recent>>
        /\ collector = "add" /\ i' = i + 1
    BY <1>4 DEF AddValue
  <2>2. i \in 1 .. Len(counters) /\ i \in Counter /\ value[i] \in Value
    BY <1>4, AddValueAdds
  <2>3. PICK ok \in Formatted(i) :
          counters_values' = IF ok THEN [counters_values EXCEPT ![i] = Add(@, value[i])]
                             ELSE counters_values
    BY <1>4 DEF AddValue
  <2>4. counters[i]
    BY <2>2 DEF InStep
  <2>5. /\ counters_values[i] \in Rings(Load) /\ FilledFromZero(counters_values[i])
        /\ Window(counters_values[i]) = Column(i)
    <3>1. i \in 1 .. Len(counters_values) /\ ~(i < i)
      BY <1>0, <2>2
    <3>2. counters_values[i] \in Rings(Load)
      BY <1>0, <3>1
    <3>3. FilledFromZero(counters_values[i])
      BY <3>1 DEF CountersInv
    <3>4. Window(counters_values[i]) = Column(i)
      BY <3>1, Zenon DEF InStep
    <3> QED
      BY <3>2, <3>3, <3>4
  <2>6. /\ Len(counters_values') = Len(counters_values)
        /\ \A c \in 1 .. Len(counters_values) : c # i => counters_values'[c] = counters_values[c]
        /\ Window(counters_values'[i])
             = IF samples = 2 THEN Slide(Column(i), value[i]) ELSE Column(i)
    <3>1. CASE samples = 2
      <4>1. Formatted(i) = {TRUE}
        BY <2>4, <3>1, Zenon DEF Formatted, May
      <4>2. counters_values' = [counters_values EXCEPT ![i] = Add(counters_values[i], value[i])]
        BY <2>3, <4>1, Zenon
      <4> DEFINE new == Add(counters_values[i], value[i])
      <4>3. new \in Rings(Load) /\ Window(new) = Slide(Window(counters_values[i]), value[i])
        BY <2>2, <2>5, RingOfValues
      <4> HIDE DEF new
      <4>4. /\ Len(counters_values') = Len(counters_values)
            /\ \A c \in 1 .. Len(counters_values) :
                 counters_values'[c] = IF c = i THEN new ELSE counters_values[c]
        <5>1. counters_values' = [counters_values EXCEPT ![i] = new]
          BY <4>2 DEF new
        <5>2. i \in 1 .. Len(counters_values)
          BY <1>0, <2>2
        <5> QED
          BY <1>0, <4>3, <5>1, <5>2, ExceptSeq
      <4> QED
        BY <1>0, <2>2, <2>5, <3>1, <4>3, <4>4
    <3>2. CASE samples # 2
      <4>1. Formatted(i) = {FALSE}
        BY <3>2, Zenon DEF Formatted
      <4>2. counters_values' = counters_values
        BY <2>3, <4>1, Zenon
      <4> QED
        BY <2>5, <3>2, <4>2
    <3> QED
      BY <3>1, <3>2
  <2>7. \A c \in 1 .. Len(counters_values') :
          Window(counters_values'[c])
            = IF c < i + 1 /\ samples = 2 THEN Slide(Column(c), value[c]) ELSE Column(c)
    <3> SUFFICES ASSUME NEW c \in 1 .. Len(counters_values)
                 PROVE  Window(counters_values'[c])
                          = IF c < i + 1 /\ samples = 2 THEN Slide(Column(c), value[c])
                            ELSE Column(c)
      BY <2>6
    <3>1. CASE c = i
      <4>1. c < i + 1
        BY <1>0, <3>1
      <4> QED
        BY <2>6, <3>1, <4>1, Zenon
    <3>2. CASE c # i
      <4>1. (c < i + 1) <=> (c < i)
        BY <1>0, <3>2
      <4>2. counters_values'[c] = counters_values[c]
        BY <2>6, <3>2
      <4>3. Window(counters_values[c])
              = IF c < i /\ samples = 2 THEN Slide(Column(c), value[c]) ELSE Column(c)
        BY <2>1, Zenon DEF InStep
      <4> QED
        BY <4>1, <4>2, <4>3, Zenon
    <3> QED
      BY <3>1, <3>2
  <2>8. \A c \in 1 .. Len(counters_values') : Column(c)' = Column(c)
    BY <2>1 DEF Column
  <2> QED
    BY <2>1, <2>7, <2>8 DEF InStep
<1>5. CASE Unlock
  <2>1. /\ UNCHANGED <<counters, counters_values, worker, samples>>
        /\ collector = "add" /\ i > Len(counters) /\ collector' = "test"
        /\ recent' = IF samples < 2 THEN recent ELSE Slide(recent, value)
    BY <1>5 DEF Unlock, Slide, AllCounters
  <2>2. worker # "init"
    BY <2>1 DEF HandshakeInv, None
  <2>3. \A c \in 1 .. Len(counters_values) : Window(counters_values[c]) = Column(c)'
    <3> SUFFICES ASSUME NEW c \in 1 .. Len(counters_values)
                 PROVE  Window(counters_values[c]) = Column(c)'
      OBVIOUS
    <3>1. c \in Counter /\ c < i
      BY <1>0, <2>1, MonitorAssumption DEF Counter
    <3>2. Window(counters_values[c])
            = IF samples = 2 THEN Slide(Column(c), value[c]) ELSE Column(c)
      BY <2>1, <3>1, Zenon DEF InStep
    <3>3. CASE samples = 2
      <4>1. recent' = Slide(recent, value)
        BY <2>1, <3>3
      <4>2. Column(c)' = [k \in DOMAIN Slide(recent, value) |-> Slide(recent, value)[k][c]]
        BY <4>1, Zenon DEF Column
      <4>3. Column(c)' = Slide(Column(c), value[c])
        BY <1>0, <3>1, <4>2, ColumnSlides, Zenon DEF Column
      <4> QED
        BY <3>2, <3>3, <4>3
    <3>4. CASE samples # 2
      <4>1. recent' = recent
        BY <1>0, <2>1, <3>4
      <4> QED
        BY <3>2, <3>4, <4>1, Zenon DEF Column
    <3> QED
      BY <3>3, <3>4
  <2> QED
    BY <2>1, <2>2, <2>3 DEF InStep
<1> QED
  BY <1>1, <1>2, <1>3, <1>4, <1>5 DEF Collector

\* As long as no single counter fails, the rings are in step at every moment
\* (PerfMonitor::AddCounter, Collect).
LEMMA InStepInvariant ==
  ASSUME CounterFails = FALSE
  PROVE  Spec => []InStep
<1>1. CountersInv /\ HandshakeInv /\ InStep /\ [Next]_vars => InStep'
  <2>1. InStep /\ UNCHANGED vars => InStep'
    BY DEF InStep, Column, vars, members
  <2> QED
    BY <2>1, WorkerKeepsStep, CollectorKeepsStep DEF Next
<1> QED
  BY <1>1, InStepInit, HandshakeInvariant, CountersInvariant, PTL DEF Spec

\* Whoever holds the lock finds rings that hold the same seconds for all counters, as
\* long as no single counter fails (access_counters_ in perf_monitor.cpp:73 and 112).
THEOREM WindowsAreRecentAlways ==
  ASSUME CounterFails = FALSE
  PROVE  Spec => []WindowsAreRecent
<1>1. CountersInv /\ InStep => WindowsAreRecent
  <2> SUFFICES ASSUME CountersInv, InStep, access_counters = None,
                      worker \in {"running", "waiting"}, NEW c \in Counter
               PROVE  Window(counters_values[c]) = [k \in DOMAIN recent |-> recent[k][c]]
    BY DEF WindowsAreRecent
  <2>1. c \in 1 .. Len(counters_values)
    BY DEF CountersInv, Counter
  <2>2. collector # "add"
    BY DEF CountersInv, None
  <2> QED
    BY <2>1, <2>2, Zenon DEF InStep, Column
<1> QED
  BY <1>1, InStepInvariant, CountersInvariant, PTL

\* What GetAvgValues finds, as long as no single counter fails: rings that are all as
\* full as one another, each with the last values of its counter.
LEMMA AveragesAligned ==
  ASSUME CountersInv, InStep, worker = "running", access_counters = None, NEW c \in Counter
  PROVE  Averages[c] = IF Len(recent) = Capacity THEN SumFunction(Column(c)) \div Capacity
                       ELSE 0
<1>1. /\ counters_values \in Seq(Rings(Load)) /\ Len(counters_values) = Counters
      /\ recent \in Seq([Counter -> Value]) /\ Counters \in Nat /\ Capacity \in Nat \ {0}
      /\ collector # "add"
  BY RingAssumption, MonitorAssumption DEF CountersInv, None
<1>2. DOMAIN counters_values = Counter
  BY <1>1 DEF Counter
<1>3. \A d \in Counter :
        /\ counters_values[d] \in Rings(Load) /\ FilledFromZero(counters_values[d])
        /\ Window(counters_values[d]) = Column(d)
        /\ counters_values[d].size = Len(recent)
  <2> SUFFICES ASSUME NEW d \in Counter
               PROVE  /\ counters_values[d] \in Rings(Load) /\ FilledFromZero(counters_values[d])
                      /\ Window(counters_values[d]) = Column(d)
                      /\ counters_values[d].size = Len(recent)
    OBVIOUS
  <2>0. d \in 1 .. Len(counters_values)
    BY <1>1 DEF Counter
  <2>1. counters_values[d] \in Rings(Load) /\ FilledFromZero(counters_values[d])
    BY <1>1, <2>0 DEF CountersInv
  <2>2. Window(counters_values[d]) = Column(d)
    BY <1>1, <2>0, Zenon DEF InStep
  <2>3. /\ counters_values[d].size \in Nat
        /\ DOMAIN Window(counters_values[d]) = 1 .. counters_values[d].size
    BY <2>1, RingAssumption DEF Window, Rings
  <2>4. DOMAIN Column(d) = 1 .. Len(recent) /\ Len(recent) \in Nat
    BY <1>1 DEF Column
  <2>5. counters_values[d].size = Len(recent)
    <3> DEFINE m == counters_values[d].size
               n == Len(recent)
    <3>1. m \in Nat /\ n \in Nat /\ 1 .. m = 1 .. n
      BY <2>2, <2>3, <2>4
    <3> HIDE DEF m, n
    <3>2. m = n
      BY <3>1
    <3> QED
      BY <3>2 DEF m, n
  <2> QED
    BY <2>1, <2>2, <2>5
<1>4. CASE Len(recent) = Capacity
  <2>1. \A d \in Counter : Full(counters_values[d])
    BY <1>3, <1>4 DEF Full
  <2>2. \A d \in Counter : Cardinality({e \in 1 .. d : Full(counters_values[e])}) = d
    <3> SUFFICES ASSUME NEW d \in Counter
                 PROVE  Cardinality({e \in 1 .. d : Full(counters_values[e])}) = d
      OBVIOUS
    <3>1. d \in Nat /\ \A e \in 1 .. d : e \in Counter
      BY <1>1 DEF Counter
    <3>2. {e \in 1 .. d : Full(counters_values[e])} = 1 .. d
      BY <2>1, <3>1, Zenon
    <3>3. Cardinality(1 .. d) = d
      BY <3>1, FS_Interval
    <3> QED
      BY <3>2, <3>3, Zenon
  <2>3. NthFull(c) = {c}
    BY <1>2, <2>1, <2>2, Zenon DEF NthFull
  <2>4. (CHOOSE d \in {c} : TRUE) = c /\ {c} # {}
    OBVIOUS
  <2>5. Averages[c] = AvgDouble(counters_values[c])
    BY <2>3, <2>4, Zenon DEF Averages
  <2>6. Accumulate(counters_values[c]) = SumFunction(Column(c))
    <3>1. Load \in SUBSET Int
      BY MonitorAssumption
    <3>2. Accumulate(counters_values[c]) = SumFunction(Window(counters_values[c]))
      BY <1>3, <3>1, AccumulateIsWindowSum DEF FilledFromZero
    <3> QED
      BY <1>3, <3>2
  <2>7. counters_values[c].size = Capacity /\ Capacity # 0
    BY <1>1, <1>3, <1>4
  <2> QED
    BY <1>4, <2>5, <2>6, <2>7, Zenon DEF AvgDouble
<1>5. CASE Len(recent) # Capacity
  <2>1. \A d \in Counter : ~Full(counters_values[d])
    BY <1>3, <1>5 DEF Full
  <2>2. NthFull(c) = {}
    BY <1>2, <2>1, Zenon DEF NthFull
  <2> QED
    BY <1>5, <2>2, Zenon DEF Averages
<1> QED
  BY <1>4, <1>5

\* As long as no single counter fails, GetAvgValues returns the average of every
\* counter in its place, over the same seconds for all, or nothing but zeros
\* (perf_monitor.cpp:109-120).
THEOREM AlignedAveragesAlways ==
  ASSUME CounterFails = FALSE
  PROVE  Spec => AlignedAverages
<1>1. CountersInv /\ InStep /\ [Next]_vars
        => [GetAvgValues =>
              \A c \in Counter :
                avg_values'[c] = IF Len(recent) = Capacity
                                 THEN SumFunction([k \in DOMAIN recent |-> recent[k][c]]) \div Capacity
                                 ELSE 0]_vars
  <2> SUFFICES ASSUME CountersInv, InStep, GetAvgValues, NEW c \in Counter
               PROVE  avg_values'[c]
                        = IF Len(recent) = Capacity
                          THEN SumFunction([k \in DOMAIN recent |-> recent[k][c]]) \div Capacity
                          ELSE 0
    OBVIOUS
  <2>1. worker = "running" /\ access_counters = None /\ avg_values' = Averages
    BY DEF GetAvgValues, LockFree
  <2> QED
    BY <2>1, AveragesAligned, Zenon DEF Column
<1> QED
  BY <1>1, InStepInvariant, CountersInvariant, PTL DEF Spec, AlignedAverages

-----------------------------------------------------------------------------
(* Types. *)

\* Loads that do not exceed some number have a largest one.
LEMMA MaxLoad ==
  ASSUME NEW B \in Nat, \A v \in Load : v <= B
  PROVE  Max(Value) \in Value /\ Max(Value) \in Nat /\ \A v \in Load : v <= Max(Value)
<1>1. Value \in SUBSET Nat /\ 0 \in Value /\ \A v \in Value : v <= B
  BY MonitorAssumption DEF Value
<1> DEFINE F == {B - v : v \in Value}
<1>2. F \in SUBSET Nat /\ F # {}
  BY <1>1
<1>3. PICK m \in F : \A n \in F : m <= n
  <2> HIDE DEF F
  <2> QED
    BY <1>2, SmallestNumber
<1>4. PICK x \in Value : m = B - x
  OBVIOUS
<1>5. \A v \in Value : x >= v
  <2> SUFFICES ASSUME NEW v \in Value PROVE x >= v
    OBVIOUS
  <2>1. B - x <= B - v
    BY <1>3, <1>4
  <2> QED
    BY <1>1, <2>1
<1>6. Max(Value) \in Value /\ \A v \in Value : Max(Value) >= v
  BY <1>5, Zenon DEF Max
<1> QED
  BY <1>1, <1>6 DEF Value

\* What GetAvgValues returns lies between zero and the largest load.
LEMMA AveragesTyped ==
  ASSUME CountersInv, NEW B \in Nat, \A v \in Load : v <= B
  PROVE  Averages \in [Counter -> 0 .. Max(Load \cup {0})]
<1> DEFINE M == Max(Value)
<1>1. M \in Nat /\ \A v \in Load : v <= M
  BY MaxLoad
<1> HIDE DEF M
<1> SUFFICES ASSUME NEW c \in Counter
             PROVE  (IF NthFull(c) = {} THEN 0
                     ELSE AvgDouble(counters_values[CHOOSE d \in NthFull(c) : TRUE])) \in 0 .. M
  BY Zenon DEF Averages, M, Value
<1>2. CASE NthFull(c) = {}
  BY <1>1, <1>2
<1>3. CASE NthFull(c) # {}
  <2> DEFINE d == CHOOSE d \in NthFull(c) : TRUE
  <2>1. d \in DOMAIN counters_values
    BY <1>3, Zenon DEF NthFull
  <2> HIDE DEF d
  <2>2. d \in 1 .. Len(counters_values) /\ counters_values[d] \in Rings(Load)
    BY <2>1 DEF CountersInv
  <2>3. FilledFromZero(counters_values[d])
    BY <2>2 DEF CountersInv
  <2>4. Load \in SUBSET Nat
    BY MonitorAssumption
  <2>5. AvgDouble(counters_values[d]) \in 0 .. M
    BY <1>1, <2>2, <2>3, <2>4, AvgDoubleBounded DEF FilledFromZero
  <2> QED
    BY <1>3, <2>5, Zenon DEF d
<1> QED
  BY <1>2, <1>3

\* The types that no other invariant of the monitor gives.
TypesInv ==
  /\ pdh_query \in BOOLEAN /\ is_collect \in BOOLEAN
  /\ collector_thread_id \in {None, "collector"}
  /\ avg_values \in [Counter -> 0 .. Max(Load \cup {0})]
  /\ collector \in {None, "spawned", "test", "collect", "lock", "add", "leave", "done"}

\* The two threads and the members of the monitor keep their types, however many
\* counters there are and whatever fails, when no load exceeds some number (a load
\* is a percentage); in particular Collect indexes only counters that are there.
THEOREM MonitorTypeOK ==
  ASSUME NEW B \in Nat, \A v \in Load : v <= B
  PROVE  Spec => []TypeOK
<1>1. Init => TypesInv
  <2> SUFFICES ASSUME Init PROVE TypesInv
    OBVIOUS
  <2>1. 0 \in 0 .. Max(Load \cup {0})
    BY MaxLoad DEF Value
  <2> QED
    BY <2>1 DEF Init, TypesInv
<1>2. TypesInv /\ CountersInv /\ [Next]_vars => TypesInv'
  <2> SUFFICES ASSUME TypesInv, CountersInv, [Next]_vars PROVE TypesInv'
    OBVIOUS
  <2>1. CASE AddCounter
    <3>1. PICK opened \in May(CounterFails) : pdh_query' = (pdh_query \/ opened)
      BY <2>1 DEF AddCounter
    <3>2. pdh_query' \in BOOLEAN
      <4>1. (pdh_query \/ opened) \in BOOLEAN
        OBVIOUS
      <4> QED
        BY <3>1, <4>1, Zenon
    <3>3. UNCHANGED <<is_collect, collector_thread_id, avg_values, collector>>
      BY <2>1 DEF AddCounter
    <3> QED
      BY <3>2, <3>3, Zenon DEF TypesInv
  <2>2. CASE GetAvgValues
    <3>1. avg_values' = Averages /\ UNCHANGED <<pdh_query, is_collect, collector_thread_id, collector>>
      BY <2>2 DEF GetAvgValues, members
    <3>2. Averages \in [Counter -> 0 .. Max(Load \cup {0})]
      BY AveragesTyped
    <3> QED
      BY <3>1, <3>2, Zenon DEF TypesInv
  <2>3. CASE StartThread \/ StoreId \/ ClearFlag \/ Destroy
    <3>1. avg_values' = avg_values
      BY <2>3 DEF StartThread, StoreId, ClearFlag, Destroy
    <3>2. pdh_query' \in BOOLEAN /\ is_collect' \in BOOLEAN
      BY <2>3, Zenon DEF StartThread, StoreId, ClearFlag, Destroy, members, TypesInv
    <3>3. /\ collector_thread_id' \in {None, "collector"}
          /\ collector' = "spawned" \/ collector' = collector
      BY <2>3, Zenon DEF StartThread, StoreId, ClearFlag, Destroy, members, TypesInv
    <3> QED
      BY <3>1, <3>2, <3>3, Zenon DEF TypesInv
  <2>4. CASE Collector
    <3>1. avg_values' = avg_values /\ pdh_query' = pdh_query
      BY <2>4 DEF Collector, SetFlag, TestFlag, Query, Lock, AddValue, Unlock, Leave, members
    <3>2. is_collect' \in BOOLEAN
      BY <2>4, Zenon DEF Collector, SetFlag, TestFlag, Query, Lock, AddValue, Unlock, Leave,
                         members, TypesInv
    <3>3. collector_thread_id' = None \/ collector_thread_id' = collector_thread_id
      BY <2>4, Zenon DEF Collector, SetFlag, TestFlag, Query, Lock, AddValue, Unlock, Leave, members
    <3>4. collector' \in {"test", "collect", "leave", "lock", "add", "done"} \/ collector' = collector
      <4>1. CASE TestFlag
        BY <4>1, Zenon DEF TestFlag
      <4>2. CASE SetFlag \/ Query \/ Lock \/ AddValue \/ Unlock \/ Leave
        BY <4>2, Zenon DEF SetFlag, Query, Lock, AddValue, Unlock, Leave
      <4> QED
        BY <2>4, <4>1, <4>2 DEF Collector
    <3> QED
      BY <3>1, <3>2, <3>3, <3>4, Zenon DEF TypesInv
  <2>5. CASE UNCHANGED vars
    BY <2>5, Zenon DEF TypesInv, vars, members
  <2> QED
    BY <2>1, <2>2, <2>3, <2>4, <2>5, Zenon DEF Next, Worker
<1>3. TypesInv /\ CountersInv /\ HandshakeInv => TypeOK
  <2> SUFFICES ASSUME TypesInv, CountersInv, HandshakeInv PROVE TypeOK
    OBVIOUS
  <2>1. access_counters \in {None, "collector"}
    BY DEF CountersInv
  <2>2. value \in [Counter -> Load \cup {0}] /\ recent \in Seq([Counter -> Load \cup {0}])
    BY Zenon DEF CountersInv, Value
  <2> QED
    BY <2>1, <2>2, Zenon DEF TypeOK, TypesInv, CountersInv, HandshakeInv
<1> QED
  BY <1>1, <1>2, <1>3, CountersInvariant, HandshakeInvariant, PTL DEF Spec

-----------------------------------------------------------------------------
(* The end of the monitor: what the scheduler has to do for StopsOnceRunning.  *)

\* The statements that the collector has left when it finds the flag cleared, with
\* the rest of the round it is in.
CollectorLeft ==
  CASE collector = "collect" -> Counters + 5
    [] collector = "lock"    -> Counters + 4
    [] collector = "add"     -> Counters + 4 - i
    [] collector = "test"    -> 2
    [] collector = "leave"   -> 1
    [] OTHER                 -> 0

\* Once the flag is cleared under a collector that has set it, it stays so, and every
\* step of the collector is one of a bounded number.
StopAdvances ==
  [][worker = "waiting" /\ ~is_collect /\ collector # "spawned" =>
       /\ ~is_collect' /\ collector' # "spawned"
       /\ CollectorLeft' \in 0 .. Counters + 5
       /\ Collector => CollectorLeft' < CollectorLeft
       /\ Worker => CollectorLeft' = CollectorLeft]_vars

\* The destructor waits for a collector that has a step to take, or no longer waits.
NobodyWaitsInVain ==
  worker = "waiting" =>
    \/ collector_thread_id = None
    \/ collector \in {"spawned", "test", "collect", "add", "leave"}
    \/ collector = "lock" /\ LockFree

\* The destructor waits for ever, for a collector that finds its flag set.
Hangs == worker = "waiting" /\ is_collect

\* There is one schedule that leads there, and no way back.
HangIsLateStart == [][/\ ~Hangs /\ Hangs' => worker = "waiting" /\ SetFlag
                      /\ Hangs => Hangs']_vars

\* A collector that has left has cleared its id, and one that finds the flag set under
\* the destructor is in its loop.
WaitInv ==
  worker = "waiting" => /\ collector = "done" => collector_thread_id = None
                        /\ is_collect => collector \in Looping

\* No step of either thread breaks it.
LEMMA WaitInvariant == Spec => []WaitInv
<1>1. Init => WaitInv
  BY DEF Init, WaitInv
<1>2. HandshakeInv /\ WaitInv /\ [Next]_vars => WaitInv'
  <2> SUFFICES ASSUME HandshakeInv, WaitInv, [Next]_vars PROVE WaitInv'
    OBVIOUS
  <2> USE DEF WaitInv, HandshakeInv, Looping, members
  <2>1. CASE AddCounter \/ StartThread \/ StoreId \/ GetAvgValues \/ Destroy
    BY <2>1 DEF AddCounter, StartThread, StoreId, GetAvgValues, Destroy
  <2>2. CASE ClearFlag
    BY <2>2 DEF ClearFlag
  <2>3. CASE SetFlag \/ TestFlag \/ Leave
    BY <2>3 DEF SetFlag, TestFlag, Leave
  <2>4. CASE Query \/ Lock \/ AddValue \/ Unlock
    BY <2>4 DEF Query, Lock, AddValue, Unlock
  <2>5. CASE UNCHANGED vars
    BY <2>5 DEF vars
  <2> QED
    BY <2>1, <2>2, <2>3, <2>4, <2>5 DEF Next, Worker, Collector
<1> QED
  BY <1>1, <1>2, HandshakeInvariant, PTL DEF Spec

\* A destructor that runs never waits for a thread that has gone or is itself waiting
\* for a lock: for any number of counters and whatever PDH refuses
\* (perf_monitor.cpp:7-30, 74-107).
THEOREM NobodyWaitsInVainAlways == Spec => []NobodyWaitsInVain
<1>1. HandshakeInv /\ WaitInv /\ CountersInv => NobodyWaitsInVain
  BY DEF HandshakeInv, WaitInv, CountersInv, NobodyWaitsInVain, Looping, LockFree, None
<1> QED
  BY <1>1, HandshakeInvariant, WaitInvariant, CountersInvariant, PTL

\* The destructor hangs only when the first statement of the collector comes after its
\* own, and then for ever: no other delay of either thread, and nothing PDH does, leads
\* to it (perf_monitor.cpp:7-30).
THEOREM HangIsLateStartAlways == Spec => HangIsLateStart
<1>1. HandshakeInv /\ WaitInv /\ [Next]_vars
        => [/\ ~Hangs /\ Hangs' => worker = "waiting" /\ SetFlag
            /\ Hangs => Hangs']_vars
  <2> SUFFICES ASSUME HandshakeInv, WaitInv, Next
               PROVE  /\ ~Hangs /\ Hangs' => worker = "waiting" /\ SetFlag
                      /\ Hangs => Hangs'
    OBVIOUS
  <2> USE DEF Hangs, members
  <2>1. CASE AddCounter \/ StartThread \/ StoreId \/ GetAvgValues \/ ClearFlag
    BY <2>1 DEF AddCounter, StartThread, StoreId, GetAvgValues, ClearFlag
  <2>2. CASE Destroy
    BY <2>2 DEF Destroy, HandshakeInv, WaitInv, Looping
  <2>3. CASE SetFlag
    BY <2>3 DEF SetFlag
  <2>4. CASE TestFlag \/ Query \/ Lock \/ AddValue \/ Unlock \/ Leave
    BY <2>4 DEF TestFlag, Query, Lock, AddValue, Unlock, Leave
  <2> QED
    BY <2>1, <2>2, <2>3, <2>4 DEF Next, Worker, Collector
<1> QED
  BY <1>1, HandshakeInvariant, WaitInvariant, PTL DEF Spec, HangIsLateStart

\* A destructor whose collector has set its flag waits for a bounded number of steps of
\* it: at most five, and one for every counter (perf_monitor.cpp:7-30, 74-107).
THEOREM StopAdvancesAlways == Spec => StopAdvances
<1> DEFINE Advances ==
             worker = "waiting" /\ ~is_collect /\ collector # "spawned" =>
               /\ ~is_collect' /\ collector' # "spawned"
               /\ CollectorLeft' \in 0 .. Counters + 5
               /\ Collector => CollectorLeft' < CollectorLeft
               /\ Worker => CollectorLeft' = CollectorLeft
<1>1. HandshakeInv /\ CountersInv /\ CountersInv' /\ [Next]_vars => [Advances]_vars
  <2> SUFFICES ASSUME HandshakeInv, CountersInv, CountersInv', Next,
                      worker = "waiting", ~is_collect, collector # "spawned"
               PROVE  /\ ~is_collect' /\ collector' # "spawned"
                      /\ CollectorLeft' \in 0 .. Counters + 5
                      /\ Collector => CollectorLeft' < CollectorLeft
                      /\ Worker => CollectorLeft' = CollectorLeft
    OBVIOUS
  <2>1. CollectorLeft' \in 0 .. Counters + 5
    BY MonitorAssumption DEF CountersInv, CollectorLeft
  <2>2. Counters \in Nat /\ i \in 1 .. Counters + 1 /\ Len(counters) = Counters
    BY MonitorAssumption DEF CountersInv
  <2>3. CASE Worker
    <3>1. UNCHANGED <<is_collect, collector, i>>
      BY <2>3 DEF Worker, AddCounter, StartThread, StoreId, GetAvgValues, ClearFlag, Destroy
    <3>2. ~Collector
      <4>1. worker' # worker
        BY <2>3 DEF Worker, AddCounter, StartThread, StoreId, GetAvgValues, ClearFlag, Destroy
      <4> QED
        BY <4>1 DEF Collector, SetFlag, TestFlag, Query, Lock, AddValue, Unlock, Leave, members
    <3> QED
      BY <2>1, <3>1, <3>2 DEF CollectorLeft
  <2>4. CASE Collector
    <3>1. ~Worker /\ ~is_collect' /\ collector' # "spawned"
      BY <2>4 DEF Worker, AddCounter, StartThread, StoreId, GetAvgValues, ClearFlag, Destroy,
                  Collector, SetFlag, TestFlag, Query, Lock, AddValue, Unlock, Leave, members
    <3>2. CollectorLeft' < CollectorLeft
      <4> USE <2>2 DEF CollectorLeft
      <4>1. CASE TestFlag \/ Leave
        BY <4>1 DEF TestFlag, Leave
      <4>2. CASE Query \/ Lock
        BY <4>2 DEF Query, Lock
      <4>3. CASE AddValue \/ Unlock
        BY <4>3 DEF AddValue, Unlock, AllCounters
      <4> QED
        BY <2>4, <4>1, <4>2, <4>3 DEF Collector, SetFlag
    <3> QED
      BY <2>1, <3>1, <3>2
  <2> QED
    BY <2>3, <2>4 DEF Next
<1> QED
  BY <1>1, HandshakeInvariant, CountersInvariant, PTL DEF Spec, StopAdvances
=============================================================================
