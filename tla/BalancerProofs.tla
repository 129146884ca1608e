--------------------------- MODULE BalancerProofs ---------------------------
(* The loop keeps its distance between two passes, the balancer implements the *)
(* table and the pass it is made of, and what is proved of the two together    *)
(* says in which order it binds processes.                                     *)
EXTENDS Balancer, TLAPS

-----------------------------------------------------------------------------
(* Two calls of Read are as far apart as the frequency says, not nearer and    *)
(* hardly further, whatever the system does, however long a pass takes and     *)
(* however the window is chosen.                                               *)

\* The time since last_run, the reading of the clock before the last pass.
Since == IF loop = "pass" THEN elapsed ELSE period + elapsed

\* Every call of Read lies as far back as the passes since then demand, counted
\* from last_run: at most one delay of the loop lies between last_run and the call.
AgesLowerBound ==
  \A k \in DOMAIN ages : ages[k] >= (k - 1) * (2 * Frequency) + Since - lag

\* And no further than the longest periods allow.
AgesUpperBound ==
  \A k \in DOMAIN ages : ages[k] <= (k - 1) * LongestPeriod + Since

\* A period is tested before it is more than one delay longer than one that was not
\* due, or than none at all.
PeriodBound ==
  jumps = 0 => period <= (IF loop = "clock" THEN 2 * Frequency - 1 ELSE LongestPeriod)

ReadsClose ==
  \A i, j \in DOMAIN ages : i < j => ages[j] - ages[i] <= (j - i) * LongestPeriod + lag

LoopInv ==
  /\ LoopTypeOK
  /\ jumps = 0 => shift = 0
  /\ jumps > 0 => ages = << >>
  /\ PeriodBound
  /\ AgesLowerBound /\ AgesUpperBound
  /\ ReadsApart /\ ReadsClose

\* A period that is due has been as long as the frequency (main.cpp:356).
LEMMA DueIsLong == ASSUME period \in Int, Due PROVE period >= 2 * Frequency
BY LoopAssumption, SMT DEF Due, Seconds

\* And one that is not due is shorter, though its seconds are cut.
LEMMA NotDueIsShort == ASSUME period \in Int, ~Due PROVE period <= 2 * Frequency - 1
BY LoopAssumption, SMT DEF Due, Seconds

\* The loop starts in the invariant.
LEMMA LoopInvInit == InitLoop => LoopInv
BY LoopAssumption, SMT
   DEF InitLoop, LoopInv, LoopTypeOK, PeriodBound, LongestPeriod, AgesLowerBound,
       AgesUpperBound, ReadsApart, ReadsClose, Since

\* A pass begins: the ages move up by one place, and the period that made the pass
\* due is the distance the new first one needs.
LEMMA BeginPassInv == ASSUME LoopInv, BeginPass PROVE LoopInv'
<1> DEFINE T == 2 * Frequency
<1> DEFINE D == LongestPeriod
<1> DEFINE n == IF Len(ages) <= Capacity THEN Len(ages) + 1 ELSE Capacity + 1
<1>1. /\ T \in Nat /\ D \in Nat /\ Capacity \in Nat /\ Capacity >= 1
      /\ lag \in Nat /\ elapsed \in 0 .. lag /\ period \in Int /\ jumps \in Nat
      /\ ages \in Seq(Nat) /\ Len(ages) \in Nat /\ Len(ages) <= Capacity + 1
  BY LoopAssumption, SMT DEF LoopInv, LoopTypeOK, LongestPeriod
<1>2. loop = "test" /\ loop' = "pass" /\ period >= T
      /\ UNCHANGED <<period, elapsed, shift, jumps, lag>>
  BY <1>1, DueIsLong DEF BeginPass
<1>3. CASE jumps > 0
  <2>1. ages' = << >>
    BY <1>3 DEF BeginPass
  <2> QED
    BY <1>1, <1>2, <1>3, <2>1, LoopAssumption, SMT
       DEF LoopInv, LoopTypeOK, PeriodBound, AgesLowerBound, AgesUpperBound, ReadsApart, ReadsClose
<1>4. CASE jumps = 0
  <2>1. ages' = [k \in 1 .. n |-> IF k = 1 THEN 0 ELSE ages[k - 1]]
    BY <1>4, <1>1, SMT DEF BeginPass
  <2>2. n \in Nat /\ n >= 1 /\ n <= Capacity + 1 /\ n <= Len(ages) + 1
    BY <1>1, SMT
  <2> HIDE DEF n
  <2>3. /\ DOMAIN ages' = 1 .. n /\ ages'[1] = 0
        /\ \A k \in 2 .. n : ages'[k] = ages[k - 1] /\ k - 1 \in DOMAIN ages
    BY <1>1, <2>1, <2>2, SMT
  <2>4. \A k \in 1 .. n : ages'[k] \in Nat
    <3> SUFFICES ASSUME NEW k \in 1 .. n PROVE ages'[k] \in Nat
      OBVIOUS
    <3>1. CASE k = 1
      BY <3>1, <2>3
    <3>2. CASE k # 1
      <4>1. k \in 2 .. n
        BY <3>2, <2>2, SMT
      <4> QED
        BY <4>1, <2>3, <1>1, SMT
    <3> QED
      BY <3>1, <3>2
  <2>5. ages' \in Seq(Nat) /\ Len(ages') = n
    BY <2>1, <2>2, <2>4, SMT
  <2>6. LoopTypeOK'
    BY <1>1, <1>2, <2>2, <2>5, SMT DEF LoopInv, LoopTypeOK
  <2>7. AgesLowerBound'
    <3> SUFFICES ASSUME NEW k \in 1 .. n
                 PROVE  ages'[k] >= (k - 1) * T + elapsed - lag
      BY <1>2, <2>3 DEF AgesLowerBound, Since
    <3>1. CASE k = 1
      BY <3>1, <1>1, <2>3, SMT
    <3>2. CASE k # 1
      <4>1. k \in 2 .. n /\ k \in Int
        BY <3>2, <2>2, SMT
      <4>2. k - 1 \in DOMAIN ages /\ ages'[k] = ages[k - 1]
        BY <4>1, <2>3
      <4>3. ages[k - 1] >= (k - 1 - 1) * T + (period + elapsed) - lag
        BY <4>2, <1>2 DEF LoopInv, AgesLowerBound, Since
      <4>4. (k - 1) * T = (k - 1 - 1) * T + T
        BY <4>1, <1>1, SMT
      <4>5. (k - 1 - 1) * T \in Int /\ (k - 1) * T \in Int /\ ages[k - 1] \in Nat
        BY <4>1, <4>2, <1>1, SMT
      <4> HIDE DEF T
      <4> QED
        BY <4>2, <4>3, <4>4, <4>5, <1>1, <1>2, SMT
    <3> QED
      BY <3>1, <3>2
  <2>8. ReadsApart'
    <3> SUFFICES ASSUME NEW i \in 1 .. n, NEW j \in 1 .. n, i < j
                 PROVE  ages'[j] - ages'[i] >= (j - i) * T - lag
      BY <1>2, <2>3 DEF ReadsApart
    <3>1. CASE i = 1
      <4>1. ages'[j] >= (j - 1) * T + elapsed - lag
        BY <2>7, <2>3, <1>2 DEF AgesLowerBound, Since
      <4>2. (j - 1) * T \in Int
        BY <1>1, SMT
      <4> HIDE DEF T
      <4> QED
        BY <4>1, <4>2, <3>1, <2>3, <2>4, <1>1, SMT
    <3>2. CASE i # 1
      <4>1. i \in 2 .. n /\ j \in 2 .. n
        BY <3>2, <2>2, SMT
      <4>2. /\ i - 1 \in DOMAIN ages /\ ages'[i] = ages[i - 1]
            /\ j - 1 \in DOMAIN ages /\ ages'[j] = ages[j - 1]
        BY <4>1, <2>3
      <4>3. ages[j - 1] - ages[i - 1] >= ((j - 1) - (i - 1)) * T - lag
        BY <4>1, <4>2, SMT DEF LoopInv, ReadsApart
      <4>4. (j - 1) - (i - 1) = j - i
        BY <4>1, SMT
      <4> QED
        BY <4>2, <4>3, <4>4
    <3> QED
      BY <3>1, <3>2
  <2>9. period <= D /\ D' = D
    BY <1>2, <1>4, SMT DEF LoopInv, PeriodBound, LongestPeriod
  <2> HIDE DEF D
  <2>10. AgesUpperBound'
    <3> SUFFICES ASSUME NEW k \in 1 .. n
                 PROVE  ages'[k] <= (k - 1) * D + elapsed
      BY <1>2, <2>3, <2>9 DEF AgesUpperBound, Since, D
    <3>1. CASE k = 1
      BY <3>1, <1>1, <2>3, SMT
    <3>2. CASE k # 1
      <4>1. k \in 2 .. n /\ k \in Int
        BY <3>2, <2>2, SMT
      <4>2. k - 1 \in DOMAIN ages /\ ages'[k] = ages[k - 1]
        BY <4>1, <2>3
      <4>3. ages[k - 1] <= (k - 1 - 1) * D + (period + elapsed)
        BY <4>2, <1>2 DEF LoopInv, AgesUpperBound, Since, D
      <4>4. (k - 1) * D = (k - 1 - 1) * D + D
        BY <4>1, <1>1, SMT
      <4>5. (k - 1 - 1) * D \in Int /\ (k - 1) * D \in Int /\ ages[k - 1] \in Nat
        BY <4>1, <4>2, <1>1, SMT
      <4> QED
        BY <4>2, <4>3, <4>4, <4>5, <1>1, <2>9, SMT
    <3> QED
      BY <3>1, <3>2
  <2>11. ReadsClose'
    <3> SUFFICES ASSUME NEW i \in 1 .. n, NEW j \in 1 .. n, i < j
                 PROVE  ages'[j] - ages'[i] <= (j - i) * D + lag
      BY <1>2, <2>3, <2>9 DEF ReadsClose, D
    <3>1. CASE i = 1
      <4>1. ages'[j] <= (j - 1) * D + elapsed
        BY <2>3, <2>9, <2>10, <1>2 DEF AgesUpperBound, Since, D
      <4>2. (j - 1) * D \in Int
        BY <1>1, SMT
      <4> QED
        BY <4>1, <4>2, <3>1, <2>3, <2>4, <1>1, SMT
    <3>2. CASE i # 1
      <4>1. i \in 2 .. n /\ j \in 2 .. n
        BY <3>2, <2>2, SMT
      <4>2. /\ i - 1 \in DOMAIN ages /\ ages'[i] = ages[i - 1]
            /\ j - 1 \in DOMAIN ages /\ ages'[j] = ages[j - 1]
        BY <4>1, <2>3
      <4>3. ages[j - 1] - ages[i - 1] <= ((j - 1) - (i - 1)) * D + lag
        BY <4>1, <4>2, SMT DEF LoopInv, ReadsClose, D
      <4>4. (j - 1) - (i - 1) = j - i
        BY <4>1, SMT
      <4> QED
        BY <4>2, <4>3, <4>4
    <3> QED
      BY <3>1, <3>2
  <2>12. PeriodBound'
    BY <1>2, <1>4, <2>9 DEF PeriodBound, D
  <2> QED
    BY <1>2, <1>4, <2>6, <2>7, <2>8, <2>10, <2>11, <2>12 DEF LoopInv
<1> QED
  BY <1>1, <1>3, <1>4, SMT

\* Half a second passes for the calls of Read and for the loop alike.
LEMMA TickInv == ASSUME LoopInv, Tick PROVE LoopInv'
<1> DEFINE T == 2 * Frequency
<1> DEFINE D == LongestPeriod
<1>1. /\ T \in Nat /\ D \in Nat /\ lag \in Nat /\ elapsed \in Nat /\ elapsed < lag /\ period \in Int
      /\ ages \in Seq(Nat) /\ elapsed' = elapsed + 1
      /\ ages' = [k \in DOMAIN ages |-> ages[k] + 1]
      /\ UNCHANGED <<loop, period, shift, jumps, lag>> /\ D' = D
  BY LoopAssumption, SMT DEF LoopInv, LoopTypeOK, Tick, LongestPeriod
<1>2. /\ DOMAIN ages' = DOMAIN ages /\ ages' \in Seq(Nat) /\ Len(ages') = Len(ages)
      /\ \A k \in DOMAIN ages : k \in Int /\ ages[k] \in Nat /\ ages'[k] = ages[k] + 1
  BY <1>1, SMT
<1>3. LoopTypeOK'
  BY <1>1, <1>2, SMT DEF LoopInv, LoopTypeOK
<1>4. jumps' > 0 => ages' = << >>
  BY <1>1, SMT DEF LoopInv
<1>5. Since \in Int /\ Since' = Since + 1
  BY <1>1, SMT DEF Since
<1>6. AgesLowerBound'
  <2> SUFFICES ASSUME NEW k \in DOMAIN ages
               PROVE  ages'[k] >= (k - 1) * T + Since' - lag
    BY <1>1, <1>2 DEF AgesLowerBound
  <2>1. ages[k] >= (k - 1) * T + Since - lag
    BY DEF LoopInv, AgesLowerBound
  <2>2. (k - 1) * T \in Int
    BY <1>1, <1>2, SMT
  <2> HIDE DEF T
  <2> QED
    BY <1>1, <1>2, <1>5, <2>1, <2>2, SMT
<1>7. ReadsApart'
  <2> SUFFICES ASSUME NEW i \in DOMAIN ages, NEW j \in DOMAIN ages, i < j
               PROVE  ages'[j] - ages'[i] >= (j - i) * T - lag
    BY <1>1, <1>2 DEF ReadsApart
  <2>1. ages[j] - ages[i] >= (j - i) * T - lag
    BY DEF LoopInv, ReadsApart
  <2>2. ages'[j] - ages'[i] = ages[j] - ages[i]
    BY <1>2, SMT
  <2> QED
    BY <2>1, <2>2
<1> HIDE DEF D
<1>8. AgesUpperBound'
  <2> SUFFICES ASSUME NEW k \in DOMAIN ages
               PROVE  ages'[k] <= (k - 1) * D + Since'
    BY <1>1, <1>2 DEF AgesUpperBound, D
  <2>1. ages[k] <= (k - 1) * D + Since
    BY DEF LoopInv, AgesUpperBound, D
  <2>2. (k - 1) * D \in Int
    BY <1>1, <1>2, SMT
  <2> QED
    BY <1>1, <1>2, <1>5, <2>1, <2>2, SMT
<1>9. ReadsClose'
  <2> SUFFICES ASSUME NEW i \in DOMAIN ages, NEW j \in DOMAIN ages, i < j
               PROVE  ages'[j] - ages'[i] <= (j - i) * D + lag
    BY <1>1, <1>2 DEF ReadsClose, D
  <2>1. ages[j] - ages[i] <= (j - i) * D + lag
    BY DEF LoopInv, ReadsClose, D
  <2>2. ages'[j] - ages'[i] = ages[j] - ages[i]
    BY <1>2, SMT
  <2> QED
    BY <2>1, <2>2
<1>10. PeriodBound'
  BY <1>1 DEF LoopInv, PeriodBound, D
<1> QED
  BY <1>1, <1>3, <1>4, <1>6, <1>7, <1>8, <1>9, <1>10 DEF LoopInv

\* The steps of the loop between two passes, and a clock that is set.
LEMMA BetweenPassesInv ==
  ASSUME LoopInv, NotDue \/ EndPass \/ ReadClock \/ Wake \/ SetClock
  PROVE  LoopInv'
<1> USE DEF LoopInv, LoopTypeOK
<1>1. CASE NotDue \/ Wake
  <2>1. PeriodBound'
    BY <1>1, NotDueIsShort DEF NotDue, Wake, PeriodBound, LongestPeriod
  <2> QED
    BY <1>1, <2>1, SMT DEF NotDue, Wake, LongestPeriod, AgesLowerBound, AgesUpperBound, ReadsApart,
                           ReadsClose, Since
<1>2. CASE EndPass
  <2>1. PeriodBound'
    BY <1>2, LoopAssumption, SMT DEF EndPass, PeriodBound
  <2> QED
    BY <1>2, <2>1, SMT DEF EndPass, LongestPeriod, AgesLowerBound, AgesUpperBound, ReadsApart,
                           ReadsClose, Since
<1>3. CASE ReadClock
  <2>1. CASE jumps = 0
    <3>1. loop = "clock" /\ loop' = "sleep" /\ Since' = Since
      BY <1>3, <2>1, SMT DEF ReadClock, Since
    <3>2. LongestPeriod' = LongestPeriod /\ PeriodBound'
      BY <1>3, <2>1, LoopAssumption, SMT DEF ReadClock, PeriodBound, LongestPeriod
    <3> QED
      BY <1>3, <2>1, <3>1, <3>2, LoopAssumption, SMT
         DEF ReadClock, AgesLowerBound, AgesUpperBound, ReadsApart, ReadsClose
  <2>2. CASE jumps > 0
    BY <1>3, <2>2, LoopAssumption, SMT
       DEF ReadClock, PeriodBound, AgesLowerBound, AgesUpperBound, ReadsApart, ReadsClose
  <2> QED
    BY <2>1, <2>2, SMT
<1>4. CASE SetClock
  BY <1>4, LoopAssumption, SMT
     DEF SetClock, PeriodBound, AgesLowerBound, AgesUpperBound, ReadsApart, ReadsClose
<1> QED
  BY <1>1, <1>2, <1>3, <1>4

\* A step of the balancer is a step of the loop or leaves the loop alone.
LEMMA StepOfLoop ==
  ASSUME Next
  PROVE  \/ NotDue \/ BeginPass \/ EndPass \/ ReadClock \/ Wake \/ Tick \/ SetClock
         \/ UNCHANGED loop_vars
BY DEF Next, System, StartProcess, ExitProcess, Work, StartThread, ExitThread,
       WorkerThread, Read, SetAffinity, Step, Clock

\* Every step keeps the invariant of the loop.
LEMMA LoopInvNext == ASSUME LoopInv, [Next]_vars PROVE LoopInv'
<1>1. CASE UNCHANGED loop_vars
  BY <1>1 DEF loop_vars, LoopInv, LoopTypeOK, PeriodBound, LongestPeriod, AgesLowerBound,
              AgesUpperBound, ReadsApart, ReadsClose, Since
<1>2. CASE UNCHANGED vars
  BY <1>1, <1>2 DEF vars
<1>3. CASE Next
  BY <1>1, <1>3, StepOfLoop, BeginPassInv, TickInv, BetweenPassesInv
<1> QED
  BY <1>2, <1>3

\* The last call of Read is not too long ago.
LEMMA LastReadRecent == ASSUME LoopInv PROVE ReadsOnTime
<1>1. ASSUME ages # << >> PROVE ages[1] <= LongestPeriod + lag
  <2>1. 1 \in DOMAIN ages /\ ages[1] \in Nat /\ jumps = 0
    BY <1>1, SMT DEF LoopInv, LoopTypeOK
  <2>2. ages[1] <= (1 - 1) * LongestPeriod + Since
    BY <2>1 DEF LoopInv, AgesUpperBound
  <2> QED
    BY <2>1, <2>2, LoopAssumption, SMT
       DEF LoopInv, LoopTypeOK, PeriodBound, LongestPeriod, Since
<1> QED
  BY <1>1 DEF LoopInv, ReadsClose, ReadsOnTime

\* In every behaviour of the balancer the calls of Read keep time until somebody sets
\* the clock: the n-th before the last one was made n times the frequency earlier, less
\* one delay of the loop, and not earlier than the tests of whole seconds and the
\* delays allow, and the next one is not overdue (main.cpp:347-365).
THEOREM BalancerReadsRegular == Spec => []ReadsRegular
<1>1. Init => LoopInv
  BY LoopInvInit DEF Init
<1>2. LoopInv /\ [Next]_vars => LoopInv'
  BY LoopInvNext
<1>3. LoopInv => ReadsRegular
  BY LastReadRecent DEF LoopInv, ReadsRegular
<1> QED
  BY <1>1, <1>2, <1>3, PTL DEF Spec

-----------------------------------------------------------------------------
(* The balancer is made of the table and the pass. *)

TP == INSTANCE ProcessTableProofs
        WITH Image <- {"listed", "other"}, Filter <- {"listed"}, NoImage <- "none",
             ThreadList <- SUBSET ThreadInfo, PidReuse <- FALSE

AP == INSTANCE AffinityPassProofs
        WITH image <- [p \in Pid |-> process[p].name],
             threads <- [p \in Pid |-> IF p \in Full THEN processes[p].threads ELSE {}],
             full <- Full,
             average <- [p \in Pid |-> IF p \in Full THEN Table!AvgLongLong(processes[p].user_time)
                                       ELSE 0],
             Test <- FALSE, IdReuse <- FALSE

\* What is proved of the table holds of the table of the balancer: its constants
\* are what the table assumes of them.
LEMMA TableConstants ==
  /\ {"listed"} \subseteq {"listed", "other"} /\ "none" \notin {"listed", "other"}
  /\ SUBSET ThreadInfo # {}
  /\ FALSE \in BOOLEAN /\ MaxCreate \in Nat /\ MaxUser \in Nat
  /\ Capacity \in Nat \ {0} /\ Width \in Nat \ {0, 1}
<1>1. SUBSET ThreadInfo # {}
  OBVIOUS
<1> QED
  BY <1>1, BalancerAssumption, LoopAssumption

\* The same for the pass.
LEMMA PassConstants ==
  /\ NumaNodes \in Seq(Affinity) /\ NumaNodes # << >>
  /\ Affinity \subseteq [Group : 0 .. Len(NumaNodes) - 1, Mask : Nat]
  /\ Average \subseteq Int /\ 0 \in Average
  /\ AP!IsFiniteSet(Pid) /\ AP!IsFiniteSet(Tid) /\ Nobody \notin Pid
  /\ FALSE \in BOOLEAN /\ CallsFail \in BOOLEAN /\ MaxEvents \in Nat
BY BalancerAssumption, Zenon DEF AP!IsFiniteSet, IsFiniteSet

\* The table the proofs speak of is the table the balancer is made of.
LEMMA SameTable ==
  /\ Table!Init => TP!Init
  /\ [Table!Next]_(Table!vars) => [TP!Next]_(TP!vars)
<1>1. Table!Init => TP!Init
  BY Zenon DEF Table!Init, TP!Init, Table!OsProcess, TP!OsProcess
<1>2. ASSUME NEW p, Table!Start(p) \/ Table!Work(p) \/ Table!Exit(p)
      PROVE  TP!Start(p) \/ TP!Work(p) \/ TP!Exit(p)
  BY <1>2, Zenon DEF Table!Start, TP!Start, Table!Work, TP!Work, Table!Exit, TP!Exit,
                     Table!Running, TP!Running
<1>3. ASSUME NEW ok, NEW lists, Table!Read(ok, lists)
      PROVE  TP!Read(ok, lists)
  BY <1>3, Zenon
     DEF Table!Read, TP!Read, Table!ActiveProcesses, TP!ActiveProcesses, Table!AddProcess,
         TP!AddProcess, Table!DeleteOldProcess, TP!DeleteOldProcess, Table!Updated, TP!Updated,
         Table!Inserted, TP!Inserted, Table!Add, TP!Add, Table!NewRing, TP!NewRing, Table!Slots,
         TP!Slots, Table!Remember, TP!Remember, Table!Running, TP!Running
<1>4. UNCHANGED Table!vars => UNCHANGED TP!vars
  BY DEF Table!vars, TP!vars
<1> QED
  BY <1>1, <1>2, <1>3, <1>4, Zenon DEF Table!Next, TP!Next

\* The pass the proofs speak of is the pass the balancer is made of.
LEMMA SamePass ==
  /\ Pass!Init => AP!Init
  /\ [Pass!Next]_(Pass!vars) => [AP!Next]_(AP!vars)
  /\ Pass!SetAffinity => AP!SetAffinity
<1>1. Pass!Init => AP!Init
  BY Zenon
     DEF AP!Init, Pass!Init, AP!Image, Pass!Image, AP!Running, Pass!Running, AP!NullNode,
         Pass!NullNode
<1>2. ASSUME Pass!Environment PROVE AP!Environment
  <2>1. ASSUME NEW p, Pass!StartProcess(p) PROVE AP!StartProcess(p)
    BY <2>1, Zenon
       DEF AP!StartProcess, Pass!StartProcess, AP!Running, Pass!Running, AP!Free, Pass!Free,
           AP!table, Pass!table, AP!locals, Pass!locals, AP!history, Pass!history
  <2>2. ASSUME NEW p, Pass!ExitProcess(p) PROVE AP!ExitProcess(p)
    BY <2>2, Zenon
       DEF AP!ExitProcess, Pass!ExitProcess, AP!Running, Pass!Running, AP!table, Pass!table,
           AP!locals, Pass!locals, AP!history, Pass!history
  <2>3. ASSUME NEW t, NEW p, Pass!StartThread(t, p) PROVE AP!StartThread(t, p)
    BY <2>3, Zenon
       DEF AP!StartThread, Pass!StartThread, AP!Running, Pass!Running, AP!Free, Pass!Free,
           AP!SnapshotTids, Pass!SnapshotTids, AP!table, Pass!table, AP!locals, Pass!locals,
           AP!history, Pass!history
  <2>4. ASSUME NEW t, Pass!ExitThread(t) PROVE AP!ExitThread(t)
    BY <2>4, Zenon
       DEF AP!ExitThread, Pass!ExitThread, AP!table, Pass!table, AP!locals, Pass!locals,
           AP!history, Pass!history
  <2> QED
    BY <1>2, <2>1, <2>2, <2>3, <2>4, Zenon DEF AP!Environment, Pass!Environment
<1>3. ASSUME Pass!Read PROVE AP!Read
  BY <1>3, Zenon
     DEF AP!Read, Pass!Read, AP!Listed, Pass!Listed, AP!Snapshot, Pass!Snapshot, AP!ThreadsOf,
         Pass!ThreadsOf, AP!NoAffinity, Pass!NoAffinity, AP!os, Pass!os, AP!locals,
         Pass!locals, AP!history, Pass!history
<1>4. ASSUME Pass!Return PROVE AP!Return
  BY <1>4, Zenon
     DEF AP!Return, Pass!Return, AP!IsNeedToSetAffinity, Pass!IsNeedToSetAffinity, AP!Max,
         Pass!Max, AP!Min, Pass!Min, AP!EndPass, Pass!EndPass, AP!NullNode, Pass!NullNode,
         AP!os, Pass!os
<1>5. ASSUME Pass!Decide PROVE AP!Decide
  BY <1>5, Zenon
     DEF AP!Decide, Pass!Decide, AP!IsNeedToSetAffinity, Pass!IsNeedToSetAffinity, AP!Max,
         Pass!Max, AP!Min, Pass!Min, AP!Sorted, Pass!Sorted, AP!Permutation, Pass!Permutation,
         AP!Cardinality, Pass!Cardinality, AP!NullNode, Pass!NullNode, AP!os, Pass!os,
         AP!table, Pass!table
<1>6. ASSUME Pass!Skip PROVE AP!Skip
  BY <1>6, Zenon
     DEF AP!Skip, Pass!Skip, AP!process, Pass!process, AP!Outcomes, Pass!Outcomes, AP!Running,
         Pass!Running, AP!os, Pass!os, AP!table, Pass!table, AP!history, Pass!history
<1>7. ASSUME Pass!Query PROVE AP!Query
  BY <1>7, Zenon
     DEF AP!Query, Pass!Query, AP!process, Pass!process, AP!Outcomes, Pass!Outcomes,
         AP!Running, Pass!Running, AP!GroupsOf, Pass!GroupsOf, AP!MaskOf, Pass!MaskOf,
         AP!ThreadsOf, Pass!ThreadsOf, AP!CalculateNumaWeight, Pass!CalculateNumaWeight,
         AP!Aggregator, Pass!Aggregator, AP!InitialCount, Pass!InitialCount, AP!Nodes,
         Pass!Nodes, AP!NullNode, Pass!NullNode, AP!Cardinality, Pass!Cardinality, AP!os,
         Pass!os, AP!table, Pass!table, AP!history, Pass!history
<1>8. ASSUME Pass!SetProcess PROVE AP!SetProcess
  BY <1>8, Zenon
     DEF AP!SetProcess, Pass!SetProcess, AP!ProcessElsewhere, Pass!ProcessElsewhere,
         AP!GroupMask, Pass!GroupMask, AP!process, Pass!process, AP!Outcomes, Pass!Outcomes,
         AP!Running, Pass!Running, AP!ThreadsOf, Pass!ThreadsOf, AP!table, Pass!table
<1>9. ASSUME NEW s, Pass!SetThread(s) PROVE AP!SetThread(s)
  BY <1>9, Zenon
     DEF AP!SetThread, Pass!SetThread, AP!GroupMask, Pass!GroupMask, AP!Outcomes,
         Pass!Outcomes, AP!table, Pass!table
<1>10. ASSUME Pass!Advance PROVE AP!Advance
  BY <1>10, Zenon
     DEF AP!Advance, Pass!Advance, AP!NextIndex, Pass!NextIndex, AP!process, Pass!process,
         AP!os, Pass!os, AP!table, Pass!table
<1>11. ASSUME Pass!Finish PROVE AP!Finish
  BY <1>11, Zenon
     DEF AP!Finish, Pass!Finish, AP!EndPass, Pass!EndPass, AP!NullNode, Pass!NullNode, AP!os,
         Pass!os
<1>12. UNCHANGED Pass!vars => UNCHANGED AP!vars
  BY Zenon
     DEF AP!vars, Pass!vars, AP!os, Pass!os, AP!table, Pass!table, AP!locals, Pass!locals,
         AP!history, Pass!history
<1> QED
  BY <1>1, <1>2, <1>3, <1>4, <1>5, <1>6, <1>7, <1>8, <1>9, <1>10, <1>11, <1>12, Zenon
     DEF Pass!Next, AP!Next, Pass!SetAffinity, AP!SetAffinity

\* The table and the pass are at every moment as their own proofs say.
PartsInv == TP!TableInv /\ AP!PassInv

\* What Read is given is a list of threads for every process.
LEMMA SnapshotTyped ==
  ASSUME AP!PassInv, NEW unopened
  PROVE  Pass!Snapshot(unopened) \in [Pid -> SUBSET ThreadInfo]
<1>1. \A t \in Tid : threadAffinity[t] \in Affinity
  BY Zenon DEF AP!PassInv, AP!TypeOK
<1>2. \A p : \A t \in Pass!ThreadsOf(p) :
        [thread_id |-> t,
         group_affinity |-> IF t \in unopened THEN Pass!NoAffinity ELSE threadAffinity[t]]
        \in ThreadInfo
  BY <1>1 DEF Pass!ThreadsOf, Pass!NoAffinity, ThreadInfo
<1> QED
  BY <1>2, Zenon DEF Pass!Snapshot

\* Work gives a process more user time and leaves it its name.
LEMMA WorkKeepsNames ==
  ASSUME TP!TableInv, NEW p \in Pid, Table!Work(p)
  PROVE  /\ [q \in Pid |-> process'[q].name] = [q \in Pid |-> process[q].name]
         /\ UNCHANGED <<processes, readings>>
<1>1. process \in [Pid -> TP!OsProcess]
  BY Zenon DEF TP!TableInv, TP!TypeOK
<1>2. PICK user : process' = [process EXCEPT ![p].user = user]
  BY DEF Table!Work
<1>3. \A q \in Pid : process'[q].name = process[q].name
  BY <1>1, <1>2 DEF TP!OsProcess
<1> QED
  BY <1>3, Zenon DEF Table!Work

\* Every step of the balancer is a step of the table or leaves it alone.
LEMMA StepOfTable ==
  ASSUME PartsInv, [Next]_vars
  PROVE  [Table!Next]_(Table!vars)
<1>1. UNCHANGED table_vars => UNCHANGED Table!vars
  BY Zenon DEF table_vars, Table!vars
<1>2. CASE System
  <2>1. CASE \E p \in Pid : StartProcess(p) \/ ExitProcess(p) \/ Work(p)
    BY <2>1, Zenon DEF StartProcess, ExitProcess, Work, Table!Next
  <2>2. CASE \E t \in Tid : ExitThread(t) \/ \E p \in Pid : StartThread(t, p)
    BY <1>1, <2>2, Zenon DEF ExitThread, StartThread
  <2> QED
    BY <1>2, <2>1, <2>2, Zenon DEF System
<1>3. CASE Read
  <2>1. PICK ok \in BOOLEAN, unopened \in SUBSET {t \in Tid : CallsFail} :
          Table!Read(ok, Pass!Snapshot(unopened))
    BY <1>3, Zenon DEF Read
  <2>2. Pass!Snapshot(unopened) \in [Pid -> SUBSET ThreadInfo]
    BY SnapshotTyped DEF PartsInv
  <2> QED
    BY <2>1, <2>2, Zenon DEF Table!Next
<1>4. CASE UNCHANGED table_vars \/ UNCHANGED vars
  BY <1>1, <1>4, Zenon DEF vars
<1> QED
  BY <1>2, <1>3, <1>4, Zenon DEF Next, WorkerThread, SetAffinity, Clock, Step

\* Every step of the balancer is a step of the pass or leaves it alone: what it takes
\* from the table changes only when Read or the end of a pass replaces it.
LEMMA StepOfPass ==
  ASSUME PartsInv, [Next]_vars
  PROVE  [Pass!Next]_(Pass!vars)
<1>1. ASSUME UNCHANGED pass_vars, UNCHANGED processes,
             [q \in Pid |-> process'[q].name] = [q \in Pid |-> process[q].name]
      PROVE  UNCHANGED Pass!vars
  <2>1. Full' = Full
    BY <1>1, Zenon DEF Full, Table!Full, pass_vars
  <2> QED
    BY <1>1, <2>1, Zenon DEF pass_vars, Pass!vars, Pass!os, Pass!table, Pass!locals, Pass!history
<1>2. CASE System
  <2>1. CASE \E p \in Pid : StartProcess(p) \/ ExitProcess(p)
    BY <2>1, Zenon DEF StartProcess, ExitProcess, Pass!Next, Pass!Environment
  <2>2. CASE \E p \in Pid : Work(p)
    <3>1. PICK p \in Pid : Table!Work(p) /\ UNCHANGED pass_vars
      BY <2>2, Zenon DEF Work
    <3> QED
      BY <1>1, <3>1, WorkKeepsNames, Zenon DEF PartsInv
  <2>3. CASE \E t \in Tid : ExitThread(t) \/ \E p \in Pid : StartThread(t, p)
    BY <2>3, Zenon DEF ExitThread, StartThread, Pass!Next, Pass!Environment
  <2> QED
    BY <1>2, <2>1, <2>2, <2>3, Zenon DEF System
<1>3. CASE Read \/ SetAffinity
  BY <1>3, Zenon DEF Read, SetAffinity, Pass!Next
<1>4. CASE UNCHANGED <<table_vars, pass_vars>> \/ UNCHANGED vars
  <2>1. UNCHANGED pass_vars /\ UNCHANGED <<process, processes>>
    BY <1>4, Zenon DEF vars, table_vars
  <2> QED
    BY <1>1, <2>1, Zenon
<1> QED
  BY <1>2, <1>3, <1>4, Zenon DEF Next, WorkerThread, Clock, Step

\* The parts stay in order together.
LEMMA PartsInvariant == Spec => []PartsInv
<1>1. Init => PartsInv
  BY SameTable, SamePass, TP!TableInvInit, AP!InitPassInv, TableConstants, PassConstants, Zenon
     DEF Init, PartsInv
<1>2. PartsInv /\ [Next]_vars => PartsInv'
  <2> SUFFICES ASSUME PartsInv, [Next]_vars PROVE PartsInv'
    OBVIOUS
  <2>1. [TP!Next]_(TP!vars) /\ [AP!Next]_(AP!vars)
    BY StepOfTable, StepOfPass, SameTable, SamePass
  <2>2. TP!TableInv'
    BY <2>1, TP!NextTableInv, TableConstants, Zenon DEF PartsInv
  <2>3. AP!PassInv'
    BY <2>1, AP!NextPassInv, PassConstants, Zenon DEF PartsInv
  <2> QED
    BY <2>2, <2>3, Zenon DEF PartsInv
<1> QED
  BY <1>1, <1>2, PTL DEF Spec

\* The table of the running balancer is the table of ProcessTable: nothing but Read and
\* the system touches it, and what SetAffinity does between two calls of Read is nothing
\* to it (ProcessesInfo::Read).
THEOREM BalancerImplementsTable == Spec => Table!Spec
<1>1. Init => Table!Init
  BY DEF Init
<1>2. PartsInv /\ [Next]_vars => [Table!Next]_(Table!vars)
  BY StepOfTable
<1> QED
  BY <1>1, <1>2, PartsInvariant, PTL DEF Spec, Table!Spec

\* The passes of the running balancer are passes of AffinityPass: the windows, averages
\* and threads that Read has left in the table stand still until the pass is over
\* (ProcessesInfo::SetAffinity).
THEOREM BalancerImplementsPass == Spec => Pass!Spec
<1>1. Init => Pass!Init
  BY DEF Init
<1>2. PartsInv /\ [Next]_vars => [Pass!Next]_(Pass!vars)
  BY StepOfPass
<1> QED
  BY <1>1, <1>2, PartsInvariant, PTL DEF Spec, Pass!Spec

\* The loop, the table, the pass and the count of the failures keep their types in every
\* behaviour of the balancer (WorkerThread, Read and SetAffinity together).
THEOREM BalancerTypeOK == Spec => []TypeOK
<1>1. Init => LoopInv /\ failures \in 0 .. MaxFailures
  BY LoopInvInit DEF Init
<1>2. LoopInv /\ failures \in 0 .. MaxFailures /\ [Next]_vars
        => LoopInv' /\ (failures \in 0 .. MaxFailures)'
  <2> SUFFICES ASSUME LoopInv, failures \in 0 .. MaxFailures, [Next]_vars
               PROVE  failures' \in 0 .. MaxFailures
    BY LoopInvNext
  <2>1. CASE Read
    <3>1. PICK ok \in BOOLEAN : failures' = (IF ok THEN failures ELSE failures + 1)
      BY <2>1, Zenon DEF Read
    <3>2. failures' <= MaxFailures
      BY <2>1, Zenon DEF Read
    <3>3. failures' = failures \/ failures' = failures + 1
      BY <3>1, Zenon
    <3> QED
      BY <3>2, <3>3, BalancerAssumption
  <2>2. CASE UNCHANGED failures \/ UNCHANGED vars
    BY <2>2 DEF vars
  <2> QED
    BY <2>1, <2>2, Zenon DEF Next, System, StartProcess, ExitProcess, Work, StartThread,
                             ExitThread, WorkerThread, SetAffinity, Clock, Step
<1>3. LoopInv /\ PartsInv /\ failures \in 0 .. MaxFailures => TypeOK
  <2>1. TP!TypeOK => Table!TypeOK
    BY Zenon DEF TP!TypeOK, Table!TypeOK, TP!OsProcess, Table!OsProcess, TP!Entry, Table!Entry,
                 TP!Rings, Table!Rings, TP!Slots, Table!Slots
  <2>2. AP!TypeOK => Pass!TypeOK
    BY Zenon DEF AP!TypeOK, Pass!TypeOK, AP!Image, Pass!Image, AP!ThreadInfo, Pass!ThreadInfo,
                 AP!Nodes, Pass!Nodes, AP!NullNode, Pass!NullNode, AP!NoAffinity, Pass!NoAffinity
  <2> QED
    BY <2>1, <2>2, Zenon DEF TypeOK, LoopInv, PartsInv, TP!TableInv, AP!PassInv
<1> QED
  BY <1>1, <1>2, <1>3, PartsInvariant, PTL DEF Spec

\* What is proved of the table and of the pass holds of them in the balancer.
LEMMA BalancerHasParts == Spec => TP!Spec /\ AP!Spec
<1>1. Table!Spec => TP!Spec
  BY SameTable, PTL DEF Table!Spec, TP!Spec
<1>2. Pass!Spec => AP!Spec
  BY SamePass, PTL DEF Pass!Spec, AP!Spec
<1> QED
  BY <1>1, <1>2, BalancerImplementsTable, BalancerImplementsPass, PTL

\* Every window by which the running balancer ranks holds readings of one process only,
\* as long as no pid is reused between two calls of Read, which the balancer's table has
\* built in (AddProcess, DeleteOldProcess).
THEOREM BalancerOneProcess == Spec => []Table!OneProcess
<1>1. TP!Spec => []TP!OneProcess
  <2>1. FALSE = FALSE
    OBVIOUS
  <2> QED
    BY <2>1, TP!OneProcessAlways, TableConstants, Zenon
<1>2. TP!OneProcess => Table!OneProcess
  BY Zenon DEF TP!OneProcess, Table!OneProcess
<1> QED
  BY <1>1, <1>2, BalancerHasParts, PTL

\* The table of the running balancer holds the pids that every recent snapshot showed,
\* and its windows what was spent between their readings, none lost, repeated or older
\* than the last gap, also when snapshots fail and passes lie between the calls of Read
\* (Read, DeleteOldProcess and AddProcess).
THEOREM BalancerWindowIsDifferences == Spec => []Table!WindowIsDifferences
<1>1. TP!Spec => []TP!WindowIsDifferences
  BY TP!TableWindowIsDifferences, TableConstants, Zenon
<1>2. TP!WindowIsDifferences => Table!WindowIsDifferences
  BY Zenon DEF TP!WindowIsDifferences, Table!WindowIsDifferences, TP!Window, Table!Window,
               TP!Slot, Table!Slot, TP!Differences, Table!Differences
<1> QED
  BY <1>1, <1>2, BalancerHasParts, PTL

\* In every pass of the running balancer the processes take the nodes in a circle from
\* the first one, whatever starts, exits and fails meanwhile (SetAffinity).
THEOREM BalancerRoundRobin == Spec => []Pass!RoundRobin
<1>1. AP!Spec => []AP!RoundRobin
  BY AP!RoundRobinAlways, PassConstants, Zenon
<1>2. AP!RoundRobin => Pass!RoundRobin
  BY Zenon DEF AP!RoundRobin, Pass!RoundRobin
<1> QED
  BY <1>1, <1>2, BalancerHasParts, PTL

\* So no node of the running balancer is ever two processes of a pass ahead of another
\* (SetAffinity).
THEOREM BalancerSpread == Spec => []Pass!Spread
<1>1. AP!Spec => []AP!Spread
  BY AP!SpreadAlways, PassConstants, Zenon
<1>2. AP!Spread => Pass!Spread
  BY Zenon DEF AP!Spread, Pass!Spread, AP!Turns, Pass!Turns, AP!Nodes, Pass!Nodes,
               AP!Cardinality, Pass!Cardinality
<1> QED
  BY <1>1, <1>2, BalancerHasParts, PTL

\* When a process has had its turn in a pass of the running balancer, it and the threads
\* that the last Read found of it are at one node, save what has gone and what a call
\* failed on: neither the threads in the table nor their affinities get old enough to
\* mislead a pass (Read, AddProcess and SetAffinity together).
THEOREM BalancerMovesWholeProcess ==
  ASSUME \A n \in Pass!Nodes : NumaNodes[n].Mask # 0
  PROVE  Spec => []Pass!WholeProcessMoved
<1>1. AP!Spec => []AP!WholeProcessMoved
  <2>1. ~FALSE
    OBVIOUS
  <2>2. \A n \in AP!Nodes : NumaNodes[n].Mask # 0
    BY Zenon DEF AP!Nodes, Pass!Nodes
  <2> QED
    BY <2>1, <2>2, AP!WholeProcessMovedAlways, PassConstants, Zenon
<1>2. AP!WholeProcessMoved => Pass!WholeProcessMoved
  BY Zenon DEF AP!WholeProcessMoved, Pass!WholeProcessMoved, AP!Running, Pass!Running
<1> QED
  BY <1>1, <1>2, BalancerHasParts, PTL

\* A pass changes the affinity of a process only while it runs what is listed, and of a
\* thread only while its owner does (OnlyListed of the pass, in terms of the balancer).
BindsOnlyListed ==
  SetAffinity =>
    /\ \A p \in Pid : processAffinity'[p] # processAffinity[p] => process[p].name = "listed"
    /\ \A t \in Tid : threadAffinity'[t] # threadAffinity[t]
         => owner[t] \in Pid /\ process[owner[t]].name = "listed"

\* The running balancer binds nothing but listed processes and their threads, whatever
\* starts and exits between its system calls, as long as no id is reused inside a pass
\* (SetProcessAffinity, SetThreadAffinity).
THEOREM BalancerBindsOnlyListed == Spec => [][BindsOnlyListed]_vars
<1> DEFINE name == [p \in Pid |-> process[p].name]
<1>1. AP!Spec => [](AP!PassInv /\ AP!OrderInv /\ AP!BoundInv)
  <2>1. ~FALSE
    OBVIOUS
  <2> QED
    BY <2>1, AP!BoundInvariant, PassConstants, Zenon
<1>2. AP!Spec => []AP!OwnersRun
  BY AP!OwnersRunAlways, PassConstants, Zenon
<1>3. ASSUME AP!PassInv, AP!OrderInv, AP!BoundInv, AP!OwnersRun, SetAffinity
      PROVE  BindsOnlyListed
  <2>1. AP!SetAffinity
    BY <1>3, SamePass DEF SetAffinity
  <2>2. /\ \A p \in Pid : processAffinity'[p] # processAffinity[p] => name[p] = "listed"
        /\ \A t \in Tid : threadAffinity'[t] # threadAffinity[t]
             => owner[t] # Nobody /\ name[owner[t]] = "listed"
    BY <1>3, <2>1, AP!StepOnlyListed, PassConstants, Zenon
  <2>3. \A t \in Tid : owner[t] # Nobody => owner[t] \in Pid
    BY <1>3, Zenon DEF AP!PassInv, AP!TypeOK
  <2>4. \A p \in Pid : name[p] = process[p].name
    OBVIOUS
  <2> HIDE DEF name
  <2> QED
    BY <2>2, <2>3, <2>4, Zenon DEF BindsOnlyListed
<1>4. AP!PassInv /\ AP!OrderInv /\ AP!BoundInv /\ AP!OwnersRun => [BindsOnlyListed]_vars
  BY <1>3, Zenon DEF BindsOnlyListed
<1> QED
  BY <1>1, <1>2, <1>4, BalancerHasParts, PTL

\* In the running balancer the processes are bound in the order of what they have spent
\* over the last calls of Read, each after a whole period of analysis, for any number of
\* processes, threads and nodes and whatever fails, as long as a LONGLONG holds the user
\* times (Read, RingBuffer::Avg and SetAffinity together).
THEOREM HeaviestConsumerFirstAlways ==
  ASSUME MaxUser < 2 ^ (Width - 1)
  PROVE  Spec => []HeaviestConsumerFirst
<1>1. TP!Spec => []TP!AverageIsConsumption
  <2>1. FALSE = FALSE
    OBVIOUS
  <2> QED
    BY <2>1, TP!AverageIsConsumptionAlways, TableConstants, Zenon
<1>2. AP!Spec => []AP!HeaviestFirst
  BY AP!HeaviestFirstAlways, PassConstants, Zenon
<1>3. PartsInv /\ TP!AverageIsConsumption /\ AP!HeaviestFirst => HeaviestConsumerFirst
  <2> SUFFICES ASSUME PartsInv, TP!AverageIsConsumption, AP!HeaviestFirst,
                      NEW j \in DOMAIN placed, NEW k \in DOMAIN placed
               PROVE  /\ Len(readings[placed[j].pid]) = Capacity + 1
                      /\ j < k => Spent(placed[j].pid) \div Capacity
                                    >= Spent(placed[k].pid) \div Capacity
    BY Zenon DEF HeaviestConsumerFirst
  <2> DEFINE avg == [p \in Pid |-> IF p \in Full THEN Table!AvgLongLong(processes[p].user_time)
                                   ELSE 0]
  <2>1. \A i \in DOMAIN placed : placed[i].pid \in Full
    BY Zenon DEF AP!HeaviestFirst
  <2>2. j < k => avg[placed[j].pid] >= avg[placed[k].pid]
    BY Zenon DEF AP!HeaviestFirst
  <2>3. ASSUME NEW p \in Full
        PROVE  /\ p \in Pid /\ p \in DOMAIN processes
               /\ TP!Full(processes[p].user_time)
               /\ avg[p] = TP!AvgLongLong(processes[p].user_time)
    <3>1. p \in DOMAIN processes /\ TP!Full(processes[p].user_time)
      BY <2>3, Zenon DEF Full, Table!Full, TP!Full
    <3>2. p \in Pid
      BY <3>1, Zenon DEF PartsInv, TP!TableInv, TP!TypeOK
    <3>3. avg[p] = Table!AvgLongLong(processes[p].user_time)
      BY <3>2
    <3>4. Table!AvgLongLong(processes[p].user_time) = TP!AvgLongLong(processes[p].user_time)
      BY Zenon DEF Table!AvgLongLong, TP!AvgLongLong, Table!Accumulate, TP!Accumulate,
                   Table!ToSigned, TP!ToSigned, Table!SumFunctionOnSet, TP!SumFunctionOnSet,
                   Table!FoldFunctionOnSet, TP!FoldFunctionOnSet, Table!MapThenFoldSet,
                   TP!MapThenFoldSet
    <3> QED
      BY <3>1, <3>2, <3>3, <3>4, Zenon
  <2> HIDE DEF avg
  <2>4. \A p \in Full : avg[p] = Spent(p) \div Capacity /\ Len(readings[p]) = Capacity + 1
    <3> SUFFICES ASSUME NEW p \in Full
                 PROVE  avg[p] = Spent(p) \div Capacity /\ Len(readings[p]) = Capacity + 1
      OBVIOUS
    <3>1. TP!AvgLongLong(processes[p].user_time) = Spent(p) \div Capacity
      BY <2>3, Zenon DEF TP!AverageIsConsumption, Spent
    <3>2. Len(readings[p]) = Capacity + 1
      BY <2>3, TP!FullWindow, TableConstants, Zenon DEF PartsInv
    <3> QED
      BY <2>3, <3>1, <3>2, Zenon
  <2> QED
    BY <2>1, <2>2, <2>4
<1> QED
  BY <1>1, <1>2, <1>3, PartsInvariant, BalancerHasParts, PTL

-----------------------------------------------------------------------------
(* The windows of the table, timed by the loop. *)

\* As long as nobody sets the clock, what a full window holds was spent over the whole
\* period of analysis, within what one delay and the tests of whole seconds do to it:
\* no process is bound for what it did in less time than another one.
WindowsSpanPeriod ==
  jumps = 0 =>
    \A p \in DOMAIN processes : Table!Full(processes[p].user_time) =>
      /\ Len(ages) = Capacity + 1
      /\ ages[Capacity + 1] - ages[1] >= Capacity * (2 * Frequency) - lag
      /\ ages[Capacity + 1] - ages[1] <= Capacity * LongestPeriod + lag

\* No pid has been read more often than Read was called.
CallsInv == jumps = 0 => \A p \in Pid : Len(readings[p]) <= Len(ages)

\* With one more reading a history grows by one until it is full.
LEMMA RememberLength ==
  ASSUME NEW S, NEW seen \in Seq(S), Len(seen) <= Capacity + 1, NEW r \in S
  PROVE  Len(Table!Remember(seen, r)) = IF Len(seen) <= Capacity THEN Len(seen) + 1
                                        ELSE Capacity + 1
<1>1. Len(seen) \in Nat /\ Capacity \in Nat \ {0}
  BY LoopAssumption
<1>2. CASE Len(seen) <= Capacity
  BY <1>2 DEF Table!Remember
<1>3. CASE ~(Len(seen) <= Capacity)
  <2>1. Len(seen) = Capacity + 1 /\ Len(seen) # 0
    BY <1>1, <1>3
  <2>2. seen # << >>
    BY <2>1
  <2>3. Tail(seen) \in Seq(S) /\ Len(Tail(seen)) = Len(seen) - 1
    BY <2>2
  <2>4. Len(Append(Tail(seen), r)) = Len(Tail(seen)) + 1
    BY <2>3
  <2> QED
    BY <1>3, <2>1, <2>3, <2>4, <1>1 DEF Table!Remember
<1> QED
  BY <1>2, <1>3

\* A step counts a call of Read in both histories, or forgets it in the table only.
LEMMA CallsInvNext ==
  ASSUME LoopInv, PartsInv, CallsInv, [Next]_vars
  PROVE  CallsInv'
<1>1. /\ readings \in [Pid -> Seq(TP!Reading)]
      /\ \A p \in Pid : Len(readings[p]) <= Capacity + 1
  BY Zenon DEF PartsInv, TP!TableInv
<1>2. /\ ages \in Seq(Nat) /\ Len(ages) \in Nat /\ Len(ages) <= Capacity + 1
      /\ Capacity \in Nat \ {0} /\ jumps \in Nat
  BY LoopAssumption DEF LoopInv, LoopTypeOK
<1>3. ASSUME UNCHANGED readings, jumps' = 0 => jumps = 0 /\ Len(ages') = Len(ages)
      PROVE  CallsInv'
  BY <1>3 DEF CallsInv
<1>4. CASE Read
  <2> SUFFICES ASSUME jumps' = 0, NEW p \in Pid
               PROVE  Len(readings'[p]) <= Len(ages')
    BY DEF CallsInv
  <2>1. BeginPass /\ jumps = 0
    BY <1>4 DEF Read, BeginPass
  <2>2. Len(ages') = IF Len(ages) <= Capacity THEN Len(ages) + 1 ELSE Capacity + 1
    BY <2>1, <1>2 DEF BeginPass
  <2>3. PICK ok \in BOOLEAN, unopened \in SUBSET {t \in Tid : CallsFail} :
          Table!Read(ok, Pass!Snapshot(unopened))
    BY <1>4, Zenon DEF Read
  <2> DEFINE a == Table!ActiveProcesses(ok, Pass!Snapshot(unopened))
  <2>4. readings' = [q \in Pid |-> IF q \in DOMAIN a THEN Table!Remember(readings[q], a[q])
                                   ELSE << >>]
    BY <2>3, Zenon DEF Table!Read
  <2>5. Len(readings[p]) <= Len(ages) /\ Len(readings[p]) \in Nat
        /\ readings[p] \in Seq(TP!Reading)
    BY <1>1, <2>1 DEF CallsInv
  <2> HIDE DEF a
  <2>6. CASE p \notin DOMAIN a
    BY <2>6, <2>4, <2>2, <1>2
  <2>7. CASE p \in DOMAIN a
    <3> DEFINE r == a[p]
    <3>1. readings'[p] = Table!Remember(readings[p], r)
      BY <2>4, <2>7
    <3> HIDE DEF r
    <3>2. readings[p] \in Seq(TP!Reading \cup {r})
      BY <2>5
    <3>3. Len(Table!Remember(readings[p], r)) = IF Len(readings[p]) <= Capacity
                                                THEN Len(readings[p]) + 1 ELSE Capacity + 1
      BY <3>2, <1>1, RememberLength
    <3> QED
      BY <3>1, <3>3, <2>2, <2>5, <1>2
  <2> QED
    BY <2>6, <2>7
<1>5. CASE UNCHANGED vars
  BY <1>3, <1>5 DEF vars, table_vars, loop_vars
<1>6. CASE System
  <2>1. UNCHANGED <<readings, loop_vars>>
    BY <1>6, Zenon DEF System, StartProcess, ExitProcess, Work, StartThread, ExitThread,
                       Table!Start, Table!Exit, Table!Work, table_vars
  <2> QED
    BY <1>3, <2>1 DEF loop_vars
<1>7. CASE SetAffinity \/ Step(pc = "idle" /\ EndPass) \/ Step(NotDue) \/ Step(ReadClock)
           \/ Step(Wake)
  BY <1>3, <1>7 DEF SetAffinity, Step, EndPass, NotDue, ReadClock, Wake, table_vars, loop_vars
<1>8. CASE Clock
  <2>1. Tick /\ UNCHANGED readings
    BY <1>8 DEF Clock, Step, table_vars
  <2>2. Len(ages') = Len(ages) /\ jumps' = jumps
    BY <2>1, <1>2 DEF Tick
  <2> QED
    BY <1>3, <2>1, <2>2
<1>9. CASE Step(loop = "clock" /\ SetClock)
  BY <1>2, <1>9 DEF Step, SetClock, CallsInv
<1> QED
  BY <1>4, <1>5, <1>6, <1>7, <1>8, <1>9 DEF Next, WorkerThread

\* In every behaviour of the balancer, as long as nobody sets the clock, every process
\* is ranked by what it has spent over the same calls of Read, which span the period of
\* analysis up to one delay and the tests of whole seconds, whatever starts, exits and
\* fails (main.cpp:347-365, Read and RingBuffer::IsFull together).
THEOREM WindowsSpanPeriodAlways == Spec => []WindowsSpanPeriod
<1>1. Init => LoopInv /\ CallsInv
  <2>1. Init => readings = [p \in Pid |-> << >>] /\ ages = << >>
    BY DEF Init, Table!Init, InitLoop
  <2>2. Init => CallsInv
    BY <2>1 DEF CallsInv
  <2> QED
    BY <2>2, LoopInvInit DEF Init
<1>2. LoopInv /\ PartsInv /\ CallsInv /\ [Next]_vars => LoopInv' /\ CallsInv'
  BY LoopInvNext, CallsInvNext
<1>3. LoopInv /\ PartsInv /\ CallsInv => WindowsSpanPeriod
  <2> SUFFICES ASSUME LoopInv, PartsInv, CallsInv, jumps = 0,
                      NEW p \in DOMAIN processes, Table!Full(processes[p].user_time)
               PROVE  /\ Len(ages) = Capacity + 1
                      /\ ages[Capacity + 1] - ages[1] >= Capacity * (2 * Frequency) - lag
                      /\ ages[Capacity + 1] - ages[1] <= Capacity * LongestPeriod + lag
    BY DEF WindowsSpanPeriod
  <2>1. TP!Full(processes[p].user_time) /\ p \in Pid
    BY Zenon DEF Table!Full, TP!Full, PartsInv, TP!TableInv, TP!TypeOK
  <2>2. Len(readings[p]) = Capacity + 1
    BY <2>1, TP!FullWindow, TableConstants, Zenon DEF PartsInv
  <2>3. Len(ages) = Capacity + 1 /\ Capacity \in Nat \ {0}
    BY <2>1, <2>2, LoopAssumption DEF CallsInv, LoopInv, LoopTypeOK
  <2>4. \A i, j \in DOMAIN ages : i < j =>
          /\ ages[j] - ages[i] >= (j - i) * (2 * Frequency) - lag
          /\ ages[j] - ages[i] <= (j - i) * LongestPeriod + lag
    BY Zenon DEF LoopInv, ReadsApart, ReadsClose
  <2> DEFINE n == Capacity + 1
  <2>5. 1 \in DOMAIN ages /\ n \in DOMAIN ages /\ 1 < n /\ n - 1 = Capacity
    BY <2>3 DEF LoopInv, LoopTypeOK
  <2> HIDE DEF n
  <2>6. /\ ages[n] - ages[1] >= (n - 1) * (2 * Frequency) - lag
        /\ ages[n] - ages[1] <= (n - 1) * LongestPeriod + lag
    BY <2>4, <2>5, Zenon
  <2>7. /\ ages[n] - ages[1] >= Capacity * (2 * Frequency) - lag
        /\ ages[n] - ages[1] <= Capacity * LongestPeriod + lag
    BY <2>5, <2>6, Zenon
  <2> QED
    BY <2>3, <2>7, Zenon DEF n
<1> QED
  BY <1>1, <1>2, <1>3, PartsInvariant, PTL DEF Spec
=============================================================================
