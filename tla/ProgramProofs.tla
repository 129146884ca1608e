---------------------------- MODULE ProgramProofs ----------------------------
(* The worker with its monitor, the service and the console program around it: *)
(* types, the stop event, what is left to run when the program says it has     *)
(* stopped, and how many steps a stop takes, for every content of the file and *)
(* whatever calls fail.                                                        *)
EXTENDS Service, Console, FiniteSetTheorems, TLAPS

-----------------------------------------------------------------------------
(* The worker. *)

BeforeInit == {"none", "settings", "create", "truncate", "write", "open"}
Leaving == {"destroy", "exit", "signal", "done"}

\* Where the collector can be in each part of the life of the monitor: until the
\* flag is cleared one in its loop finds it set, and to forget the id is the last
\* thing it does.
MonitorInv ==
  /\ monitor = "init" => collector = None /\ collector_thread_id = None
  /\ monitor = "start" => collector \in {"spawned", "test", "collect"} /\ collector_thread_id = None
  /\ monitor = "running" => /\ collector \in {"spawned", "test", "collect"}
                            /\ collector_thread_id = "collector"
  /\ monitor \in {"start", "running"} /\ collector # "spawned" => is_collect
  /\ monitor = "waiting" => /\ collector # None
                            /\ collector_thread_id = None <=> collector = "done"
                            /\ is_collect => collector \in {"test", "collect"}
  /\ monitor = "destroyed" => collector = "done"

\* The monitor lives while the worker works, and the worker works with values.
PlaceInv ==
  /\ worker = "init" => monitor \in {"init", "start"}
  /\ worker = "destroy" => monitor \in {"running", "waiting"}
  /\ worker \notin BeforeInit => settings \in SettingsRead

WorkerInv == WorkerTypeOK /\ MonitorInv /\ PlaceInv

-----------------------------------------------------------------------------
(* The values of the file. *)

\* A power of two is a positive number: it counts the subsets of a set.
LEMMA PowerOfTwo ==
  ASSUME NEW n \in Nat
  PROVE  2 ^ n \in Nat \ {0}
<1> DEFINE S == 1 .. n
<1>1. IsFiniteSet(S) /\ Cardinality(S) = n
  BY FS_Interval
<1>2. IsFiniteSet(SUBSET S) /\ Cardinality(SUBSET S) = 2 ^ n
  BY <1>1, FS_SUBSET
<1>3. {} \in SUBSET S
  OBVIOUS
<1>4. Cardinality(SUBSET S) \in Nat /\ Cardinality(SUBSET S) # 0
  BY <1>2, <1>3, FS_EmptySet, FS_CardinalityType
<1> QED
  BY <1>2, <1>4

\* What has been read is no empty list of names, and the numbers are integers.
LEMMA ValuesType ==
  ASSUME NEW c \in Contents \cup {Defaults}
  PROVE  /\ Values(c).processes # {}
         /\ Values(c).frequency \in Int /\ Values(c).period \in Int
<1>1. c.frequency \in Int /\ c.period \in Int
  BY ContentsAssumption DEF Defaults, Content
<1>2. MinInt \in Int /\ 2 ^ IntWidth \in Nat \ {0}
  BY SettingsAssumption, PowerOfTwo DEF MinInt
<1>3. \A v \in Int : Cut(v) \in Int
  BY <1>2 DEF Cut
<1> QED
  BY <1>1, <1>3 DEF Values, Processes

\* Only what a user has written or the defaults can be correct.
LEMMA CorrectContent ==
  ASSUME file \in Contents \cup {Absent, NotJson, Defaults}, Correct(file)
  PROVE  file \in Contents \cup {Defaults}
BY DEF Correct, Absent, NotJson, Content

\* Numbers that make sense give the rings and the counters a slot.
LEMMA ReasonableSlots ==
  ASSUME NEW c \in Contents \cup {Defaults}, Reasonable(Values(c))
  PROVE  /\ ~Traps(Values(c)) /\ RingsExist(Values(c)) /\ RingsHaveSlots(Values(c))
         /\ CountersExist(Values(c)) /\ CountersHaveSlots(Values(c))
<1> DEFINE f == Values(c).frequency
           p == Values(c).period
<1>1. f \in Int /\ p \in Int /\ 1 <= f /\ f <= p
  BY ValuesType DEF Reasonable
<1>2. Quotient(p, f) = p \div f
  BY <1>1 DEF Quotient, Magnitude
<1>3. p \div f >= 1
  BY <1>1
<1> QED
  BY <1>1, <1>2, <1>3 DEF Traps, RingsExist, RingsHaveSlots, Slots, CountersExist,
                          CountersHaveSlots

-----------------------------------------------------------------------------
(* The steps of the worker and the collector. *)

\* Before the worker is created there is no monitor.
LEMMA InitWorkerInv ==
  ASSUME InitFile, InitWorker
  PROVE  WorkerInv
BY DEF InitFile, InitWorker, InitHandshake, WorkerInv, WorkerTypeOK, MonitorInv, PlaceInv,
       BeforeInit, Handle, None

\* A step that touches nothing of the worker keeps its invariant.
LEMMA WorkerInvStutter ==
  ASSUME WorkerInv, UNCHANGED worker_vars
  PROVE  WorkerInv'
BY DEF WorkerInv, WorkerTypeOK, MonitorInv, PlaceInv, worker_vars, handshake, config, events

\* Settings::Read.
LEMMA ReadSettingsInv ==
  ASSUME WorkerInv, ReadSettings
  PROVE  WorkerInv'
<1> USE DEF WorkerInv, WorkerTypeOK, PlaceInv, BeforeInit, handshake, config, events
<1>1. UNCHANGED handshake
  BY DEF ReadSettings, TestFile, TestAgain, TruncateFile, WriteDefaults, ReadFile
<1>2. MonitorInv'
  BY <1>1 DEF MonitorInv
<1>3. CASE TestFile \/ TestAgain
  BY <1>2, <1>3 DEF TestFile, TestAgain
<1>4. CASE TruncateFile \/ WriteDefaults
  <2>1. /\ file' \in {file, NotJson, Defaults} /\ worker' \in {"write", "open"}
        /\ worker \in {"truncate", "write"}
        /\ UNCHANGED <<alive, logger, access, settings, stop_event, stop_signal, thread_stop,
                       thread_signal>>
    BY <1>4 DEF TruncateFile, WriteDefaults
  <2> QED
    BY <1>1, <1>2, <2>1
<1>5. CASE ReadFile
  <2>1. settings' = settings \/ settings' \in SettingsRead
    BY <1>5, CorrectContent DEF ReadFile, SettingsRead
  <2>2. alive' \in BOOLEAN
    BY <1>5 DEF ReadFile
  <2>3. /\ worker = "open" /\ worker' \in {"open", "init"}
        /\ worker' = "init" => settings' \in SettingsRead
        /\ UNCHANGED <<logger, file, access, stop_event, stop_signal, thread_stop, thread_signal>>
    BY <1>5, CorrectContent DEF ReadFile, SettingsRead
  <2> QED
    BY <1>1, <1>2, <2>1, <2>2, <2>3
<1> QED
  BY <1>3, <1>4, <1>5 DEF ReadSettings

\* A process that dies keeps its variables.
LEMMA DieInv ==
  ASSUME WorkerInv, Die
  PROVE  WorkerInv'
<1>1. /\ alive' \in BOOLEAN
      /\ UNCHANGED <<monitor, is_collect, collector_thread_id, collector, logger, file, access,
                     settings, stop_event, stop_signal, thread_stop, thread_signal, worker>>
  BY DEF Die, handshake, config, events
<1> QED
  BY <1>1 DEF WorkerInv, WorkerTypeOK, MonitorInv, PlaceInv

\* StartCollecting, by the worker.
LEMMA InitProcessesInv ==
  ASSUME WorkerInv, InitProcesses
  PROVE  WorkerInv'
<1>1. CASE Die
  BY <1>1, DieInv
<1>2. CASE Create /\ UNCHANGED <<worker, alive, logger, config, events>>
  BY <1>2 DEF WorkerInv, WorkerTypeOK, MonitorInv, PlaceInv, BeforeInit, Create, InitProcesses,
              config, events, None
<1>3. CASE StoreId /\ worker = "init" /\ worker' = "wait"
           /\ UNCHANGED <<alive, logger, config, events>>
  BY <1>3 DEF WorkerInv, WorkerTypeOK, MonitorInv, PlaceInv, BeforeInit, StoreId,
              config, events, None
<1> QED
  BY <1>1, <1>2, <1>3 DEF InitProcesses

\* The loop of the worker.
LEMMA LoopInv ==
  ASSUME WorkerInv, Wait \/ Check \/ Work
  PROVE  WorkerInv'
<1>1. CASE Wait \/ Check
  BY <1>1 DEF WorkerInv, WorkerTypeOK, MonitorInv, PlaceInv, BeforeInit, Wait, Check,
              handshake, config, events
<1>2. CASE Work
  <2>1. CASE Die
    BY <2>1, DieInv
  <2>2. CASE ~Die
    BY <1>2, <2>2 DEF WorkerInv, WorkerTypeOK, MonitorInv, PlaceInv, BeforeInit, Work,
                      handshake, config, events
  <2> QED
    BY <2>1, <2>2
<1> QED
  BY <1>1, <1>2

\* The end of the worker.
LEMMA LeaveInv ==
  ASSUME WorkerInv, DestroyProcesses \/ TestThreadStop \/ Signal
  PROVE  WorkerInv'
<1>1. CASE DestroyProcesses
  <2>1. CASE ClearFlag
    BY <1>1, <2>1 DEF WorkerInv, WorkerTypeOK, MonitorInv, PlaceInv, BeforeInit,
                      DestroyProcesses, ClearFlag, Destroy, config, events, None
  <2>2. CASE Destroy /\ worker' = "exit"
    BY <1>1, <2>2 DEF WorkerInv, WorkerTypeOK, MonitorInv, PlaceInv, BeforeInit,
                      DestroyProcesses, Destroy, config, events, None
  <2> QED
    BY <1>1, <2>1, <2>2 DEF DestroyProcesses
<1>2. CASE TestThreadStop \/ Signal
  BY <1>2 DEF WorkerInv, WorkerTypeOK, MonitorInv, PlaceInv, BeforeInit, TestThreadStop, Signal,
              handshake, config, events
<1> QED
  BY <1>1, <1>2

\* The collector.
LEMMA CollectorInv ==
  ASSUME WorkerInv, CollectorThread
  PROVE  WorkerInv'
<1>1. CASE Die
  BY <1>1, DieInv
<1>2. CASE Collector /\ UNCHANGED <<alive, logger, config, events, worker>>
  <2> USE DEF WorkerInv, WorkerTypeOK, MonitorInv, PlaceInv, config, events, None
  <2>1. CASE SetFlag
    BY <1>2, <2>1 DEF SetFlag
  <2>2. CASE TestFlag
    BY <1>2, <2>2 DEF TestFlag
  <2>3. CASE Collect
    BY <1>2, <2>3 DEF Collect
  <2>4. CASE Leave
    BY <1>2, <2>4 DEF Leave
  <2> QED
    BY <1>2, <2>1, <2>2, <2>3, <2>4 DEF Collector
<1> QED
  BY <1>1, <1>2 DEF CollectorThread

\* No step of the worker or of the collector breaks the invariant.
LEMMA ThreadsWorkerInv ==
  ASSUME WorkerInv, WorkerThread \/ CollectorThread
  PROVE  WorkerInv'
BY ReadSettingsInv, InitProcessesInv, LoopInv, LeaveInv, CollectorInv DEF WorkerThread

\* A wait has an outcome.
LEMMA TimesOutType ==
  ASSUME WorkerTypeOK
  PROVE  TimesOut(stop_event, stop_signal) \subseteq BOOLEAN
<1>1. {~stop_signal} \subseteq BOOLEAN /\ {TRUE} \subseteq BOOLEAN /\ {FALSE} \subseteq BOOLEAN
  BY Zenon
<1> QED
  BY <1>1 DEF TimesOut, WorkerTypeOK, Handle

\* What the rest of the program sees of a step of the worker or of the collector:
\* only the last event is touched, a worker that is not there or through does
\* nothing, and the loop is left only by a wait that does not time out or by a
\* handle that is invalid.
LEMMA ThreadSteps ==
  ASSUME WorkerInv, WorkerThread \/ CollectorThread
  PROVE  /\ UNCHANGED <<logger, stop_event, stop_signal, thread_stop>>
         /\ worker \in {"none", "done"} => worker' = worker
         /\ worker' = "none" => worker = "none"
         /\ worker' \in Leaving /\ worker \notin Leaving =>
              \/ worker = "wait" /\ FALSE \in TimesOut(stop_event, stop_signal)
              \/ worker = "check" /\ stop_event = "invalid"
         /\ worker \in Leaving => worker' \in Leaving
         /\ UNCHANGED thread_signal \/ worker' = "done"
<1> USE DEF Leaving, config, events
<1>1. CASE ReadSettings
  BY <1>1 DEF ReadSettings, TestFile, TestAgain, TruncateFile, WriteDefaults, ReadFile
<1>2. CASE InitProcesses
  BY <1>2 DEF InitProcesses, Die
<1>3. CASE Wait
  <2> PICK timeout \in TimesOut(stop_event, stop_signal) :
        worker' = IF timeout THEN "check" ELSE "destroy"
    BY <1>3 DEF Wait
  <2>1. timeout \in BOOLEAN
    BY TimesOutType DEF WorkerInv
  <2>2. worker' = "check" \/ (worker' = "destroy" /\ timeout = FALSE)
    BY <2>1
  <2> QED
    BY <1>3, <2>2 DEF Wait
<1>4. CASE Check \/ Work
  BY <1>4 DEF Check, Work, Die
<1>5. CASE DestroyProcesses \/ TestThreadStop
  BY <1>5 DEF DestroyProcesses, TestThreadStop
<1>6. CASE Signal
  BY <1>6 DEF Signal
<1>7. CASE CollectorThread
  BY <1>7 DEF CollectorThread, Die
<1> QED
  BY <1>1, <1>2, <1>3, <1>4, <1>5, <1>6, <1>7 DEF WorkerThread

\* What the program around the worker may do to what they share.
LEMMA OutsideInv ==
  ASSUME WorkerInv,
         file' \in Contents \cup {Absent, NotJson, Defaults},
         alive' \in BOOLEAN, logger' \in {"open", "destroyed"},
         stop_event' \in Handle, stop_signal' \in BOOLEAN,
         thread_stop' \in Handle, thread_signal' \in BOOLEAN,
         worker' = worker \/ (worker = "none" /\ worker' = "settings"),
         UNCHANGED <<monitor, is_collect, collector_thread_id, collector, access, settings>>
  PROVE  WorkerInv'
BY DEF WorkerInv, WorkerTypeOK, MonitorInv, PlaceInv, BeforeInit

\* With a worker that is not there or through, nothing is left to run.
LEMMA WorkerThrough ==
  ASSUME WorkerInv, worker \in {"none", "done"}
  PROVE  Stopped
BY DEF WorkerInv, WorkerTypeOK, MonitorInv, Stopped

\* While the numbers make sense, neither thread ends the process.
LEMMA NobodyDies ==
  ASSUME WorkerInv, WorkerThread \/ CollectorThread, worker \in {"init", "wait", "check", "work"},
         Reasonable(settings)
  PROVE  alive'
<1>1. PICK c \in Contents \cup {Defaults} : settings = Values(c)
  BY DEF WorkerInv, PlaceInv, BeforeInit, SettingsRead
<1>2. /\ ~Traps(settings) /\ RingsExist(settings) /\ RingsHaveSlots(settings)
      /\ CountersExist(settings) /\ CountersHaveSlots(settings)
  BY <1>1, ReasonableSlots
<1>3. alive
  BY DEF WorkerThread, CollectorThread
<1>4. CASE CollectorThread
  BY <1>2, <1>3, <1>4 DEF CollectorThread
<1>5. CASE InitProcesses \/ Wait \/ Check \/ Work
  BY <1>2, <1>3, <1>5 DEF InitProcesses, Wait, Check, Work
<1>6. CASE ReadSettings \/ DestroyProcesses \/ TestThreadStop \/ Signal
  BY <1>6 DEF ReadSettings, TestFile, TestAgain, TruncateFile, WriteDefaults, ReadFile,
              DestroyProcesses, TestThreadStop, Signal
<1> QED
  BY <1>4, <1>5, <1>6 DEF WorkerThread

-----------------------------------------------------------------------------
(* The service. *)

StateName == {"none", "start_pending", "running", "stop_pending", "stopped"}
Late == {"report", "message", "returned"}

ServiceStatus == [state : StateName, accepts : BOOLEAN]

ServiceType ==
  /\ status \in ServiceStatus /\ reported \in ServiceStatus
  /\ service \in {"register", "event", "run", "create", "wait", "close", "stop", "report",
                  "message", "returned"}
  /\ created \in BOOLEAN
  /\ handler \in {"idle", "pending", "report", "set"}
  /\ wmain \in {"dispatch", "returned"} /\ meddling \in 0 .. MaxMeddling

\* What ServiceMain has written into the status by each point of it.
StatusInv ==
  /\ service = "register" => status.state = "none"
  /\ service \in {"event", "run"} => status.state = "start_pending"
  /\ service \in {"create", "wait", "close", "stop"} => status.state \in {"running", "stop_pending"}
  /\ service \in Late => status.state \in {"none", "stopped", "stop_pending"}
  /\ service \notin Late => status.state # "stopped" /\ reported.state # "stopped"

\* The handler is called once: when it has said that the stop is pending, the service
\* does not run any more, and the event is the last thing the handler sets.
HandlerInv ==
  /\ service \in {"register", "event", "run"} => handler = "idle" /\ ~stop_signal
  /\ handler # "idle" => ~stop_signal
  /\ handler \in {"report", "set"} \/ stop_signal => status.state \in {"stop_pending", "stopped"}

\* ServiceMain goes on when the worker, if there is one, is through, and the worker
\* leaves because the event is set; until then the event is open.
WaitInv ==
  /\ created <=> worker # "none"
  /\ created => service \in {"wait", "close", "stop"} \cup Late
  /\ service = "wait" => created
  /\ created /\ service # "wait" => worker = "done"
  /\ service \in {"run", "create", "wait", "close"} => stop_event = "open"
  /\ worker \in Leaving => stop_signal

\* The manager knows of no state that the service has not been in.
ReportInv ==
  /\ created \/ service \in {"register", "event", "run", "create"} => Rank(reported) <= Rank(status)
  /\ created /\ service \in Late => status.state = "stopped"

\* The logger goes when the service has stopped.
EndInv ==
  /\ wmain = "returned" \/ logger = "destroyed" => service \in Late /\ handler = "idle"
  /\ logger = "destroyed" => wmain = "returned"

ServiceInv ==
  WorkerInv /\ ServiceType /\ StatusInv /\ HandlerInv /\ WaitInv /\ ReportInv /\ EndInv

\* The names of the states of a service.
LEMMA StateNames == {States[k] : k \in 1 .. 5} = StateName
<1>1. \A k \in 1 .. 5 : k = 1 \/ k = 2 \/ k = 3 \/ k = 4 \/ k = 5
  OBVIOUS
<1>2. /\ States[1] = "none" /\ States[2] = "start_pending" /\ States[3] = "running"
      /\ States[4] = "stop_pending" /\ States[5] = "stopped"
  BY DEF States
<1> QED
  BY <1>1, <1>2 DEF StateName

\* The rank of each state.
LEMMA RankOf ==
  ASSUME NEW s \in ServiceStatus
  PROVE  /\ Rank(s) \in 1 .. 5
         /\ s.state = "none" => Rank(s) = 1
         /\ s.state = "start_pending" => Rank(s) = 2
         /\ s.state = "running" => Rank(s) = 3
         /\ s.state = "stop_pending" => Rank(s) = 4
         /\ s.state = "stopped" => Rank(s) = 5
<1>1. /\ States[1] = "none" /\ States[2] = "start_pending" /\ States[3] = "running"
      /\ States[4] = "stop_pending" /\ States[5] = "stopped"
  BY DEF States
<1>2. \E k \in 1 .. 5 : States[k] = s.state
  BY <1>1 DEF ServiceStatus, StateName
<1>3. Rank(s) \in 1 .. 5 /\ States[Rank(s)] = s.state
  BY <1>2 DEF Rank
<1> QED
  BY <1>1, <1>3

\* The statuses the program makes.
LEMMA StatusOf ==
  ASSUME NEW x \in StateName
  PROVE  /\ Status(x, FALSE) \in ServiceStatus /\ Status(x, TRUE) \in ServiceStatus
         /\ Status(x, FALSE).state = x /\ Status(x, TRUE).state = x
BY DEF Status, ServiceStatus

\* A report of a status that has not gone back does not run ahead of it.
LEMMA ReportKept ==
  ASSUME ServiceType, ServiceType', Rank(reported) <= Rank(status),
         Rank(status) <= Rank(status'), reported' \in {status', reported}
  PROVE  Rank(reported') <= Rank(status')
<1>1. Rank(reported) \in 1 .. 5 /\ Rank(status) \in 1 .. 5 /\ Rank(status') \in 1 .. 5
  BY RankOf DEF ServiceType
<1>2. reported' = status' \/ reported' = reported
  OBVIOUS
<1>3. CASE reported' = status'
  BY <1>1, <1>3
<1>4. CASE reported' = reported
  BY <1>1, <1>4
<1> QED
  BY <1>2, <1>3, <1>4

\* The program starts with nothing done.
LEMMA InitServiceInv == Init => ServiceInv
<1> SUFFICES ASSUME Init PROVE ServiceInv
  OBVIOUS
<1>1. WorkerInv
  BY InitWorkerInv DEF Init
<1> USE DEF StateName
<1>2. ServiceType
  <2>1. meddling \in 0 .. MaxMeddling
    BY MeddlingAssumption DEF Init
  <2> QED
    BY <2>1, StatusOf DEF Init, ServiceType
<1>3. StatusInv
  BY StatusOf DEF Init, StatusInv, Late
<1>4. HandlerInv /\ WaitInv /\ EndInv
  BY DEF Init, InitWorker, HandlerInv, WaitInv, EndInv, Late, Leaving
<1>5. ReportInv
  <2>1. Rank(status) = 1 /\ Rank(reported) = 1
    BY StatusOf, RankOf DEF Init
  <2>2. service = "register" /\ ~created
    BY DEF Init
  <2> QED
    BY <2>1, <2>2 DEF ReportInv, Late
<1> QED
  BY <1>1, <1>2, <1>3, <1>4, <1>5 DEF ServiceInv

\* A step of the worker or of the collector.
LEMMA ThreadsServiceInv ==
  ASSUME ServiceInv, WorkerThread \/ CollectorThread, Others
  PROVE  ServiceInv'
<1> USE DEF ServiceInv
<1>1. WorkerInv'
  BY ThreadsWorkerInv
<1>2. UNCHANGED <<status, reported, service, created, handler, wmain, meddling, logger,
                  stop_event, stop_signal>>
  BY ThreadSteps DEF Others, service_vars
<1>3. ServiceType' /\ StatusInv' /\ HandlerInv' /\ ReportInv' /\ EndInv'
  BY <1>2 DEF ServiceType, StatusInv, HandlerInv, ReportInv, EndInv
<1>4. worker \in {"wait", "check"} => stop_event = "open"
  BY DEF WaitInv, ServiceType, Late, Leaving
<1>5. WaitInv'
  <2>1. worker' \in Leaving => stop_signal
    <3>1. CASE worker \in Leaving
      BY <3>1 DEF WaitInv
    <3>2. CASE worker \notin Leaving /\ worker' \in Leaving
      <4>1. worker = "wait" /\ FALSE \in TimesOut(stop_event, stop_signal) /\ stop_event = "open"
        BY <1>4, <3>2, ThreadSteps
      <4>2. FALSE \in {~stop_signal}
        BY <4>1 DEF TimesOut
      <4> QED
        BY <4>2, Zenon
    <3> QED
      BY <3>1, <3>2
  <2> QED
    BY <1>2, <2>1, ThreadSteps DEF WaitInv
<1> QED
  BY <1>1, <1>3, <1>5

\* ServiceMain up to the worker.
LEMMA StartServiceInv ==
  ASSUME ServiceInv, Register \/ CreateStopEvent \/ Run \/ CreateWorker
  PROVE  ServiceInv'
<1> USE DEF ServiceInv, Late, StateName, SetServiceStatus
<1>1. CASE Register
  <2>1. WorkerInv' /\ UNCHANGED <<stop_event, stop_signal, worker, logger>>
    BY <1>1, WorkerInvStutter DEF Register, worker_vars, events
  <2>2. ServiceType'
    <3>1. status' \in ServiceStatus
      BY <1>1, StatusOf DEF Register, ServiceType
    <3> QED
      BY <1>1, <3>1 DEF Register, ServiceType
  <2>3. StatusInv' /\ HandlerInv' /\ WaitInv' /\ EndInv'
    BY <1>1, <2>1, StatusOf DEF Register, StatusInv, HandlerInv, WaitInv, EndInv
  <2>4. ReportInv'
    <3>1. CASE status' = Status("start_pending", FALSE)
      <4>1. Rank(status) = 1 /\ Rank(status') = 2
        BY <1>1, <3>1, RankOf, StatusOf DEF Register, ServiceType, StatusInv
      <4>2. reported' \in {status', reported} /\ Rank(reported) <= Rank(status)
        BY <1>1, <3>1 DEF Register, ReportInv
      <4>3. Rank(reported') <= Rank(status')
        BY <2>2, <4>1, <4>2, ReportKept
      <4> QED
        BY <1>1, <4>3 DEF Register, ReportInv, WaitInv
    <3>2. CASE UNCHANGED <<status, reported>>
      BY <1>1, <3>2 DEF Register, ReportInv, WaitInv
    <3> QED
      BY <1>1, <3>1, <3>2 DEF Register
  <2> QED
    BY <2>1, <2>2, <2>3, <2>4
<1>2. CASE CreateStopEvent
  <2>1. WorkerInv' /\ UNCHANGED <<stop_signal, worker, logger>>
    BY <1>2, OutsideInv DEF CreateStopEvent, handshake, config, WorkerInv, WorkerTypeOK, Handle
  <2>2. ServiceType'
    <3>1. status' \in ServiceStatus
      BY <1>2, StatusOf DEF CreateStopEvent, ServiceType
    <3> QED
      BY <1>2, <3>1 DEF CreateStopEvent, ServiceType
  <2>3. StatusInv'
    BY <1>2, StatusOf DEF CreateStopEvent, StatusInv
  <2>5. HandlerInv' /\ EndInv'
    <3>1. /\ service = "event" /\ service' \in {"run", "message"} /\ UNCHANGED <<handler, wmain>>
          /\ handler = "idle" /\ ~stop_signal /\ wmain # "returned" /\ logger # "destroyed"
      BY <1>2 DEF CreateStopEvent, HandlerInv, EndInv
    <3> QED
      BY <2>1, <3>1 DEF HandlerInv, EndInv
  <2>6. WaitInv'
    <3>1. /\ service' \in {"run", "message"}
          /\ service' = "run" => stop_event' = "open"
          /\ ~created /\ ~created' /\ worker = "none"
      BY <1>2 DEF CreateStopEvent, WaitInv
    <3> QED
      BY <2>1, <3>1 DEF WaitInv, Leaving
  <2>4. ReportInv'
    BY <1>2, <2>2, RankOf, StatusOf DEF CreateStopEvent, ServiceType, StatusInv, WaitInv, ReportInv
  <2> QED
    BY <2>1, <2>2, <2>3, <2>4, <2>5, <2>6
<1>3. CASE Run
  <2>1. WorkerInv' /\ UNCHANGED <<stop_event, stop_signal, worker, logger>>
    BY <1>3, WorkerInvStutter DEF Run, worker_vars, events
  <2>2. ServiceType'
    <3>1. status' \in ServiceStatus
      BY <1>3, StatusOf DEF Run, ServiceType
    <3> QED
      BY <1>3, <3>1 DEF Run, ServiceType
  <2>3. StatusInv' /\ HandlerInv' /\ WaitInv' /\ EndInv'
    BY <1>3, <2>1, StatusOf DEF Run, StatusInv, HandlerInv, WaitInv, EndInv
  <2>4. ReportInv'
    <3>1. Rank(status) = 2 /\ Rank(status') = 3
      BY <1>3, RankOf, StatusOf DEF Run, ServiceType, StatusInv
    <3>2. reported' \in {status', reported} /\ Rank(reported) <= Rank(status)
      BY <1>3 DEF Run, ReportInv
    <3>3. Rank(reported') <= Rank(status')
      BY <2>2, <3>1, <3>2, ReportKept
    <3> QED
      BY <1>3, <3>3 DEF Run, ReportInv, WaitInv
  <2> QED
    BY <2>1, <2>2, <2>3, <2>4
<1>4. CASE CreateWorker
  <2>1. worker = "none" /\ ~created
    BY <1>4 DEF CreateWorker, WaitInv
  <2>2. WorkerInv' /\ UNCHANGED <<stop_event, stop_signal, logger>>
    BY <1>4, <2>1, OutsideInv DEF CreateWorker, handshake, config, events, WorkerInv, WorkerTypeOK
  <2>3. ServiceType' /\ StatusInv' /\ HandlerInv' /\ EndInv'
    BY <1>4, <2>2 DEF CreateWorker, ServiceType, StatusInv, HandlerInv, EndInv
  <2>4. WaitInv'
    BY <1>4, <2>1, <2>2 DEF CreateWorker, WaitInv, Leaving
  <2>5. ReportInv'
    BY <1>4 DEF CreateWorker, ReportInv
  <2> QED
    BY <2>2, <2>3, <2>4, <2>5
<1> QED
  BY <1>1, <1>2, <1>3, <1>4

\* ServiceMain from the wait on.
LEMMA EndServiceInv ==
  ASSUME ServiceInv, AwaitWorker \/ CloseStopEvent \/ Stop \/ ReportStopped \/ LastMessage
  PROVE  ServiceInv'
<1> USE DEF ServiceInv, Late, StateName, SetServiceStatus
<1>1. CASE AwaitWorker \/ LastMessage
  <2>1. WorkerInv' /\ UNCHANGED <<stop_event, stop_signal, worker, logger>>
    BY <1>1, WorkerInvStutter DEF AwaitWorker, LastMessage, worker_vars, events
  <2>2. /\ \/ service = "wait" /\ worker = "done" /\ service' = "close"
           \/ service = "message" /\ service' = "returned"
        /\ UNCHANGED <<status, reported, created, handler, wmain, meddling>>
    BY <1>1 DEF AwaitWorker, LastMessage
  <2>3. ServiceType' /\ StatusInv'
    BY <2>2 DEF ServiceType, StatusInv
  <2>4. HandlerInv' /\ WaitInv' /\ EndInv'
    BY <2>1, <2>2 DEF HandlerInv, WaitInv, EndInv
  <2>5. ReportInv'
    BY <2>2 DEF ReportInv
  <2> QED
    BY <2>1, <2>3, <2>4, <2>5
<1>2. CASE CloseStopEvent
  <2>1. WorkerInv' /\ UNCHANGED <<stop_signal, worker, logger>>
    BY <1>2, OutsideInv DEF CloseStopEvent, handshake, config, WorkerInv, WorkerTypeOK, Handle
  <2>2. /\ service = "close" /\ service' = "stop"
        /\ UNCHANGED <<status, reported, created, handler, wmain, meddling>>
    BY <1>2 DEF CloseStopEvent
  <2>3. ServiceType' /\ StatusInv'
    BY <2>2 DEF ServiceType, StatusInv
  <2>4. HandlerInv' /\ WaitInv' /\ EndInv'
    BY <2>1, <2>2 DEF HandlerInv, WaitInv, EndInv
  <2>5. ReportInv'
    BY <2>2 DEF ReportInv
  <2> QED
    BY <2>1, <2>3, <2>4, <2>5
<1>3. CASE Stop
  <2>1. WorkerInv' /\ UNCHANGED <<stop_event, stop_signal, worker, logger>>
    BY <1>3, WorkerInvStutter DEF Stop, worker_vars, events
  <2>2. /\ service = "stop" /\ service' = "report"
        /\ status' \in ServiceStatus /\ status'.state = "stopped"
        /\ UNCHANGED <<reported, created, handler, wmain, meddling>>
    BY <1>3, StatusOf DEF Stop
  <2>3. ServiceType' /\ StatusInv'
    BY <2>2 DEF ServiceType, StatusInv
  <2>4. HandlerInv' /\ WaitInv' /\ EndInv'
    BY <2>1, <2>2 DEF HandlerInv, WaitInv, EndInv
  <2>5. Rank(status') = 5 /\ Rank(reported') <= 5
    BY <2>2, RankOf DEF ServiceType
  <2>6. ReportInv'
    BY <2>2, <2>5 DEF ReportInv
  <2> QED
    BY <2>1, <2>3, <2>4, <2>6
<1>4. CASE ReportStopped
  <2>1. WorkerInv' /\ UNCHANGED <<stop_event, stop_signal, worker, logger>>
    BY <1>4, WorkerInvStutter DEF ReportStopped, worker_vars, events
  <2>2. /\ service = "report" /\ service' = "message" /\ reported' \in {status', reported}
        /\ UNCHANGED <<status, created, handler, wmain, meddling>>
    BY <1>4 DEF ReportStopped
  <2>3. ServiceType' /\ StatusInv'
    BY <2>2 DEF ServiceType, StatusInv
  <2>4. HandlerInv' /\ WaitInv' /\ EndInv'
    BY <2>1, <2>2 DEF HandlerInv, WaitInv, EndInv
  <2>5. ReportInv'
    <3>1. CASE created
      <4>1. Rank(status) = Rank(status') /\ Rank(status) \in 1 .. 5
        BY <2>2, RankOf DEF ServiceType
      <4>2. Rank(reported') <= Rank(status')
        BY <2>2, <2>3, <3>1, <4>1, ReportKept DEF ReportInv
      <4> QED
        BY <2>2, <4>2 DEF ReportInv
    <3>2. CASE ~created
      BY <2>2, <3>2 DEF ReportInv
    <3> QED
      BY <3>1, <3>2
  <2> QED
    BY <2>1, <2>3, <2>4, <2>5
<1> QED
  BY <1>1, <1>2, <1>3, <1>4

\* The handler, which may say that the stop is pending after ServiceMain has said
\* that it has stopped, but not while there is a worker.
LEMMA HandlerServiceInv ==
  ASSUME ServiceInv, ControlStop \/ StopPending \/ ReportPending \/ SetStopEvent
  PROVE  ServiceInv'
<1> USE DEF ServiceInv, Late, StateName, SetServiceStatus
<1>1. CASE ControlStop
  <2>1. WorkerInv' /\ UNCHANGED <<stop_event, stop_signal, worker, logger>>
    BY <1>1, WorkerInvStutter DEF ControlStop, worker_vars, events
  <2>2. /\ handler = "idle" /\ handler' = "pending" /\ status.state = "running"
        /\ wmain = "dispatch"
        /\ UNCHANGED <<status, reported, service, created, wmain, meddling>>
    BY <1>1 DEF ControlStop
  <2>3. ServiceType' /\ StatusInv' /\ ReportInv'
    BY <2>2 DEF ServiceType, StatusInv, ReportInv
  <2>4. service \notin {"register", "event", "run"} \cup Late /\ ~stop_signal
    BY <2>2 DEF StatusInv, HandlerInv
  <2>5. HandlerInv' /\ WaitInv' /\ EndInv'
    BY <2>1, <2>2, <2>4 DEF HandlerInv, WaitInv, EndInv
  <2> QED
    BY <2>1, <2>3, <2>5
<1>2. CASE StopPending
  <2>1. WorkerInv' /\ UNCHANGED <<stop_event, stop_signal, worker, logger>>
    BY <1>2, WorkerInvStutter DEF StopPending, worker_vars, events
  <2>2. /\ handler = "pending" /\ handler' = "report"
        /\ status' \in ServiceStatus /\ status'.state = "stop_pending"
        /\ UNCHANGED <<reported, service, created, wmain, meddling>>
    BY <1>2, StatusOf DEF StopPending
  <2>3. service \notin {"register", "event", "run"} /\ ~stop_signal
    BY <2>2 DEF HandlerInv
  <2>4. ServiceType' /\ StatusInv'
    BY <2>2, <2>3 DEF ServiceType, StatusInv
  <2>5. HandlerInv' /\ WaitInv' /\ EndInv'
    BY <2>1, <2>2, <2>3 DEF HandlerInv, WaitInv, EndInv
  <2>6. created => service = "wait"
    BY <2>3 DEF WaitInv, Leaving
  <2>7. Rank(status') = 4 /\ Rank(reported) \in 1 .. 5
    BY <2>2, RankOf DEF ServiceType
  <2>8. service \notin Late => Rank(reported) # 5
    BY RankOf DEF ServiceType, StatusInv, ServiceStatus
  <2>9. ReportInv'
    BY <2>2, <2>3, <2>6, <2>7, <2>8 DEF ReportInv
  <2> QED
    BY <2>1, <2>4, <2>5, <2>9
<1>3. CASE ReportPending
  <2>1. WorkerInv' /\ UNCHANGED <<stop_event, stop_signal, worker, logger>>
    BY <1>3, WorkerInvStutter DEF ReportPending, worker_vars, events
  <2>2. /\ handler = "report" /\ handler' = "set" /\ reported' \in {status', reported}
        /\ UNCHANGED <<status, service, created, wmain, meddling>>
    BY <1>3 DEF ReportPending
  <2>3. ServiceType' /\ StatusInv'
    BY <2>2 DEF ServiceType, StatusInv
  <2>4. HandlerInv' /\ WaitInv' /\ EndInv'
    BY <2>1, <2>2 DEF HandlerInv, WaitInv, EndInv
  <2>5. ReportInv'
    <3>1. Rank(status) = Rank(status') /\ Rank(status) \in 1 .. 5
      BY <2>2, RankOf DEF ServiceType
    <3>2. Rank(reported) <= Rank(status) => Rank(reported') <= Rank(status')
      BY <2>2, <2>3, <3>1, ReportKept
    <3> QED
      BY <2>2, <3>2 DEF ReportInv
  <2> QED
    BY <2>1, <2>3, <2>4, <2>5
<1>4. CASE SetStopEvent
  <2>1. stop_signal' \in BOOLEAN
    BY <1>4, Zenon DEF SetStopEvent
  <2>2. WorkerInv' /\ UNCHANGED <<stop_event, worker, logger>>
    BY <1>4, <2>1, OutsideInv DEF SetStopEvent, handshake, config, WorkerInv, WorkerTypeOK
  <2>3. /\ handler = "set" /\ handler' = "idle"
        /\ UNCHANGED <<status, reported, service, created, wmain, meddling>>
    BY <1>4 DEF SetStopEvent
  <2>4. ServiceType' /\ StatusInv' /\ ReportInv' /\ EndInv'
    BY <2>2, <2>3 DEF ServiceType, StatusInv, ReportInv, EndInv
  <2>5. HandlerInv'
    BY <2>3 DEF HandlerInv
  <2>6. WaitInv'
    BY <2>2, <2>3 DEF WaitInv, HandlerInv
  <2> QED
    BY <2>2, <2>4, <2>5, <2>6
<1> QED
  BY <1>1, <1>2, <1>3, <1>4

\* The end of the process, and what is done to it from outside.
LEMMA OutsideServiceInv ==
  ASSUME ServiceInv, Return \/ End \/ EditFile \/ Kill \/ Restart
  PROVE  ServiceInv'
<1> USE DEF ServiceInv, Late, StateName
<1>1. CASE Return
  <2>1. WorkerInv' /\ UNCHANGED <<stop_event, stop_signal, worker>>
    BY <1>1, OutsideInv DEF Return, handshake, config, events, WorkerInv, WorkerTypeOK
  <2>2. /\ wmain' = "returned" /\ handler = "idle" /\ reported.state = "stopped"
        /\ UNCHANGED <<status, reported, service, created, handler, meddling>>
    BY <1>1 DEF Return
  <2>3. ServiceType' /\ StatusInv' /\ ReportInv'
    BY <2>2 DEF ServiceType, StatusInv, ReportInv
  <2>4. HandlerInv' /\ WaitInv' /\ EndInv'
    BY <2>1, <2>2 DEF HandlerInv, WaitInv, EndInv, StatusInv
  <2> QED
    BY <2>1, <2>3, <2>4
<1>2. CASE End \/ EditFile \/ Kill
  <2>1. alive' \in BOOLEAN /\ file' \in Contents \cup {Absent, NotJson, Defaults}
    BY <1>2 DEF End, EditFile, Kill, config, WorkerInv, WorkerTypeOK
  <2>2. /\ UNCHANGED <<monitor, is_collect, collector_thread_id, collector, access, settings, logger,
                       worker, stop_event, stop_signal, thread_stop, thread_signal>>
        /\ UNCHANGED <<status, reported, service, created, handler, wmain>>
    BY <1>2 DEF End, EditFile, Kill, handshake, config, events, service_vars
  <2>3. WorkerInv'
    BY <2>1, <2>2, OutsideInv DEF WorkerInv, WorkerTypeOK
  <2>4. meddling' \in 0 .. MaxMeddling
    BY <1>2, MeddlingAssumption DEF End, EditFile, Kill, service_vars, ServiceType
  <2>5. ServiceType' /\ StatusInv' /\ ReportInv'
    BY <2>2, <2>4 DEF ServiceType, StatusInv, ReportInv
  <2>6. HandlerInv' /\ WaitInv' /\ EndInv'
    BY <2>2 DEF HandlerInv, WaitInv, EndInv
  <2> QED
    BY <2>3, <2>5, <2>6
<1>3. CASE Restart
  <2>1. /\ monitor' = "init" /\ collector_thread_id' = None /\ collector' = None
        /\ is_collect' \in BOOLEAN /\ alive' \in BOOLEAN /\ stop_signal' \in BOOLEAN
        /\ thread_signal' \in BOOLEAN
        /\ settings' = NoValues /\ logger' = "open"
        /\ stop_event' = "invalid" /\ thread_stop' = "invalid" /\ worker' = "none"
        /\ UNCHANGED <<file, access, meddling>>
    BY <1>3 DEF Restart
  <2>2. /\ status' = Status("none", FALSE) /\ reported' = Status("none", FALSE)
        /\ service' = "register" /\ handler' = "idle" /\ wmain' = "dispatch"
        /\ created' \in BOOLEAN /\ ~created' /\ ~stop_signal'
    BY <1>3 DEF Restart
  <2>3. WorkerInv'
    BY <2>1 DEF WorkerInv, WorkerTypeOK, MonitorInv, PlaceInv, BeforeInit, Handle, None
  <2>4. /\ status' \in ServiceStatus /\ reported' \in ServiceStatus
        /\ status'.state = "none" /\ reported'.state = "none"
    BY <2>2, StatusOf
  <2>5. ServiceType' /\ StatusInv'
    BY <2>1, <2>2, <2>4 DEF ServiceType, StatusInv
  <2>6. HandlerInv' /\ WaitInv' /\ EndInv'
    BY <2>1, <2>2 DEF HandlerInv, WaitInv, EndInv, Leaving
  <2>7. ReportInv'
    <3>1. Rank(status') \in 1 .. 5 /\ reported' = status'
      BY <2>2, <2>4, RankOf
    <3>2. Rank(reported') <= Rank(status')
      BY <3>1
    <3> QED
      BY <2>2, <3>2 DEF ReportInv
  <2> QED
    BY <2>3, <2>5, <2>6, <2>7
<1> QED
  BY <1>1, <1>2, <1>3

\* Every step of the service keeps the invariant.
LEMMA NextServiceInv == ServiceInv /\ [Next]_vars => ServiceInv'
<1>1. ASSUME ServiceInv, UNCHANGED vars
      PROVE  ServiceInv'
  <2>1. WorkerInv' /\ UNCHANGED <<stop_event, stop_signal, worker, logger>>
    BY <1>1, WorkerInvStutter DEF ServiceInv, vars, worker_vars, events
  <2>2. UNCHANGED <<status, reported, service, created, handler, wmain, meddling>>
    BY <1>1 DEF vars, service_vars
  <2> QED
    BY <1>1, <2>1, <2>2 DEF ServiceInv, ServiceType, StatusInv, HandlerInv, WaitInv, ReportInv, EndInv
<1> QED
  BY <1>1, ThreadsServiceInv, StartServiceInv, EndServiceInv, HandlerServiceInv, OutsideServiceInv
     DEF Next, ServiceMain, ServiceCtrlHandler, Main

\* The worker, ServiceMain and the handler agree at every moment on who still may
\* write the status and use the event, whatever fails, and across restarts
\* (main.cpp:331-461).
THEOREM ServiceInvariant == Spec => []ServiceInv
<1>1. Init => ServiceInv
  BY InitServiceInv
<1>2. ServiceInv /\ [Next]_vars => ServiceInv'
  BY NextServiceInv
<1> QED
  BY <1>1, <1>2, PTL DEF Spec

\* The variables keep their types, and the monitor lives as long as the worker works
\* with it, for every content of the file.
THEOREM ServiceTypeOK == Spec => []TypeOK
<1>1. ServiceInv => TypeOK
  BY StateNames DEF ServiceInv, WorkerInv, ServiceType, ServiceStatus, TypeOK
<1> QED
  BY <1>1, ServiceInvariant, PTL

\* The handler never sets an event that ServiceMain has closed, as long as there is a
\* worker to wait for (main.cpp:423-425 and 441-461).
THEOREM StopEventOpenAlways == Spec => []StopEventOpen
<1>1. ServiceInv => StopEventOpen
  <2> SUFFICES ASSUME ServiceInv, handler # "idle", created PROVE stop_event = "open"
    BY DEF StopEventOpen
  <2>1. ~stop_signal
    BY DEF ServiceInv, HandlerInv
  <2>2. service = "wait"
    BY <2>1 DEF ServiceInv, WaitInv, Leaving
  <2> QED
    BY <2>2 DEF ServiceInv, WaitInv
<1> QED
  BY <1>1, ServiceInvariant, PTL

\* When the manager knows that the service has stopped, and when the logger is
\* destroyed, no pass is under way, the collector is through and the handler has
\* returned (main.cpp:423-438; perf_monitor.cpp:17-21).
THEOREM StoppedMeansStoppedAlways == Spec => []StoppedMeansStopped
<1>1. ServiceInv => StoppedMeansStopped
  <2> SUFFICES ASSUME ServiceInv PROVE StoppedMeansStopped
    OBVIOUS
  <2>1. service \in Late => Stopped
    <3> SUFFICES ASSUME service \in Late PROVE Stopped
      OBVIOUS
    <3>1. worker \in {"none", "done"}
      BY DEF ServiceInv, WaitInv, Late
    <3> QED
      BY <3>1, WorkerThrough DEF ServiceInv
  <2>2. reported.state = "stopped" => service \in Late
    BY DEF ServiceInv, StatusInv
  <2>3. logger = "destroyed" => service \in Late /\ handler = "idle"
    BY DEF ServiceInv, EndInv
  <2> QED
    BY <2>1, <2>2, <2>3 DEF StoppedMeansStopped
<1> QED
  BY <1>1, ServiceInvariant, PTL

\* The filter of a worker that works is never empty, whatever the file says
\* (settings.cpp:95-103).
THEOREM FilterNotEmptyAlways == Spec => []FilterNotEmpty
<1>1. ServiceInv => FilterNotEmpty
  <2> SUFFICES ASSUME ServiceInv, worker \in {"init", "wait", "check", "work"}
               PROVE  settings.processes # {}
    BY DEF FilterNotEmpty
  <2>1. PICK c \in Contents \cup {Defaults} : settings = Values(c)
    BY DEF ServiceInv, WorkerInv, PlaceInv, BeforeInit, SettingsRead
  <2> QED
    BY <2>1, ValuesType
<1> QED
  BY <1>1, ServiceInvariant, PTL

\* With a worker to wait for, no step takes the status or what the manager knows of
\* it back.
LEMMA StepForward ==
  ASSUME ServiceInv, [Next]_vars, created, alive
  PROVE  Rank(reported') >= Rank(reported) /\ Rank(status') >= Rank(status)
<1> USE DEF ServiceInv
<1>1. Rank(reported) \in 1 .. 5 /\ Rank(status) \in 1 .. 5
  BY RankOf DEF ServiceType
<1>2. service \in {"wait", "close", "stop"} \cup Late /\ Rank(reported) <= Rank(status)
  BY DEF WaitInv, ReportInv
<1>3. CASE UNCHANGED <<status, reported>>
  BY <1>1, <1>3
<1>4. CASE Register \/ CreateStopEvent \/ Run
  BY <1>2, <1>4 DEF Register, CreateStopEvent, Run, Late
<1>5. CASE CreateWorker \/ AwaitWorker \/ CloseStopEvent \/ LastMessage \/ ControlStop
           \/ SetStopEvent \/ Return \/ End \/ EditFile \/ Kill
  BY <1>3, <1>5 DEF CreateWorker, AwaitWorker, CloseStopEvent, LastMessage, ControlStop,
                    SetStopEvent, Return, End, EditFile, Kill, service_vars
<1>6. CASE ReportStopped \/ ReportPending
  <2>1. status' = status /\ reported' \in {status, reported}
    BY <1>6 DEF ReportStopped, ReportPending, SetServiceStatus
  <2> QED
    BY <1>1, <1>2, <2>1
<1>7. CASE Stop
  <2>1. reported' = reported /\ Rank(status') = 5
    BY <1>7, StatusOf, RankOf DEF Stop, StateName
  <2> QED
    BY <1>1, <2>1
<1>8. CASE StopPending
  <2>1. reported' = reported /\ Rank(status') = 4 /\ handler = "pending"
    BY <1>8, StatusOf, RankOf DEF StopPending, StateName
  <2>2. service = "wait"
    BY <1>2, <2>1 DEF HandlerInv, WaitInv, Leaving
  <2>3. Rank(status) <= 4
    BY <2>2, RankOf DEF ServiceType, StatusInv
  <2> QED
    BY <1>1, <2>1, <2>3
<1>9. CASE Restart
  BY <1>9 DEF Restart
<1>10. CASE (WorkerThread /\ Others) \/ (CollectorThread /\ Others) \/ UNCHANGED vars
  BY <1>3, <1>10 DEF Others, service_vars, vars
<1> QED
  BY <1>4, <1>5, <1>6, <1>7, <1>8, <1>9, <1>10 DEF Next, ServiceMain, ServiceCtrlHandler, Main

\* What the manager is told never goes back, although two threads write and report
\* the status without a lock, and any of the reports may fail (main.cpp:374-461).
THEOREM StatusForwardAlways == Spec => StatusForward
<1>1. ServiceInv /\ [Next]_vars =>
        [created /\ alive => Rank(reported') >= Rank(reported) /\ Rank(status') >= Rank(status)]_vars
  BY StepForward
<1> QED
  BY <1>1, ServiceInvariant, PTL DEF Spec, StatusForward

\* A step that ends the process while it works is a kill, or the numbers make no
\* sense.
LEMMA StepAlive ==
  ASSUME ServiceInv, [Next]_vars, alive, ~alive', meddling' = meddling,
         worker \in {"init", "wait", "check", "work"}
  PROVE  ~Reasonable(settings)
<1> USE DEF ServiceInv
<1>1. CASE (WorkerThread \/ CollectorThread) /\ Others
  BY <1>1, NobodyDies
<1>2. CASE UNCHANGED alive
  BY <1>2
<1>3. CASE ServiceMain \/ ControlStop \/ ServiceCtrlHandler \/ Return \/ EditFile \/ UNCHANGED vars
  BY <1>2, <1>3 DEF ServiceMain, Register, CreateStopEvent, Run, CreateWorker, AwaitWorker,
       CloseStopEvent, Stop, ReportStopped, LastMessage, ControlStop, ServiceCtrlHandler,
       StopPending, ReportPending, SetStopEvent, Return, EditFile, worker_vars, vars
<1>4. CASE End
  BY <1>4 DEF End, EndInv, WaitInv, Late
<1>5. CASE Kill
  BY <1>5 DEF Kill, ServiceType
<1>6. CASE Restart
  BY <1>6 DEF Restart
<1> QED
  BY <1>1, <1>3, <1>4, <1>5, <1>6 DEF Next, Main

\* With numbers that make sense nothing but a kill ends a process that works, for
\* every content of the file and every width of an int: the division is defined, and
\* every ring that is written to has a slot (ProcessInfo.cpp:200-224,
\* 358-387; ring_buffer.h:20-33).
THEOREM ReasonableSettingsRunAlways == Spec => ReasonableSettingsRun
<1> DEFINE Runs == alive /\ ~alive' /\ meddling' = meddling
                   /\ worker \in {"init", "wait", "check", "work"} => ~Reasonable(settings)
<1>1. ServiceInv /\ [Next]_vars => [Runs]_vars
  BY StepAlive
<1>2. Spec => [][Runs]_vars
  BY <1>1, ServiceInvariant, PTL DEF Spec
<1> QED
  BY <1>2 DEF ReasonableSettingsRun

-----------------------------------------------------------------------------
(* The console program, around the same worker. *)

\* The wait for the worker is over, one way or another.
AfterGrace == {"leave", "return", "end"}

ConsoleType ==
  /\ console \in {"start", "create", "prompt", "wait", "close", "invalidate", "thread_stop",
                  "grace", "leave", "return", "end"}
  /\ routine \in {"idle", "test", "set"} /\ control \in {"break", "close"}
  /\ prompted \in BOOLEAN /\ in_time \in BOOLEAN

\* No worker before RunConsole creates it; the event that says that it has stopped
\* is set last; and RunConsole goes on only over one that has stopped, hangs or
\* is late, or without an event.
GraceInv ==
  /\ console \in {"start", "create"} => worker = "none"
  /\ thread_signal => worker = "done"
  /\ console \in AfterGrace /\ in_time => Stopped \/ Hung \/ thread_stop = "null"
  /\ logger = "destroyed" => console = "end"

ConsoleInv == WorkerInv /\ ConsoleType /\ GraceInv

\* A worker that has stopped stays so when none can be created, and one that hangs
\* does so for ever.
LEMMA StoppedStays ==
  ASSUME WorkerInv, WorkerThread \/ CollectorThread
  PROVE  (Stopped => Stopped') /\ (Hung => Hung')
<1> USE DEF config, events, handshake, None
<1>1. CASE ReadSettings
  BY <1>1 DEF ReadSettings, TestFile, TestAgain, TruncateFile, WriteDefaults, ReadFile, Stopped, Hung
<1>2. CASE InitProcesses
  BY <1>2 DEF InitProcesses, Die, Create, StoreId, Stopped, Hung
<1>3. CASE Wait \/ Check \/ Work
  BY <1>3 DEF Wait, Check, Work, Die, Stopped, Hung
<1>4. CASE DestroyProcesses
  BY <1>4 DEF DestroyProcesses, ClearFlag, Destroy, Stopped, Hung, WorkerInv, MonitorInv
<1>5. CASE TestThreadStop \/ Signal
  BY <1>5 DEF TestThreadStop, Signal, Stopped, Hung
<1>6. CASE CollectorThread
  <2>1. Stopped => Die
    BY <1>6 DEF CollectorThread, Collector, SetFlag, TestFlag, Collect, Leave, Stopped
  <2>2. Die => (Stopped => Stopped') /\ (Hung => Hung')
    BY DEF Die, Stopped, Hung
  <2>3. SetFlag \/ TestFlag \/ Collect \/ Leave => (Hung => Hung')
    BY DEF SetFlag, TestFlag, Collect, Leave, Hung
  <2> QED
    BY <1>6, <2>1, <2>2, <2>3 DEF CollectorThread, Collector
<1> QED
  BY <1>1, <1>2, <1>3, <1>4, <1>5, <1>6 DEF WorkerThread

\* The console starts without a worker.
LEMMA InitConsoleInv == InitConsole => ConsoleInv
<1> SUFFICES ASSUME InitConsole
             PROVE  ConsoleInv
  OBVIOUS
<1>1. InitFile /\ InitWorker
  BY DEF InitConsole
<1>2. WorkerInv
  BY <1>1, InitWorkerInv
<1> QED
  BY <1>1, <1>2 DEF InitConsole, ConsoleInv, ConsoleType, GraceInv, AfterGrace, InitWorker

\* The threads of the worker keep it.
LEMMA ThreadsConsoleInv ==
  ASSUME ConsoleInv, WorkerThread \/ CollectorThread,
         UNCHANGED <<console, routine, control, prompted, in_time>>
  PROVE  ConsoleInv'
<1>1. WorkerInv' /\ WorkerInv
  BY ThreadsWorkerInv DEF ConsoleInv
<1>2. /\ UNCHANGED <<logger, thread_stop>>
      /\ worker \in {"none", "done"} => worker' = worker
      /\ UNCHANGED thread_signal \/ worker' = "done"
  BY <1>1, ThreadSteps
<1>3. (Stopped => Stopped') /\ (Hung => Hung')
  BY <1>1, StoppedStays
<1>4. GraceInv'
  BY <1>2, <1>3 DEF ConsoleInv, GraceInv
<1> QED
  BY <1>1, <1>4 DEF ConsoleInv, ConsoleType

\* RunConsole keeps it.
LEMMA RunConsoleInv ==
  ASSUME ConsoleInv, RunConsole
  PROVE  ConsoleInv'
<1> USE DEF handshake, config, events, worker_vars, console_vars
<1>1. WorkerInv /\ ConsoleType /\ GraceInv
  BY DEF ConsoleInv
<1>2. /\ UNCHANGED <<file, access, settings, monitor, is_collect, collector_thread_id, collector,
                     stop_signal, thread_signal, routine, control, in_time>>
      /\ alive' \in {alive, FALSE} /\ prompted' \in {prompted, TRUE}
      /\ logger' = logger \/ (console = "return" /\ console' = "end" /\ logger' = "destroyed")
      /\ stop_event' \in {stop_event, "open", "null", "closed", "invalid"}
      /\ thread_stop' \in {thread_stop, "open", "null", "closed"}
      /\ worker' = worker \/ (console = "create" /\ worker' \in {"settings", "none"})
  BY DEF RunConsole, CreateConsoleEvent, StartWorker, Prompt, AwaitStop,
         CloseConsoleEvent, InvalidateStopEvent, CreateThreadStop, AwaitThreadStop,
         CloseThreadStop, ReturnFromMain, EndConsole
<1>3. WorkerInv'
  <2>1. worker' = worker \/ (worker = "none" /\ worker' = "settings")
    BY <1>1, <1>2 DEF GraceInv
  <2>2. /\ logger' \in {"open", "destroyed"} /\ stop_event' \in Handle /\ thread_stop' \in Handle
        /\ stop_signal' \in BOOLEAN /\ thread_signal' \in BOOLEAN
        /\ file' \in Contents \cup {Absent, NotJson, Defaults}
    BY <1>1, <1>2 DEF WorkerInv, WorkerTypeOK, Handle
  <2>3. alive' \in BOOLEAN
    BY <1>1, <1>2 DEF WorkerInv, WorkerTypeOK
  <2> QED
    BY <1>1, <1>2, <2>1, <2>2, <2>3, OutsideInv
<1>4. ConsoleType'
  <2>1. console' \in {"create", "prompt", "wait", "close", "invalidate", "thread_stop",
                      "grace", "leave", "return", "end"}
    BY <1>1 DEF ConsoleType, RunConsole, CreateConsoleEvent, StartWorker, Prompt,
         AwaitStop, CloseConsoleEvent, InvalidateStopEvent, CreateThreadStop,
         AwaitThreadStop, CloseThreadStop, ReturnFromMain, EndConsole
  <2>2. prompted' \in BOOLEAN
    BY <1>1, <1>2 DEF ConsoleType
  <2> QED
    BY <1>1, <1>2, <2>1, <2>2 DEF ConsoleType
<1>5. (console' \in {"start", "create"} => console = "start") /\ (console = "end" => console' = "end")
  BY DEF RunConsole, CreateConsoleEvent, StartWorker, Prompt, AwaitStop,
         CloseConsoleEvent, InvalidateStopEvent, CreateThreadStop, AwaitThreadStop,
         CloseThreadStop, ReturnFromMain, EndConsole
<1>6. console' \in AfterGrace /\ in_time => Stopped' \/ Hung' \/ thread_stop' = "null"
  <2> SUFFICES ASSUME console' \in AfterGrace, in_time
               PROVE  Stopped' \/ Hung' \/ thread_stop' = "null"
    OBVIOUS
  <2>1. \/ console \in AfterGrace /\ (thread_stop = "null" => thread_stop' = "null")
        \/ AwaitThreadStop
    BY DEF AfterGrace, RunConsole, CreateConsoleEvent, StartWorker, Prompt,
         AwaitStop, CloseConsoleEvent, InvalidateStopEvent, CreateThreadStop,
         CloseThreadStop, ReturnFromMain, EndConsole
  <2>2. worker' = worker /\ UNCHANGED <<monitor, is_collect, collector>>
    BY <1>2, <2>1 DEF AfterGrace, AwaitThreadStop
  <2>3. (Stopped => Stopped') /\ (Hung => Hung')
    BY <2>2 DEF Stopped, Hung
  <2>4. CASE console \in AfterGrace /\ (thread_stop = "null" => thread_stop' = "null")
    BY <1>1, <2>3, <2>4 DEF GraceInv
  <2>5. CASE AwaitThreadStop
    <3>1. worker \in {"none", "done"} \/ Hung \/ thread_stop = "null"
      BY <1>1, <2>5 DEF AwaitThreadStop, TimeoutDue, GraceInv
    <3>2. thread_stop' = thread_stop
      BY <2>5 DEF AwaitThreadStop
    <3> QED
      BY <1>1, <2>3, <3>1, <3>2, WorkerThrough
  <2> QED
    BY <2>1, <2>4, <2>5
<1>7. GraceInv'
  <2>1. console' \in {"start", "create"} => worker' = "none"
    BY <1>1, <1>2, <1>5 DEF GraceInv
  <2>2. thread_signal' => worker' = "done"
    BY <1>1, <1>2 DEF GraceInv
  <2>3. logger' = "destroyed" => console' = "end"
    BY <1>1, <1>2, <1>5 DEF GraceInv
  <2> QED
    BY <1>2, <1>6, <2>1, <2>2, <2>3 DEF GraceInv
<1> QED
  BY <1>3, <1>4, <1>7 DEF ConsoleInv

\* The handler of control events keeps it, also when the process ends with it.
LEMMA HandlerConsoleInv ==
  ASSUME ConsoleInv, Press \/ HandlerRoutine
  PROVE  ConsoleInv'
<1> USE DEF handshake, config, events, worker_vars
<1>1. WorkerInv /\ ConsoleType /\ GraceInv
  BY DEF ConsoleInv
<1>2. /\ UNCHANGED <<file, access, settings, logger, monitor, is_collect, collector_thread_id,
                     collector, stop_event, thread_stop, thread_signal, worker, console,
                     prompted, in_time>>
      /\ routine' \in {"idle", "test", "set"} /\ control' \in {control, "break", "close"}
  BY DEF Press, HandlerRoutine, TestStopEvent, RaiseStopEvent
<1>3. alive' \in BOOLEAN
  <2>1. UNCHANGED alive \/ alive' = FALSE \/ alive' = (control = "break")
    BY DEF Press, HandlerRoutine, TestStopEvent, RaiseStopEvent
  <2>2. alive \in BOOLEAN
    BY <1>1 DEF WorkerInv, WorkerTypeOK
  <2> QED
    BY <2>1, <2>2
<1>4. stop_signal' \in BOOLEAN
  <2>1. UNCHANGED stop_signal \/ stop_signal' = (stop_signal \/ stop_event = "open")
    BY DEF Press, HandlerRoutine, TestStopEvent, RaiseStopEvent
  <2>2. stop_signal \in BOOLEAN
    BY <1>1 DEF WorkerInv, WorkerTypeOK
  <2> QED
    BY <2>1, <2>2
<1>5. WorkerInv'
  <2>1. /\ logger' \in {"open", "destroyed"} /\ stop_event' \in Handle /\ thread_stop' \in Handle
        /\ thread_signal' \in BOOLEAN /\ file' \in Contents \cup {Absent, NotJson, Defaults}
    BY <1>1, <1>2 DEF WorkerInv, WorkerTypeOK
  <2> QED
    BY <1>1, <1>2, <1>3, <1>4, <2>1, OutsideInv
<1>6. ConsoleType' /\ GraceInv'
  BY <1>1, <1>2 DEF ConsoleType, GraceInv, Stopped, Hung
<1> QED
  BY <1>5, <1>6 DEF ConsoleInv

\* Every step of the console program keeps it.
LEMMA NextConsoleInv == ConsoleInv /\ [NextConsole]_program_vars => ConsoleInv'
<1> SUFFICES ASSUME ConsoleInv, [NextConsole]_program_vars
             PROVE  ConsoleInv'
  OBVIOUS
<1>1. CASE RunConsole
  BY <1>1, RunConsoleInv
<1>2. CASE Press \/ HandlerRoutine
  BY <1>2, HandlerConsoleInv
<1>3. CASE (WorkerThread \/ CollectorThread) /\ ConsoleStays
  BY <1>3, ThreadsConsoleInv DEF ConsoleStays, console_vars
<1>4. CASE UNCHANGED program_vars
  <2>1. UNCHANGED <<handshake, alive, logger, config, events, worker, console, routine, control,
                    prompted, in_time>>
    BY <1>4 DEF program_vars, worker_vars, console_vars, handshake, config,
                events
  <2>2. WorkerInv'
    BY <2>1, WorkerInvStutter DEF ConsoleInv, worker_vars
  <2> QED
    BY <2>1, <2>2 DEF ConsoleInv, ConsoleType, GraceInv, handshake, config, events, Stopped, Hung
<1> QED
  BY <1>1, <1>2, <1>3, <1>4 DEF NextConsole

\* The invariant of the console program, for every content of the file.
THEOREM ConsoleInvariant == SpecConsole => []ConsoleInv
<1> QED
  BY InitConsoleInv, NextConsoleInv, PTL DEF SpecConsole

\* The variables of the console program keep their types.
THEOREM ConsoleTypeOKAlways == SpecConsole => []ConsoleTypeOK
<1>1. ConsoleInv => ConsoleTypeOK
  BY DEF ConsoleInv, WorkerInv, ConsoleType, ConsoleTypeOK
<1> QED
  BY <1>1, ConsoleInvariant, PTL

\* RunConsole does not return under a worker that stops in time: the logger is
\* destroyed when nothing is left that logs, save when the worker hangs or there
\* was no event to wait for (main.cpp:220-238).
THEOREM ReturnsAfterWorkerAlways == SpecConsole => []ReturnsAfterWorker
<1>1. ConsoleInv => ReturnsAfterWorker
  BY DEF ConsoleInv, GraceInv, AfterGrace, ReturnsAfterWorker
<1> QED
  BY <1>1, ConsoleInvariant, PTL
-----------------------------------------------------------------------------
(* The end of the worker: what the scheduler has to do for StopCompletes and   *)
(* LoopEnds.                                                                   *)

\* The next wait of the worker on its event is the last.
StopDue == stop_event = "invalid" \/ (stop_event = "open" /\ stop_signal)

\* The steps the worker has left then, at most: an event that is set is found by the
\* wait, an invalid handle by the test after it.
WorkerLeft ==
  CASE worker = "settings" -> 14
    [] worker = "create"   -> 13
    [] worker = "truncate" -> 12
    [] worker = "write"    -> 11
    [] worker = "open"     -> 10
    [] worker = "init"     -> IF monitor = "init" THEN 9 ELSE 8
    [] worker = "work"     -> IF stop_event = "open" THEN 6 ELSE 7
    [] worker = "wait"     -> IF stop_event = "open" THEN 5 ELSE 6
    [] worker = "check"    -> IF stop_event = "open" THEN 7 ELSE 5
    [] worker = "destroy"  -> IF monitor = "running" THEN 4 ELSE 3
    [] worker = "exit"     -> 2
    [] worker = "signal"   -> 1
    [] OTHER               -> 0

\* The steps ServiceMain has left, from the wait for the worker on.
ServiceLeft ==
  CASE service = "wait"    -> 5
    [] service = "close"   -> 4
    [] service = "stop"    -> 3
    [] service = "report"  -> 2
    [] service = "message" -> 1
    [] OTHER               -> 0

\* A service whose stop event is set stays so, and every step of its worker and of
\* ServiceMain is one of a bounded number, wherever the two are and whatever calls
\* fail.
ServiceAdvances ==
  [][created /\ stop_signal /\ alive /\ alive' =>
       /\ created' /\ stop_signal'
       /\ WorkerLeft' \in 0 .. WorkerLeft /\ ServiceLeft' \in 0 .. ServiceLeft
       /\ WorkerThread => WorkerLeft' < WorkerLeft
       /\ ServiceMain => ServiceLeft' < ServiceLeft]_vars

\* RunConsole has closed the event and made its handle invalid, or has had none.
AfterStop == {"thread_stop", "grace", "leave", "return", "end"}

\* From then on every step of the worker is one of a bounded number, although what it
\* waited on was closed and replaced under it.
ConsoleAdvances ==
  [][alive /\ alive' /\ console \in AfterStop =>
       /\ console' \in AfterStop
       /\ WorkerLeft' \in 0 .. WorkerLeft
       /\ WorkerThread => WorkerLeft' < WorkerLeft]_program_vars

\* The destructor of the monitor, in a worker on its way out, waits for a collector
\* that has a step to take, or no longer waits.
WorkerNotInVain ==
  worker = "destroy" /\ monitor = "waiting" =>
    collector_thread_id = None \/ collector \in {"spawned", "test", "collect", "leave"}

\* The worker hangs only after the one late statement of the collector, and then as
\* long as the process runs.
HangIsLateFlag ==
  [][/\ ~Hung /\ Hung' => monitor = "waiting" /\ SetFlag
     /\ Hung /\ alive => Hung']_worker_vars

\* The bound is a number.
LEMMA WorkerLeftType == WorkerLeft \in 0 .. 14 /\ WorkerLeft' \in 0 .. 14
<1>1. WorkerLeft \in 0 .. 14
  BY DEF WorkerLeft
<1>2. WorkerLeft' \in 0 .. 14
  BY DEF WorkerLeft
<1> QED
  BY <1>1, <1>2

\* It depends on the places of the worker and of the monitor, and on the handle.
LEMMA WorkerLeftKept ==
  ASSUME UNCHANGED <<worker, monitor, stop_event>>
  PROVE  WorkerLeft' = WorkerLeft
BY DEF WorkerLeft

\* Every step of the worker lowers it when its next wait is the last, unless the step
\* ends the process.
LEMMA WorkerAdvances ==
  ASSUME WorkerInv, StopDue, WorkerThread, alive'
  PROVE  WorkerLeft' < WorkerLeft
<1> USE DEF config, events
<1>1. CASE ReadSettings
  <2>1. \/ worker = "settings" /\ worker' \in {"create", "open"}
        \/ worker = "create" /\ worker' \in {"truncate", "open"}
        \/ worker = "truncate" /\ worker' \in {"write", "open"}
        \/ worker = "write" /\ worker' = "open"
        \/ worker = "open" /\ worker' = "init"
    BY <1>1 DEF ReadSettings, TestFile, TestAgain, TruncateFile, WriteDefaults, ReadFile
  <2> QED
    BY <2>1 DEF WorkerLeft
<1>2. CASE InitProcesses
  <2>1. /\ worker = "init" /\ monitor \in {"init", "start"}
        /\ \/ monitor = "init" /\ monitor' = "start" /\ worker' = worker
           \/ worker' = "wait"
    BY <1>2 DEF InitProcesses, Die, Create, StoreId
  <2> QED
    BY <2>1 DEF WorkerLeft
<1>3. CASE Wait
  <2>1. PICK timeout \in TimesOut(stop_event, stop_signal) :
          worker' = IF timeout THEN "check" ELSE "destroy"
    BY <1>3 DEF Wait
  <2>2. stop_event = "open" => worker' = "destroy"
    BY <2>1 DEF StopDue, TimesOut
  <2>3. worker' \in {"check", "destroy"}
    BY <2>1
  <2>4. worker = "wait" /\ stop_event' = stop_event /\ monitor' = monitor
    BY <1>3 DEF Wait, handshake
  <2> QED
    BY <2>2, <2>3, <2>4 DEF WorkerLeft
<1>4. CASE Check \/ Work
  <2>1. /\ stop_event' = stop_event /\ monitor' = monitor
        /\ \/ worker = "check" /\ stop_event = "invalid" /\ worker' = "destroy"
           \/ worker = "check" /\ stop_event = "open" /\ worker' = "work"
           \/ worker = "work" /\ worker' = "wait"
    BY <1>4 DEF Check, Work, Die, StopDue, handshake
  <2> QED
    BY <2>1 DEF WorkerLeft
<1>5. CASE DestroyProcesses
  <2>1. \/ worker = "destroy" /\ worker' = "exit"
        \/ /\ worker = "destroy" /\ worker' = "destroy"
           /\ monitor = "running" /\ monitor' = "waiting"
    BY <1>5 DEF DestroyProcesses, ClearFlag, Destroy
  <2> QED
    BY <2>1 DEF WorkerLeft
<1>6. CASE TestThreadStop \/ Signal
  <2>1. \/ worker = "exit" /\ worker' \in {"signal", "done"}
        \/ worker = "signal" /\ worker' = "done"
    BY <1>6 DEF TestThreadStop, Signal
  <2> QED
    BY <2>1 DEF WorkerLeft
<1> QED
  BY <1>1, <1>2, <1>3, <1>4, <1>5, <1>6 DEF WorkerThread

\* The collector leaves it as it is.
LEMMA CollectorKeeps == ASSUME CollectorThread PROVE WorkerLeft' = WorkerLeft
<1>1. UNCHANGED <<worker, monitor, stop_event>>
  <2>1. CASE Collector /\ UNCHANGED <<alive, logger, config, events, worker>>
    BY <2>1 DEF Collector, SetFlag, TestFlag, Collect, Leave, events
  <2>2. CASE Die
    BY <2>2 DEF Die, handshake, events
  <2> QED
    BY <2>1, <2>2 DEF CollectorThread
<1> QED
  BY <1>1, WorkerLeftKept

\* Every step of ServiceMain is one fewer to take, once there is a worker to wait for;
\* the stop event closes under a worker that is through.
LEMMA MainAdvances ==
  ASSUME ServiceInv, created, ServiceMain
  PROVE  /\ created' = created /\ stop_signal' = stop_signal
         /\ WorkerLeft' = WorkerLeft
         /\ ServiceLeft' \in 0 .. ServiceLeft /\ ServiceLeft' < ServiceLeft
<1>1. service \in {"wait", "close", "stop"} \cup Late
  BY DEF ServiceInv, WaitInv
<1>2. /\ UNCHANGED <<created, stop_signal, worker, monitor>>
      /\ stop_event' = stop_event \/ (service = "close" /\ stop_event' = "closed")
  BY <1>1 DEF Late, ServiceMain, Register, CreateStopEvent, Run, CreateWorker, AwaitWorker,
              CloseStopEvent, Stop, ReportStopped, LastMessage, worker_vars, handshake, events
<1>3. WorkerLeft' = WorkerLeft
  <2>1. CASE stop_event' = stop_event
    BY <1>2, <2>1, WorkerLeftKept
  <2>2. CASE service = "close"
    <3>1. worker = "done"
      BY <2>2 DEF ServiceInv, WaitInv
    <3> QED
      BY <1>2, <3>1 DEF WorkerLeft
  <2> QED
    BY <1>2, <2>1, <2>2
<1>4. ServiceLeft' \in 0 .. ServiceLeft /\ ServiceLeft' < ServiceLeft
  <2>1. \/ service = "wait" /\ service' = "close"
        \/ service = "close" /\ service' = "stop"
        \/ service = "stop" /\ service' = "report"
        \/ service = "report" /\ service' = "message"
        \/ service = "message" /\ service' = "returned"
    BY <1>1 DEF Late, ServiceMain, Register, CreateStopEvent, Run, CreateWorker, AwaitWorker,
                CloseStopEvent, Stop, ReportStopped, LastMessage
  <2> QED
    BY <2>1 DEF ServiceLeft
<1> QED
  BY <1>2, <1>3, <1>4

\* Every step of the service keeps the stop, and none makes the way to its end longer.
LEMMA ServiceKeeps ==
  ASSUME ServiceInv, [Next]_vars, created, stop_signal, alive, alive'
  PROVE  /\ created' /\ stop_signal'
         /\ WorkerLeft' \in 0 .. WorkerLeft /\ ServiceLeft' \in 0 .. ServiceLeft
         /\ WorkerThread => WorkerLeft' < WorkerLeft
<1>1. WorkerInv /\ (worker \in {"none", "done"} \/ StopDue)
  BY DEF ServiceInv, WaitInv, StopDue
<1>2. ServiceLeft \in 0 .. 5
  BY DEF ServiceLeft
<1>3. WorkerThread => WorkerLeft' < WorkerLeft
  <2>1. worker \in {"none", "done"} => ~WorkerThread
    BY DEF WorkerThread, ReadSettings, TestFile, TestAgain, TruncateFile, WriteDefaults, ReadFile,
           InitProcesses, Wait, Check, Work, DestroyProcesses, TestThreadStop, Signal
  <2> QED
    BY <1>1, <2>1, WorkerAdvances
<1>4. WorkerLeft \in 0 .. 14 /\ WorkerLeft' \in 0 .. 14
  BY WorkerLeftType
<1>5. CASE WorkerThread /\ Others
  <2>1. created' = created /\ stop_signal' = stop_signal /\ service' = service
    BY <1>1, <1>5, ThreadSteps DEF Others, service_vars
  <2>2. ServiceLeft' = ServiceLeft
    BY <2>1 DEF ServiceLeft
  <2> QED
    BY <1>2, <1>3, <1>4, <1>5, <2>1, <2>2
<1>6. CASE CollectorThread /\ Others
  <2>1. created' = created /\ stop_signal' = stop_signal /\ service' = service
    BY <1>1, <1>6, ThreadSteps DEF Others, service_vars
  <2>2. ServiceLeft' = ServiceLeft
    BY <2>1 DEF ServiceLeft
  <2> QED
    BY <1>2, <1>3, <1>4, <1>6, <2>1, <2>2, CollectorKeeps
<1>7. CASE ServiceMain
  BY <1>2, <1>3, <1>4, <1>7, MainAdvances
<1>8. CASE ControlStop \/ ServiceCtrlHandler \/ Return \/ EditFile \/ UNCHANGED vars
  <2>1. UNCHANGED <<created, service, worker, monitor, stop_event>>
    BY <1>8 DEF ControlStop, ServiceCtrlHandler, StopPending, ReportPending, SetStopEvent, Return,
                EditFile, vars, worker_vars, service_vars, handshake, events
  <2>2. stop_signal'
    BY <1>8 DEF ControlStop, ServiceCtrlHandler, StopPending, ReportPending, SetStopEvent, Return,
                EditFile, vars, worker_vars, events
  <2>3. ServiceLeft' = ServiceLeft
    BY <2>1 DEF ServiceLeft
  <2> QED
    BY <1>2, <1>3, <1>4, <2>1, <2>2, <2>3, WorkerLeftKept
<1>9. CASE End \/ Kill \/ Restart
  BY <1>9 DEF End, Kill, Restart
<1> QED
  BY <1>5, <1>6, <1>7, <1>8, <1>9 DEF Next, Main

\* A service that has been told to stop needs nothing but to be scheduled: fourteen
\* steps of the worker at most, of which the last of the destructor waits for the
\* collector, and then five of ServiceMain; no report that fails and nobody who edits
\* the file adds a step (main.cpp:331-461).  A pass is one step of the worker here, and
\* has a bound of its own.
THEOREM ServiceAdvancesAlways == Spec => ServiceAdvances
<1> DEFINE Advances ==
             created /\ stop_signal /\ alive /\ alive' =>
               /\ created' /\ stop_signal'
               /\ WorkerLeft' \in 0 .. WorkerLeft /\ ServiceLeft' \in 0 .. ServiceLeft
               /\ WorkerThread => WorkerLeft' < WorkerLeft
               /\ ServiceMain => ServiceLeft' < ServiceLeft
<1>1. ServiceInv /\ [Next]_vars => [Advances]_vars
  BY ServiceKeeps, MainAdvances
<1>2. Spec => [][Advances]_vars
  BY <1>1, ServiceInvariant, PTL DEF Spec
<1> QED
  BY <1>2 DEF ServiceAdvances

\* A handle that RunConsole has made invalid stays so, and without an event it has
\* created no worker.
HandleInv ==
  /\ console \in {"create", "prompt", "wait", "close"} => stop_event = "open"
  /\ console \in AfterStop => stop_event = "invalid" \/ (stop_event = "null" /\ worker = "none")

\* Nobody else writes the handle.
LEMMA HandleInvariant == SpecConsole => []HandleInv
<1>1. InitConsole => HandleInv
  BY DEF InitConsole, HandleInv, AfterStop
<1>2. ConsoleInv /\ HandleInv /\ [NextConsole]_program_vars => HandleInv'
  <2> SUFFICES ASSUME ConsoleInv, HandleInv, [NextConsole]_program_vars
               PROVE  HandleInv'
    OBVIOUS
  <2> USE DEF HandleInv, AfterStop
  <2>1. CASE RunConsole
    <3>1. CASE CreateConsoleEvent
      BY <3>1 DEF CreateConsoleEvent, ConsoleInv, GraceInv
    <3>2. CASE StartWorker
      BY <3>2 DEF StartWorker, events
    <3>3. CASE Prompt \/ AwaitStop \/ AwaitThreadStop
      BY <3>3 DEF Prompt, AwaitStop, AwaitThreadStop, worker_vars, events
    <3>4. CASE CloseConsoleEvent \/ InvalidateStopEvent
      BY <3>4 DEF CloseConsoleEvent, InvalidateStopEvent
    <3>5. CASE CreateThreadStop \/ CloseThreadStop
      BY <3>5 DEF CreateThreadStop, CloseThreadStop
    <3>6. CASE ReturnFromMain \/ EndConsole
      BY <3>6 DEF ReturnFromMain, EndConsole, events, console_vars
    <3> QED
      BY <2>1, <3>1, <3>2, <3>3, <3>4, <3>5, <3>6 DEF RunConsole
  <2>2. CASE Press \/ HandlerRoutine
    BY <2>2 DEF Press, HandlerRoutine, TestStopEvent, RaiseStopEvent, worker_vars, events
  <2>3. CASE (WorkerThread \/ CollectorThread) /\ ConsoleStays
    <3>1. stop_event' = stop_event /\ (worker = "none" => worker' = "none")
      BY <2>3, ThreadSteps DEF ConsoleInv
    <3> QED
      BY <2>3, <3>1 DEF ConsoleStays, console_vars
  <2>4. CASE UNCHANGED program_vars
    BY <2>4 DEF program_vars, console_vars, worker_vars, events
  <2> QED
    BY <2>1, <2>2, <2>3, <2>4 DEF NextConsole
<1> QED
  BY <1>1, <1>2, ConsoleInvariant, PTL DEF SpecConsole

\* When RunConsole has replaced the handle under the worker, the worker leaves its loop
\* in a bounded number of steps, wherever it was: its next wait on the old handle, or
\* its next test of the new one, is the last (main.cpp:226-233, 356-358).
THEOREM ConsoleAdvancesAlways == SpecConsole => ConsoleAdvances
<1> DEFINE Advances ==
             alive /\ alive' /\ console \in AfterStop =>
               /\ console' \in AfterStop
               /\ WorkerLeft' \in 0 .. WorkerLeft
               /\ WorkerThread => WorkerLeft' < WorkerLeft
<1>1. ConsoleInv /\ HandleInv /\ [NextConsole]_program_vars => [Advances]_program_vars
  <2> SUFFICES ASSUME ConsoleInv, HandleInv, NextConsole, alive, alive', console \in AfterStop
               PROVE  /\ console' \in AfterStop
                      /\ WorkerLeft' \in 0 .. WorkerLeft
                      /\ WorkerThread => WorkerLeft' < WorkerLeft
    OBVIOUS
  <2>1. WorkerInv /\ (worker = "none" \/ StopDue)
    BY DEF ConsoleInv, HandleInv, StopDue
  <2>2. WorkerLeft \in 0 .. 14 /\ WorkerLeft' \in 0 .. 14
    BY WorkerLeftType
  <2>3. WorkerThread => WorkerLeft' < WorkerLeft
    <3>1. worker = "none" => ~WorkerThread
      BY DEF WorkerThread, ReadSettings, TestFile, TestAgain, TruncateFile, WriteDefaults,
             ReadFile, InitProcesses, Wait, Check, Work, DestroyProcesses, TestThreadStop, Signal
    <3> QED
      BY <2>1, <3>1, WorkerAdvances
  <2>4. CASE (WorkerThread \/ CollectorThread) /\ ConsoleStays
    BY <2>2, <2>3, <2>4, CollectorKeeps DEF ConsoleStays, console_vars
  <2>5. CASE RunConsole \/ Press \/ HandlerRoutine
    <3>1. console' \in AfterStop /\ UNCHANGED <<worker, monitor, stop_event>>
      BY <2>5 DEF AfterStop, RunConsole, CreateConsoleEvent, StartWorker, Prompt, AwaitStop,
           CloseConsoleEvent, InvalidateStopEvent, CreateThreadStop, AwaitThreadStop,
           CloseThreadStop, ReturnFromMain, EndConsole, Press, HandlerRoutine, TestStopEvent,
           RaiseStopEvent, worker_vars, handshake, events
    <3> QED
      BY <2>2, <2>3, <3>1, WorkerLeftKept
  <2> QED
    BY <2>4, <2>5 DEF NextConsole
<1>2. SpecConsole => [][Advances]_program_vars
  BY <1>1, ConsoleInvariant, HandleInvariant, PTL DEF SpecConsole
<1> QED
  BY <1>2 DEF ConsoleAdvances

\* In the service and in the console the worker on its way out never waits for a
\* collector that has gone: only to be scheduled keeps the two from parting
\* (perf_monitor.cpp:7-30).
THEOREM WorkerNotInVainAlways == (Spec => []WorkerNotInVain) /\ (SpecConsole => []WorkerNotInVain)
<1>1. WorkerInv => WorkerNotInVain
  BY DEF WorkerInv, WorkerTypeOK, MonitorInv, WorkerNotInVain
<1>2. Spec => []WorkerNotInVain
  <2>1. ServiceInv => WorkerNotInVain
    BY <1>1 DEF ServiceInv
  <2> QED
    BY <2>1, ServiceInvariant, PTL
<1>3. SpecConsole => []WorkerNotInVain
  <2>1. ConsoleInv => WorkerNotInVain
    BY <1>1 DEF ConsoleInv
  <2> QED
    BY <2>1, ConsoleInvariant, PTL
<1> QED
  BY <1>2, <1>3

\* A step of one of the two threads that begins to hang is the late statement.
LEMMA HangBegins ==
  ASSUME WorkerInv, WorkerThread \/ CollectorThread, ~Hung, Hung'
  PROVE  monitor = "waiting" /\ SetFlag
<1> USE DEF Hung, config, events, handshake
<1>1. CASE ReadSettings \/ Wait \/ Check \/ Work \/ TestThreadStop \/ Signal
  BY <1>1 DEF ReadSettings, TestFile, TestAgain, TruncateFile, WriteDefaults, ReadFile, Wait, Check,
              Work, TestThreadStop, Signal, Die
<1>2. CASE InitProcesses
  BY <1>2 DEF InitProcesses, Die, Create, StoreId
<1>3. CASE DestroyProcesses
  BY <1>3 DEF DestroyProcesses, ClearFlag, Destroy
<1>4. CASE CollectorThread
  BY <1>4 DEF CollectorThread, Die, Collector, SetFlag, TestFlag, Collect, Leave
<1> QED
  BY <1>1, <1>2, <1>3, <1>4 DEF WorkerThread

\* What is around the worker leaves the monitor alone, but for a restart.
LEMMA AroundLeavesMonitor ==
  ASSUME \/ [Next]_vars /\ ~((WorkerThread \/ CollectorThread) /\ Others) /\ ~Restart
         \/ /\ [NextConsole]_program_vars
            /\ ~((WorkerThread \/ CollectorThread) /\ ConsoleStays)
  PROVE  UNCHANGED <<monitor, is_collect>>
<1> USE DEF worker_vars, handshake
<1>1. CASE ServiceMain \/ ControlStop \/ ServiceCtrlHandler \/ Main \/ EditFile \/ Kill \/ UNCHANGED vars
  BY <1>1 DEF ServiceMain, Register, CreateStopEvent, Run, CreateWorker, AwaitWorker,
       CloseStopEvent, Stop, ReportStopped, LastMessage, ControlStop, ServiceCtrlHandler,
       StopPending, ReportPending, SetStopEvent, Main, Return, End, EditFile, Kill, vars
<1>2. CASE RunConsole \/ Press \/ HandlerRoutine \/ UNCHANGED program_vars
  BY <1>2 DEF RunConsole, CreateConsoleEvent, StartWorker, Prompt, AwaitStop, CloseConsoleEvent,
       InvalidateStopEvent, CreateThreadStop, AwaitThreadStop, CloseThreadStop, ReturnFromMain,
       EndConsole, Press, HandlerRoutine, TestStopEvent, RaiseStopEvent, program_vars
<1> QED
  BY <1>1, <1>2 DEF Next, NextConsole

\* The worker hangs on its way out in one schedule only, the first statement of the
\* collector after the first of the destructor; nothing the service manager, the user
\* or a failing call does adds another, and nothing but the end of the process undoes
\* it (perf_monitor.cpp:8, 18).
THEOREM HangIsLateFlagAlways == (Spec => HangIsLateFlag) /\ (SpecConsole => HangIsLateFlag)
<1> DEFINE Hangs == /\ ~Hung /\ Hung' => monitor = "waiting" /\ SetFlag
                    /\ Hung /\ alive => Hung'
<1>1. ASSUME WorkerInv, WorkerThread \/ CollectorThread PROVE Hangs
  BY <1>1, HangBegins, StoppedStays
<1>2. ASSUME UNCHANGED <<monitor, is_collect>> PROVE Hangs
  BY <1>2 DEF Hung
<1>3. ServiceInv /\ [Next]_vars => [Hangs]_worker_vars
  <2>1. Restart => Hangs
    BY DEF Restart, Hung
  <2> QED
    BY <1>1, <1>2, <2>1, AroundLeavesMonitor DEF ServiceInv
<1>4. ConsoleInv /\ [NextConsole]_program_vars => [Hangs]_worker_vars
  BY <1>1, <1>2, AroundLeavesMonitor DEF ConsoleInv
<1>5. Spec => [][Hangs]_worker_vars
  BY <1>3, ServiceInvariant, PTL DEF Spec
<1>6. SpecConsole => [][Hangs]_worker_vars
  BY <1>4, ConsoleInvariant, PTL DEF SpecConsole
<1> QED
  BY <1>5, <1>6 DEF HangIsLateFlag

-----------------------------------------------------------------------------
(* The monitor that the program owns. *)

\* As long as the process runs, the worker and the collector take the steps of the
\* stop handshake, and nobody else touches the monitor.
KeepsHandshake == InitHandshake /\ [][alive => NextHandshake]_handshake

\* Each step of the two threads that touches the monitor is one of the handshake.
LEMMA ThreadsKeepHandshake ==
  ASSUME WorkerThread \/ CollectorThread
  PROVE  NextHandshake \/ UNCHANGED handshake
<1>1. CASE ReadSettings \/ Wait \/ Check \/ Work \/ TestThreadStop \/ Signal
  BY <1>1 DEF ReadSettings, TestFile, TestAgain, TruncateFile, WriteDefaults, ReadFile, Wait, Check,
              Work, TestThreadStop, Signal, Die
<1>2. CASE InitProcesses
  BY <1>2 DEF InitProcesses, Die, NextHandshake
<1>3. CASE DestroyProcesses
  BY <1>3 DEF DestroyProcesses, NextHandshake
<1>4. CASE CollectorThread
  BY <1>4 DEF CollectorThread, Die, NextHandshake
<1> QED
  BY <1>1, <1>2, <1>3, <1>4 DEF WorkerThread

\* The console program implements the stop handshake, and so does every life of the
\* service: whatever happens around the worker, the monitor it owns is created, stopped
\* and destroyed in the order that PerfMonitor goes through (main.cpp:331-372).
THEOREM ProgramsKeepHandshake == (SpecConsole => SpecHandshake) /\ (Spec => KeepsHandshake)
<1> USE DEF worker_vars
<1>1. [NextConsole]_program_vars => [NextHandshake]_handshake
  <2>1. CASE RunConsole \/ Press \/ HandlerRoutine \/ UNCHANGED program_vars
    BY <2>1 DEF RunConsole, CreateConsoleEvent, StartWorker, Prompt, AwaitStop, CloseConsoleEvent,
         InvalidateStopEvent, CreateThreadStop, AwaitThreadStop, CloseThreadStop, ReturnFromMain,
         EndConsole, Press, HandlerRoutine, TestStopEvent, RaiseStopEvent, program_vars
  <2>2. CASE WorkerThread \/ CollectorThread
    BY <2>2, ThreadsKeepHandshake
  <2> QED
    BY <2>1, <2>2 DEF NextConsole
<1>2. [Next]_vars => [alive => NextHandshake]_handshake
  <2>1. CASE ServiceMain \/ ControlStop \/ ServiceCtrlHandler \/ Main \/ EditFile \/ Kill \/ UNCHANGED vars
    BY <2>1 DEF ServiceMain, Register, CreateStopEvent, Run, CreateWorker, AwaitWorker,
         CloseStopEvent, Stop, ReportStopped, LastMessage, ControlStop, ServiceCtrlHandler,
         StopPending, ReportPending, SetStopEvent, Main, Return, End, EditFile, Kill, vars
  <2>2. CASE Restart
    BY <2>2 DEF Restart
  <2>3. CASE WorkerThread \/ CollectorThread
    BY <2>3, ThreadsKeepHandshake
  <2> QED
    BY <2>1, <2>2, <2>3 DEF Next
<1>3. SpecConsole => SpecHandshake
  <2>1. InitConsole => InitHandshake
    BY DEF InitConsole, InitWorker
  <2> QED
    BY <1>1, <2>1, PTL DEF SpecConsole, SpecHandshake
<1>4. Spec => KeepsHandshake
  <2>1. Init => InitHandshake
    BY DEF Init, InitWorker
  <2>2. Spec => [][alive => NextHandshake]_handshake
    BY <1>2, PTL DEF Spec
  <2>3. Spec => InitHandshake
    BY <2>1, PTL DEF Spec
  <2> QED
    BY <2>2, <2>3 DEF KeepsHandshake
<1> QED
  BY <1>3, <1>4
=============================================================================
