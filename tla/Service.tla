------------------------------- MODULE Service -------------------------------
(* The program as a Windows service (main.cpp): ServiceMain, the control       *)
(* handler, which runs on the thread of wmain, and the worker.  They share     *)
(* g_ServiceStatus and the stop event without a lock.  Every call of the       *)
(* system that the code tests, or that it forgets to test, may fail.           *)
EXTENDS Worker

CONSTANT MaxMeddling    \* bound: how often the file is edited or the process killed
ASSUME MeddlingAssumption == MaxMeddling \in Nat

VARIABLES
  status,               \* g_ServiceStatus: the state and whether STOP is accepted
  reported,             \* the status the service control manager has
  service,              \* where ServiceMain is
  created,              \* has ServiceMain got the thread of the worker?
  handler,              \* where ServiceCtrlHandler is
  wmain,                \* where wmain is
  meddling              \* the interventions from outside so far

service_vars == <<status, reported, service, created, handler, wmain, meddling>>
vars == <<worker_vars, service_vars>>

Status(state, accepts) == [state |-> state, accepts |-> accepts]
States == <<"none", "start_pending", "running", "stop_pending", "stopped">>

Init ==
  /\ InitFile /\ InitWorker
  /\ status = Status("none", FALSE) /\ reported = Status("none", FALSE)
  /\ service = "register" /\ created = FALSE
  /\ handler = "idle" /\ wmain = "dispatch" /\ meddling = 0

\* SetServiceStatus: the manager hears of the status, or the call fails.
SetServiceStatus(s) == reported' \in {s, reported}

-----------------------------------------------------------------------------
(* ServiceMain. *)

\* A handler is registered, and the service says that it starts.
Register ==
  /\ service = "register"
  /\ \/ service' = "returned" /\ UNCHANGED <<status, reported>>
     \/ /\ status' = Status("start_pending", FALSE)
        /\ SetServiceStatus(status')
        /\ service' = "event"
  /\ UNCHANGED <<worker_vars, created, handler, wmain, meddling>>

CreateStopEvent ==
  /\ service = "event"
  /\ \/ /\ stop_event' = "open"
        /\ service' = "run"
        /\ UNCHANGED <<status, reported>>
     \/ /\ stop_event' = "null"
        /\ status' = Status("stopped", FALSE)
        /\ SetServiceStatus(status')
        /\ service' = "message"
  /\ UNCHANGED <<handshake, alive, logger, config, stop_signal, thread_stop, thread_signal, worker,
                 created, handler, wmain, meddling>>

Run ==
  /\ service = "run"
  /\ status' = Status("running", TRUE)
  /\ SetServiceStatus(status')
  /\ service' = "create"
  /\ UNCHANGED <<worker_vars, created, handler, wmain, meddling>>

\* The wait for a thread that could not be created fails at once, and its
\* result is not looked at.
CreateWorker ==
  /\ service = "create"
  /\ \/ worker' = "settings" /\ created' = TRUE /\ service' = "wait"
     \/ service' = "close" /\ UNCHANGED <<worker, created>>
  /\ UNCHANGED <<handshake, alive, logger, config, events, status, reported, handler, wmain, meddling>>

\* A mistake: the worker is not waited for.
DoNotWait ==
  /\ service = "wait" /\ service' = "close"
  /\ UNCHANGED <<worker_vars, status, reported, created, handler, wmain, meddling>>

AwaitWorker ==
  /\ service = "wait" /\ worker = "done"
  /\ service' = "close"
  /\ UNCHANGED <<worker_vars, status, reported, created, handler, wmain, meddling>>

CloseStopEvent ==
  /\ service = "close"
  /\ stop_event' = "closed"
  /\ service' = "stop"
  /\ UNCHANGED <<handshake, alive, logger, config, stop_signal, thread_stop, thread_signal, worker,
                 status, reported, created, handler, wmain, meddling>>

Stop ==
  /\ service = "stop"
  /\ status' = Status("stopped", FALSE)
  /\ service' = "report"
  /\ UNCHANGED <<worker_vars, reported, created, handler, wmain, meddling>>

ReportStopped ==
  /\ service = "report"
  /\ SetServiceStatus(status)
  /\ service' = "message"
  /\ UNCHANGED <<worker_vars, status, created, handler, wmain, meddling>>

\* The last message of ServiceMain, after the manager knows of its end.
LastMessage ==
  /\ service = "message" /\ service' = "returned"
  /\ UNCHANGED <<worker_vars, status, reported, created, handler, wmain, meddling>>

ServiceMain == alive /\ (\/ Register \/ CreateStopEvent \/ Run \/ CreateWorker \/ AwaitWorker
                         \/ CloseStopEvent \/ Stop \/ ReportStopped \/ LastMessage)

-----------------------------------------------------------------------------
(* ServiceCtrlHandler.  The manager sends STOP to a service that accepts it.  *)

ControlStop ==
  /\ alive /\ handler = "idle" /\ wmain = "dispatch" /\ reported.accepts
  /\ status.state = "running"
  /\ handler' = "pending"
  /\ UNCHANGED <<worker_vars, status, reported, service, created, wmain, meddling>>

\* A mistake: the event is set before the status is reported.
SetStopEventFirst ==
  /\ handler = "pending"
  /\ status' = Status("stop_pending", FALSE)
  /\ stop_signal' = (stop_signal \/ stop_event = "open")
  /\ handler' = "report"
  /\ UNCHANGED <<handshake, alive, logger, config, stop_event, thread_stop, thread_signal, worker,
                 reported, service, created, wmain, meddling>>

StopPending ==
  /\ handler = "pending"
  /\ status' = Status("stop_pending", FALSE)
  /\ handler' = "report"
  /\ UNCHANGED <<worker_vars, reported, service, created, wmain, meddling>>

\* A mistake: the handler returns when the report fails.
GiveUp ==
  /\ handler = "report"
  /\ SetServiceStatus(status)
  /\ handler' = IF reported' = status THEN "set" ELSE "idle"
  /\ UNCHANGED <<worker_vars, status, service, created, wmain, meddling>>

ReportPending ==
  /\ handler = "report"
  /\ SetServiceStatus(status)
  /\ handler' = "set"
  /\ UNCHANGED <<worker_vars, status, service, created, wmain, meddling>>

SetStopEvent ==
  /\ handler = "set"
  /\ stop_signal' = (stop_signal \/ stop_event = "open")
  /\ handler' = "idle"
  /\ UNCHANGED <<handshake, alive, logger, config, stop_event, thread_stop, thread_signal, worker,
                 status, reported, service, created, wmain, meddling>>

ServiceCtrlHandler == alive /\ (StopPending \/ ReportPending \/ SetStopEvent)

-----------------------------------------------------------------------------
(* wmain: StartServiceCtrlDispatcher returns when the manager knows that the   *)
(* service has stopped; the statics are destroyed, and the process ends.       *)

Return ==
  /\ wmain = "dispatch" /\ handler = "idle" /\ reported.state = "stopped"
  /\ wmain' = "returned"
  /\ logger' = "destroyed"
  /\ UNCHANGED <<handshake, alive, config, events, worker, status, reported, service, created, handler, meddling>>

End ==
  /\ wmain = "returned"
  /\ alive' = FALSE
  /\ UNCHANGED <<handshake, logger, config, events, worker, service_vars>>

Main == alive /\ (Return \/ End)

-----------------------------------------------------------------------------
(* The file, the process and the service manager from outside.                 *)

\* Somebody writes, replaces or deletes the file, also while it is read.
EditFile ==
  /\ meddling < MaxMeddling /\ meddling' = meddling + 1
  /\ file' \in Contents \cup {Absent}
  /\ UNCHANGED <<handshake, alive, logger, access, settings, events, worker,
                 status, reported, service, created, handler, wmain>>

Kill ==
  /\ alive /\ meddling < MaxMeddling /\ meddling' = meddling + 1
  /\ alive' = FALSE
  /\ UNCHANGED <<handshake, logger, config, events, worker,
                 status, reported, service, created, handler, wmain>>

\* The recovery that InstallService asks for: a process that has ended without a
\* report that the service is stopped is started again, also for the third time
\* and from then on.
Restart ==
  /\ ~alive /\ reported.state # "stopped"
  /\ monitor' = "init" /\ is_collect' = FALSE /\ collector_thread_id' = None /\ collector' = None
  /\ settings' = NoValues /\ alive' = TRUE /\ logger' = "open"
  /\ stop_event' = "invalid" /\ stop_signal' = FALSE
  /\ thread_stop' = "invalid" /\ thread_signal' = FALSE /\ worker' = "none"
  /\ status' = Status("none", FALSE) /\ reported' = Status("none", FALSE)
  /\ service' = "register" /\ created' = FALSE
  /\ handler' = "idle" /\ wmain' = "dispatch"
  /\ UNCHANGED <<file, access, meddling>>

Others == UNCHANGED service_vars
Next == \/ ServiceMain \/ ControlStop \/ ServiceCtrlHandler \/ Main
        \/ WorkerThread /\ Others
        \/ CollectorThread /\ Others
        \/ EditFile \/ Kill \/ Restart

Spec == Init /\ [][Next]_vars

\* Every thread is scheduled and the manager restarts what has failed; nobody has
\* to stop the service.
FairSpec == /\ Spec
            /\ WF_vars(ServiceMain) /\ WF_vars(ServiceCtrlHandler) /\ WF_vars(Main) /\ WF_vars(Restart)
            /\ WF_vars(WorkerThread /\ Others) /\ WF_vars(CollectorThread /\ Others)

-----------------------------------------------------------------------------
\* The variables of the service keep their types.
TypeOK ==
  /\ WorkerTypeOK
  /\ status \in [state : {States[k] : k \in 1 .. 5}, accepts : BOOLEAN]
  /\ reported \in [state : {States[k] : k \in 1 .. 5}, accepts : BOOLEAN]
  /\ service \in {"register", "event", "run", "create", "wait", "close", "stop", "report",
                  "message", "returned"}
  /\ created \in BOOLEAN
  /\ handler \in {"idle", "pending", "report", "set"}
  /\ wmain \in {"dispatch", "returned"} /\ meddling \in 0 .. MaxMeddling

Rank(s) == CHOOSE k \in 1 .. 5 : States[k] = s.state

\* What the manager is told never goes back, although the handler and
\* ServiceMain write and report the same status without a lock: with a worker
\* to wait for, ServiceMain writes again only after the handler is through.
StatusForward ==
  [][created /\ alive => Rank(reported') >= Rank(reported) /\ Rank(status') >= Rank(status)]_vars

\* The handler never sets an event that ServiceMain has closed.
StopEventOpen == handler # "idle" /\ created => stop_event = "open"

\* A service that is reported stopped has stopped: no pass is under way, the
\* collector is through, and only then may wmain destroy the logger.
StoppedMeansStopped ==
  /\ reported.state = "stopped" => Stopped
  /\ logger = "destroyed" => Stopped /\ handler = "idle"

\* A stop that was accepted is carried out, wherever the worker is and however
\* the reports fail, save in the schedule in which the worker hangs.
StopCompletes == handler = "pending" ~> service = "returned" \/ ~alive \/ Hung

-----------------------------------------------------------------------------
\* Whatever the file says, a service that works has processes to look for, and
\* never those of the whole machine (settings.cpp:100).
FilterNotEmpty == worker \in {"init", "wait", "check", "work"} => settings.processes # {}

\* The numbers fit in an int, and the windows have a reading.
Reasonable(values) == 1 <= values.frequency /\ values.frequency <= values.period

\* With numbers that make sense the worker and the collector never end the process,
\* for every ring they write to has a slot (Init, AddCounter, AddProcess, Collect).
ReasonableSettingsRun ==
  [][alive /\ ~alive' /\ meddling' = meddling /\ worker \in {"init", "wait", "check", "work"}
       => ~Reasonable(settings)]_vars

\* The service works with what the file says, or it is not the file that keeps it
\* from working.
Works == worker = "work" /\ settings = Values(file)
Through == service = "returned" \/ (~alive /\ reported.state = "stopped")
           \/ handler # "idle" \/ stop_signal

\* "Delete the settings.json file.  Restart the program.  The default settings will
\* be created" (settings.cpp:78): a service that has ended comes up again without
\* help when the file is gone, or good, and nobody touches it any more; also when it
\* has ended while it was writing the file.
ComesUp ==
  /\ ~alive /\ meddling = MaxMeddling /\ access = "write"
  /\ file = Absent \/ (Correct(file) /\ Reasonable(Values(file)))
  ~> Works \/ Through
=============================================================================
