------------------------------- MODULE Worker -------------------------------
(* WorkerThread (main.cpp) with the monitor it owns, and the two global events *)
(* by which the rest of the program stops it.  Service and Console add the     *)
(* threads that create the events and the worker.                              *)
EXTENDS StopHandshake, Settings

CONSTANT Contents       \* what a user may have written into settings.json

\* A file that is there is not JSON, a value, or an object whose numbers need not
\* fit in an int.
ASSUME ContentsAssumption ==
  Contents \subseteq [kind : {"unparsable", "value", "object"}, complete : BOOLEAN,
                      frequency : Int, period : Int, names : SUBSET Name]

VARIABLES
  file,                 \* the content of settings.json, which outlives the process
  access,               \* may the program "write", only "read", or "none"?
  settings,             \* the values that have been read
  alive,                \* does the process still run?
  logger,               \* the Logger: "open", or "destroyed" when wmain has returned
  stop_event,           \* g_ServiceStopEvent: "invalid" (INVALID_HANDLE_VALUE),
                        \* "null", or the handle of an "open" or "closed" event
  stop_signal,          \* has that event been set?
  thread_stop,          \* g_ServiceThreadStop, likewise
  thread_signal,        \* has it been set?
  worker                \* where WorkerThread is

events == <<stop_event, stop_signal, thread_stop, thread_signal>>
config == <<file, access, settings>>
worker_vars == <<handshake, alive, logger, config, events, worker>>

InitFile == file \in Contents \cup {Absent} /\ access \in {"write", "read", "none"}

InitWorker ==
  /\ InitHandshake
  /\ settings = NoValues
  /\ alive = TRUE /\ logger = "open"
  /\ stop_event = "invalid" /\ stop_signal = FALSE
  /\ thread_stop = "invalid" /\ thread_signal = FALSE
  /\ worker = "none"

Handle == {"invalid", "null", "open", "closed"}
SettingsRead == {Values(c) : c \in Contents \cup {Defaults}}

WorkerTypeOK ==
  /\ monitor \in {"init", "start", "running", "waiting", "destroyed"}
  /\ is_collect \in BOOLEAN /\ collector_thread_id \in {None, "collector"}
  /\ collector \in {None, "spawned", "test", "collect", "leave", "done"}
  /\ alive \in BOOLEAN /\ logger \in {"open", "destroyed"}
  /\ stop_event \in Handle /\ stop_signal \in BOOLEAN
  /\ thread_stop \in Handle /\ thread_signal \in BOOLEAN
  /\ file \in Contents \cup {Absent, NotJson, Defaults} /\ access \in {"write", "read", "none"}
  /\ settings \in {NoValues} \cup SettingsRead
  /\ worker \in {"none", "settings", "create", "truncate", "write", "open", "init", "wait", "check", "work", "destroy",
                 "exit", "signal", "done"}
  /\ worker \in {"none", "settings", "create", "truncate", "write", "open"} => monitor = "init"
  /\ worker \in {"wait", "check", "work"} => monitor = "running"
  /\ worker \in {"exit", "signal", "done"} => monitor = "destroyed"

-----------------------------------------------------------------------------
(* Settings::Read, which a user who edits the file may interrupt anywhere.     *)

\* A mistake: no file is created.
OpenAnyway ==
  /\ worker = "settings" /\ worker' = "open"
  /\ UNCHANGED <<handshake, alive, logger, config, events>>

TestFile ==
  /\ worker = "settings"
  /\ worker' = IF file.kind = "absent" THEN "create" ELSE "open"
  /\ UNCHANGED <<handshake, alive, logger, config, events>>

\* CreateSettings tests again.
TestAgain ==
  /\ worker = "create"
  /\ worker' = IF file.kind = "absent" THEN "truncate" ELSE "open"
  /\ UNCHANGED <<handshake, alive, logger, config, events>>

\* An ofstream is opened, which empties a file that may have come meanwhile, and
\* the defaults are written when it is closed.
TruncateFile ==
  /\ worker = "truncate"
  /\ IF access = "write" THEN worker' = "write" /\ file' = NotJson
                         ELSE worker' = "open" /\ UNCHANGED file
  /\ UNCHANGED <<handshake, alive, logger, access, settings, events>>

WriteDefaults ==
  /\ worker = "write" /\ worker' = "open"
  /\ file' = Defaults
  /\ UNCHANGED <<handshake, alive, logger, access, settings, events>>

\* A file that cannot be opened or is not correct ends the process.
ReadFile ==
  /\ worker = "open"
  /\ IF Correct(file) /\ access # "none"
     THEN worker' = "init" /\ settings' = Values(file) /\ UNCHANGED alive
     ELSE alive' = FALSE /\ UNCHANGED <<worker, settings>>
  /\ UNCHANGED <<handshake, logger, file, access, events>>

ReadSettings == TestFile \/ TestAgain \/ TruncateFile \/ WriteDefaults \/ ReadFile

Die == alive' = FALSE /\ UNCHANGED <<handshake, logger, config, events, worker>>

-----------------------------------------------------------------------------
\* ProcessesInfo::Init: the division, the counters, and the two steps of
\* StartCollecting.
InitProcesses ==
  /\ worker = "init"
  /\ IF Traps(settings) \/ ~CountersExist(settings) THEN Die
     ELSE /\ \/ Create /\ UNCHANGED worker
             \/ StoreId /\ worker' = "wait"
          /\ UNCHANGED <<alive, logger, config, events>>

\* Does a wait of 0 ms on a handle time out?  INVALID_HANDLE_VALUE is also the
\* pseudo handle of the process itself, which is not signalled while it runs; a
\* closed handle may already be the handle of something else.
TimesOut(handle, signal) ==
  CASE handle = "invalid" -> {TRUE}
    [] handle = "null"    -> {FALSE}
    [] handle = "open"    -> {~signal}
    [] handle = "closed"  -> BOOLEAN

Wait ==
  /\ worker = "wait"
  /\ \E timeout \in TimesOut(stop_event, stop_signal) :
       worker' = IF timeout THEN "check" ELSE "destroy"
  /\ UNCHANGED <<handshake, alive, logger, config, events>>

\* A mistake: only the result of the wait is looked at.
CheckNothing ==
  /\ worker = "check" /\ worker' = "work"
  /\ UNCHANGED <<handshake, alive, logger, config, events>>

\* The variable is read a second time, after the wait.
Check ==
  /\ worker = "check"
  /\ worker' = IF stop_event = "invalid" THEN "destroy" ELSE "work"
  /\ UNCHANGED <<handshake, alive, logger, config, events>>

\* NewFileWithLock, Read and SetAffinity when they are due, and the sleep.  The
\* ring of a listed process that cannot be made, or has no slot to write to, ends
\* the process.
Work ==
  /\ worker = "work"
  /\ \/ worker' = "wait" /\ UNCHANGED <<handshake, alive, logger, config, events>>
     \/ ~RingsExist(settings) /\ Die
     \/ ~RingsHaveSlots(settings) /\ Die

\* A mistake: the monitor outlives the thread that owns it.
KeepMonitor ==
  /\ worker = "destroy" /\ worker' = "exit"
  /\ UNCHANGED <<handshake, alive, logger, config, events>>

\* The block with the ProcessesInfo ends: ~PerfMonitor.
DestroyProcesses ==
  /\ worker = "destroy"
  /\ \/ ClearFlag /\ UNCHANGED worker
     \/ Destroy /\ worker' = "exit"
  /\ UNCHANGED <<alive, logger, config, events>>

\* The last message, and the test of g_ServiceThreadStop.
TestThreadStop ==
  /\ worker = "exit"
  /\ worker' = IF thread_stop # "invalid" THEN "signal" ELSE "done"
  /\ UNCHANGED <<handshake, alive, logger, config, events>>

Signal ==
  /\ worker = "signal" /\ worker' = "done"
  /\ thread_signal' = (thread_signal \/ thread_stop = "open")
  /\ UNCHANGED <<handshake, alive, logger, config, stop_event, stop_signal, thread_stop>>

WorkerThread == alive /\ (\/ ReadSettings \/ InitProcesses \/ Wait \/ Check \/ Work
                          \/ DestroyProcesses \/ TestThreadStop \/ Signal)

\* A sample that is added to a counter without a slot ends the process.
CollectorThread ==
  /\ alive
  /\ \/ Collector /\ UNCHANGED <<alive, logger, config, events, worker>>
     \/ collector = "collect" /\ ~CountersHaveSlots(settings) /\ Die

-----------------------------------------------------------------------------
\* Nothing of the balancer is left to run.
Stopped == worker \in {"none", "done"} /\ collector \in {None, "done"}

\* The one schedule in which the worker waits for ever: the first statement of
\* the collector comes after the first statement of the destructor, and sets
\* the flag again (perf_monitor.cpp:8 and 18).
Hung == monitor = "waiting" /\ is_collect
=============================================================================
