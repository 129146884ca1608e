------------------------------- MODULE Console -------------------------------
(* The program in a console (main.cpp): RunConsole, the worker, and the        *)
(* handler of control events, which the system calls on a thread of its own.   *)
(* RunConsole replaces the handle of the stop event while the worker may be    *)
(* waiting on it, and gives the worker five seconds to stop.  No name of this   *)
(* module is one of Service, so that a module may speak of both.               *)
EXTENDS Worker

VARIABLES
  console,              \* where RunConsole and wmain are
  routine,              \* where HandlerRoutine is
  control,              \* its event: a "break" (or Ctrl+C), or a "close"
  prompted,             \* has the user been told to press Ctrl+C?
  in_time               \* does a worker that does not hang stop within five
                        \* seconds?

console_vars == <<console, routine, control, prompted, in_time>>
program_vars == <<worker_vars, console_vars>>

InitConsole ==
  /\ InitFile /\ InitWorker
  /\ console = "start" /\ routine = "idle" /\ control = "break" /\ prompted = FALSE
  /\ in_time \in BOOLEAN

-----------------------------------------------------------------------------
(* RunConsole. *)

\* Without an event the worker is not started.
CreateConsoleEvent ==
  /\ console = "start"
  /\ \/ stop_event' = "open" /\ console' = "create"
     \/ stop_event' = "null" /\ console' = "thread_stop"
  /\ UNCHANGED <<handshake, alive, logger, config, stop_signal, thread_stop, thread_signal, worker,
                 routine, control, prompted, in_time>>

\* Whether the thread could be created is not looked at.
StartWorker ==
  /\ console = "create" /\ console' = "prompt"
  /\ worker' \in {"settings", "none"}
  /\ UNCHANGED <<handshake, alive, logger, config, events, routine, control, prompted, in_time>>

Prompt ==
  /\ console = "prompt" /\ console' = "wait"
  /\ prompted' = TRUE
  /\ UNCHANGED <<worker_vars, routine, control, in_time>>

AwaitStop ==
  /\ console = "wait" /\ stop_signal
  /\ console' = "close"
  /\ UNCHANGED <<worker_vars, routine, control, prompted, in_time>>

CloseConsoleEvent ==
  /\ console = "close" /\ console' = "invalidate"
  /\ stop_event' = "closed"
  /\ UNCHANGED <<handshake, alive, logger, config, stop_signal, thread_stop, thread_signal, worker,
                 routine, control, prompted, in_time>>

InvalidateStopEvent ==
  /\ console = "invalidate" /\ console' = "thread_stop"
  /\ stop_event' = "invalid"
  /\ UNCHANGED <<handshake, alive, logger, config, stop_signal, thread_stop, thread_signal, worker,
                 routine, control, prompted, in_time>>

CreateThreadStop ==
  /\ console = "thread_stop" /\ console' = "grace"
  /\ thread_stop' \in {"open", "null"}
  /\ UNCHANGED <<handshake, alive, logger, config, stop_event, stop_signal, thread_signal, worker,
                 routine, control, prompted, in_time>>

\* Will five seconds pass?  Not before a worker that stops in time has stopped.
TimeoutDue == ~in_time \/ worker \in {"none", "done"} \/ Hung

\* A mistake: a wait without a limit.
AwaitForEver ==
  /\ console = "grace"
  /\ thread_signal
  /\ console' = "leave"
  /\ UNCHANGED <<worker_vars, routine, control, prompted, in_time>>

\* The event, the timeout, or no event to wait for.
AwaitThreadStop ==
  /\ console = "grace"
  /\ thread_signal \/ TimeoutDue \/ thread_stop = "null"
  /\ console' = "leave"
  /\ UNCHANGED <<worker_vars, routine, control, prompted, in_time>>

CloseThreadStop ==
  /\ console = "leave" /\ console' = "return"
  /\ thread_stop' = IF thread_stop = "null" THEN "null" ELSE "closed"
  /\ UNCHANGED <<handshake, alive, logger, config, stop_event, stop_signal, thread_signal, worker,
                 routine, control, prompted, in_time>>

\* wmain returns: the statics are destroyed, and the process ends.
ReturnFromMain ==
  /\ console = "return" /\ console' = "end"
  /\ logger' = "destroyed"
  /\ UNCHANGED <<handshake, alive, config, events, worker, routine, control, prompted, in_time>>

EndConsole ==
  /\ console = "end"
  /\ alive' = FALSE
  /\ UNCHANGED <<handshake, logger, config, events, worker, console_vars>>

RunConsole == alive /\ (\/ CreateConsoleEvent \/ StartWorker \/ Prompt \/ AwaitStop
                        \/ CloseConsoleEvent \/ InvalidateStopEvent \/ CreateThreadStop
                        \/ AwaitThreadStop \/ CloseThreadStop \/ ReturnFromMain \/ EndConsole)

-----------------------------------------------------------------------------
(* HandlerRoutine.  A handler that returns FALSE leaves the event to the       *)
(* system, which ends the process; so does a close, a logoff or a shutdown     *)
(* when the handler has returned.                                              *)

Press ==
  /\ alive /\ routine = "idle"
  /\ routine' = "test" /\ control' \in {"break", "close"}
  /\ UNCHANGED <<worker_vars, console, prompted, in_time>>

TestStopEvent ==
  /\ routine = "test"
  /\ IF stop_event = "null" THEN routine' = "idle" /\ alive' = FALSE
                            ELSE routine' = "set" /\ UNCHANGED alive
  /\ UNCHANGED <<handshake, logger, config, events, worker, console, control, prompted, in_time>>

RaiseStopEvent ==
  /\ routine = "set"
  /\ stop_signal' = (stop_signal \/ stop_event = "open")
  /\ routine' = "idle" /\ alive' = (control = "break")
  /\ UNCHANGED <<handshake, logger, config, stop_event, thread_stop, thread_signal, worker,
                 console, control, prompted, in_time>>

HandlerRoutine == alive /\ (TestStopEvent \/ RaiseStopEvent)

ConsoleStays == UNCHANGED console_vars
NextConsole == \/ RunConsole \/ Press \/ HandlerRoutine
               \/ WorkerThread /\ ConsoleStays
               \/ CollectorThread /\ ConsoleStays

SpecConsole == InitConsole /\ [][NextConsole]_program_vars

\* Every thread is scheduled, a wait with a limit ends, and nobody has to press.
FairSpecConsole ==
  /\ SpecConsole
  /\ WF_program_vars(RunConsole) /\ WF_program_vars(HandlerRoutine)
  /\ WF_program_vars(WorkerThread /\ ConsoleStays)
  /\ WF_program_vars(CollectorThread /\ ConsoleStays)

-----------------------------------------------------------------------------
\* The variables of the console program keep their types.
ConsoleTypeOK ==
  /\ WorkerTypeOK
  /\ console \in {"start", "create", "prompt", "wait", "close", "invalidate", "thread_stop",
                  "grace", "leave", "return", "end"}
  /\ routine \in {"idle", "test", "set"} /\ control \in {"break", "close"}
  /\ prompted \in BOOLEAN /\ in_time \in BOOLEAN

\* Once the console says "Press Ctrl+C for exit" (main.cpp:228), a Ctrl+C ends
\* the program: also when the worker hangs, has never been created, or has left
\* before the event it should set was there.
CtrlCExits == prompted /\ routine = "test" ~> ~alive

\* A worker that is given the time it needs leaves its loop after the stop event
\* is set, although the handle it waits on is closed and replaced under it.
LoopEnds ==
  stop_signal /\ in_time ~> worker \in {"none", "destroy", "exit", "signal", "done"} \/ ~alive

\* RunConsole does not return under a worker that stops in time, unless it had
\* no event to wait for: the logger is destroyed when nothing is left that logs.
ReturnsAfterWorker ==
  logger = "destroyed" /\ in_time => Stopped \/ Hung \/ thread_stop = "null"
=============================================================================
