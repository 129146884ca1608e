------------------------------- MODULE Logger -------------------------------
(* The Logger (Logger.cpp): every thread writes its messages through Print     *)
(* under one mutex, the first message of an hour opens the file of that hour   *)
(* and starts a detached thread that removes the files older than the          *)
(* retention.  The wall clock moves on between any two steps.                  *)
EXTENDS LogFiles, FiniteSets

CONSTANTS Main,             \* the thread of wmain, which calls Open first
          Worker,           \* the thread that calls SetLogStorageDuration
          NoThread,         \* the owner of a mutex that is free
          HoursPerDay,      \* 24
          DefaultDuration,  \* the retention that Open assigns, 24 hours
          Setting,          \* log_storage_duration_in_hours
          OldFiles,         \* the hours that earlier runs may have left files of
          Suspends,         \* may a day pass without a call of the logger?
          OpenFails,        \* may fs_.open fail?
          FirstHour,        \* the hour in which the program starts
          MaxHour,          \* bound: the last hour
          MaxLines,         \* bound: the lines written to all files
          MaxCleaners       \* bound: the clean-ups that an hour may leave behind

ASSUME LoggerAssumption ==
  /\ Main \in Thread /\ Worker \in Thread /\ NoThread \notin Thread
  /\ HoursPerDay \in Nat \ {0} /\ FirstHour \in Nat
  /\ DefaultDuration \in Nat /\ Setting \in Nat /\ Shortest \in Nat
  /\ Shortest <= DefaultDuration /\ Shortest <= Setting
  /\ \A f \in OldFiles : f \in Nat /\ f < FirstHour
  /\ MaxHour \in Nat /\ MaxLines \in Nat /\ MaxCleaners \in Nat
  /\ Suspends \in BOOLEAN /\ OpenFails \in BOOLEAN

Unset == -1                 \* an hour that has not been read yet

VARIABLES
  print_,                   \* the mutex: the thread that holds it, or NoThread
  pc,                       \* where each thread is in Print
  cur_hour_,                \* the hour of the day in which the file was named
  name,                     \* the hour in the name of the file last opened
  is_open,                  \* fs_.is_open()
  buffer,                   \* what has been sent to fs_ since the last flush
  log_storage_duration_,
  cleaners,                 \* the detached threads in DeleteLogHistory
  checked,                  \* history: the hour of the last test of cur_hour_
  configured,               \* history: has SetLogStorageDuration been called?
  stuck,                    \* history: the files whose removal has failed
  lines                     \* history: the number of lines written or lost

stream == <<cur_hour_, name, is_open, buffer>>
history == <<checked, configured, stuck, lines>>
vars == <<now, files, print_, pc, stream, log_storage_duration_, cleaners, history>>

\* A clean-up that has not read the clock yet, and one at work.
NewCleaner(duration) == [duration |-> duration, begun |-> FALSE, todo |-> {}]

Init == /\ now = FirstHour
        /\ \E left \in SUBSET OldFiles : files = [f \in left |-> << >>]
        /\ print_ = NoThread
        /\ pc = [t \in Thread |-> IF t = Main THEN "name" ELSE "idle"]
        /\ cur_hour_ = Unset /\ name = Unset /\ is_open = FALSE /\ buffer = << >>
        /\ log_storage_duration_ = DefaultDuration
        /\ cleaners = {}
        /\ checked = FirstHour /\ configured = FALSE /\ stuck = {} /\ lines = 0

-----------------------------------------------------------------------------
(* Print and NewFileWithLock. *)

Goto(t, place) == pc' = [pc EXCEPT ![t] = place]

\* The Open of wmain, which takes no lock, comes before there are other threads.
Started == print_ # NoThread \/ pc[Main] = "idle"

\* Two mistakes: no lock is taken, and a file that is open stays open.
NoLock(t) == TRUE
NotOpenYet == cur_hour_ = Unset

Free(t) == print_ = NoThread

\* NewFile's test, which knows the hour of the day only.
NewHour == cur_hour_ # now % HoursPerDay

\* The mutex, and the test, which closes the file of another hour.
Lock(t) ==
  /\ pc[t] = "idle" /\ Started /\ Free(t) /\ lines < MaxLines
  /\ print_' = t /\ checked' = now
  /\ IF NewHour THEN Goto(t, "name") /\ is_open' = FALSE
                ELSE Goto(t, "filter") /\ UNCHANGED is_open
  /\ UNCHANGED <<now, files, cur_hour_, name, buffer, log_storage_duration_, cleaners,
                 configured, stuck, lines>>

\* Open up to LogFileName, which reads the clock again.  The retention is reset
\* here, also in the first Open, on the way to every clean-up.
NameFile(t) ==
  /\ pc[t] = "name"
  /\ log_storage_duration_' = DefaultDuration
  /\ name' = now /\ cur_hour_' = now % HoursPerDay
  /\ Goto(t, "open")
  /\ UNCHANGED <<now, files, print_, is_open, buffer, cleaners, history>>

\* A mistake: nothing is cleaned up.
NoCleaners == cleaners

\* DeleteLogHistory is started on a thread of its own with the retention of now.
MoreCleaners == cleaners \cup {NewCleaner(log_storage_duration_)}

\* The file is opened for appending, and the clean-up starts, also when the file
\* could not be opened.  The Open of wmain is not part of a Print.
OpenFile(t) ==
  /\ pc[t] = "open"
  /\ is_open' \in {TRUE, ~OpenFails}
  /\ files' = IF is_open' /\ name \notin DOMAIN files
              THEN [f \in DOMAIN files \cup {name} |-> IF f = name THEN << >> ELSE files[f]]
              ELSE files
  /\ cleaners' = MoreCleaners
  /\ Goto(t, IF print_ = t THEN "filter" ELSE "idle")
  /\ UNCHANGED <<now, print_, cur_hour_, name, buffer, log_storage_duration_, history>>

\* A message below the minimum level is dropped, and NewFileWithLock has none.
Filter(t) ==
  /\ pc[t] = "filter"
  /\ \/ Goto(t, "time") /\ UNCHANGED print_
     \/ Goto(t, "idle") /\ print_' = NoThread
  /\ UNCHANGED <<now, files, stream, log_storage_duration_, cleaners, history>>

\* A stream without a file takes nothing.
Send(piece) == buffer' = IF is_open THEN Append(buffer, piece) ELSE buffer

\* CurTime reads the clock a third time.
PrintTime(t) ==
  /\ pc[t] = "time"
  /\ Send(TimePiece(t, now))
  /\ Goto(t, "message")
  /\ UNCHANGED <<now, files, print_, cur_hour_, name, is_open, log_storage_duration_, cleaners,
                 history>>

PrintMessage(t) ==
  /\ pc[t] = "message"
  /\ Send(MessagePiece(t))
  /\ Goto(t, "flush")
  /\ UNCHANGED <<now, files, print_, cur_hour_, name, is_open, log_storage_duration_, cleaners,
                 history>>

\* The line reaches the file, or is lost when the file could not be opened, and
\* the mutex is released.
Flush(t) ==
  /\ pc[t] = "flush"
  /\ files' = IF is_open THEN [files EXCEPT ![name] = Append(@, buffer)] ELSE files
  /\ buffer' = << >>
  /\ lines' = lines + 1
  /\ print_' = NoThread /\ Goto(t, "idle")
  /\ UNCHANGED <<now, cur_hour_, name, is_open, log_storage_duration_, cleaners,
                 checked, configured, stuck>>

PrintLine(t) == \/ Lock(t) \/ NameFile(t) \/ OpenFile(t) \/ Filter(t)
                \/ PrintTime(t) \/ PrintMessage(t) \/ Flush(t)

\* The worker calls it once, when it has read the settings; no lock is taken.
SetLogStorageDuration ==
  /\ pc[Worker] = "idle" /\ Started /\ ~configured
  /\ log_storage_duration_' = Setting
  /\ configured' = TRUE
  /\ UNCHANGED <<now, files, print_, pc, stream, cleaners, checked, stuck, lines>>

-----------------------------------------------------------------------------
(* DeleteLogHistory, on its own thread. *)

\* A mistake: the file of the limit itself goes too.
OldUpTo(duration) == {f \in DOMAIN files : f <= now - duration}
Old(duration) == {f \in DOMAIN files : f < now - duration}

\* The clock is read once, and the directory is listed.  Threads that are alike
\* are kept as one, for removing a file twice is removing it once.
BeginCleanUp(c) ==
  /\ ~c.begun
  /\ cleaners' = (cleaners \ {c}) \cup {[c EXCEPT !.begun = TRUE, !.todo = Old(c.duration)]}
  /\ UNCHANGED <<now, files, print_, pc, stream, log_storage_duration_, history>>

\* One file is removed.  The removal fails when the logger has the file open, or
\* when somebody else has; the error is ignored.
RemoveFile(c, f) ==
  /\ c.begun /\ f \in c.todo
  /\ cleaners' = (cleaners \ {c}) \cup {[c EXCEPT !.todo = @ \ {f}]}
  /\ \/ /\ f \in DOMAIN files /\ ~(is_open /\ f = name)
        /\ files' = [g \in DOMAIN files \ {f} |-> files[g]]
        /\ UNCHANGED stuck
     \/ /\ stuck' = stuck \cup {f}
        /\ UNCHANGED files
  /\ UNCHANGED <<now, print_, pc, stream, log_storage_duration_, checked, configured, lines>>

EndCleanUp(c) ==
  /\ c.begun /\ c.todo = {}
  /\ cleaners' = cleaners \ {c}
  /\ UNCHANGED <<now, files, print_, pc, stream, log_storage_duration_, history>>

CleanUp == \E c \in cleaners : \/ BeginCleanUp(c)
                               \/ \E f \in c.todo : RemoveFile(c, f)
                               \/ EndCleanUp(c)

-----------------------------------------------------------------------------
\* An hour passes.  The worker calls NewFileWithLock before every pass, so a day
\* passes without a call only when the machine, or the balancing, is suspended.
Tick ==
  /\ now < MaxHour /\ Cardinality(cleaners) <= MaxCleaners
  /\ Suspends \/ now + 1 - checked < HoursPerDay
  /\ now' = now + 1
  /\ UNCHANGED <<files, print_, pc, stream, log_storage_duration_, cleaners, history>>

Next == (\E t \in Thread : PrintLine(t)) \/ SetLogStorageDuration \/ CleanUp \/ Tick

Spec == Init /\ [][Next]_vars

\* Every thread is scheduled, the detached ones too, and no call to a file blocks
\* for ever.
FairSpec == Spec /\ (\A t \in Thread : WF_vars(PrintLine(t))) /\ WF_vars(CleanUp)

-----------------------------------------------------------------------------
Lines(last) == {Line(t, hour) : t \in Thread, hour \in 0 .. last}
Pieces(last) == {TimePiece(t, hour) : t \in Thread, hour \in 0 .. last}
                  \cup {MessagePiece(t) : t \in Thread}

\* The variables of the logger, the files and the clean-ups keep their types.
TypeOK ==
  /\ now \in Nat /\ DOMAIN files \subseteq Nat
  /\ \A f \in DOMAIN files : files[f] \in Seq(Lines(now))
  /\ print_ \in Thread \cup {NoThread}
  /\ pc \in [Thread -> {"idle", "name", "open", "filter", "time", "message", "flush"}]
  /\ cur_hour_ \in Nat \cup {Unset} /\ name \in Nat \cup {Unset} /\ is_open \in BOOLEAN
  /\ buffer \in Seq(Pieces(now))
  /\ log_storage_duration_ \in {DefaultDuration, Setting}
  /\ cleaners \subseteq [duration : {DefaultDuration, Setting}, begun : BOOLEAN,
                          todo : SUBSET Nat]
  /\ checked \in Nat /\ configured \in BOOLEAN /\ stuck \subseteq Nat /\ lines \in Nat

\* The lines of all threads reach the files whole and in the order of their
\* times, and no clean-up, however late it runs, removes a file before its time
\* or the one that is being written (Print, NewFile, Open, DeleteLogHistory).
ImplementsLogFiles == SpecFiles

\* A message is not written to the file of an hour before its call: comparing
\* the hour of the day is enough to notice a new hour, as long as no day passes
\* without a call.  A file that could not be opened thus costs the messages of
\* one hour at most.
FileOfTheCall ==
  \A t \in Thread : pc[t] \in {"time", "message", "flush"} => checked <= name /\ name <= now

\* A file that is too old when another is opened goes some time later, unless
\* its removal fails.
TooOld(f) == /\ f \in DOMAIN files /\ name # Unset
             /\ f + DefaultDuration < name /\ f + Setting < name
OldFilesGo == \A f \in 0 .. MaxHour : TooOld(f) ~> f \notin DOMAIN files \/ f \in stuck

\* log_storage_duration_in_hours is how long logs are kept (README.md:18): a
\* clean-up that is started once the setting is known works with the setting.  The
\* code does not keep this: Open assigns 24 hours just before it starts a clean-up,
\* so none works with the setting, unless the worker writes it between the two.
RetentionIsSetting ==
  [][\A t \in Thread : configured /\ OpenFile(t) => log_storage_duration_ = Setting]_vars
=============================================================================
