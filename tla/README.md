# A TLA+ model of yellow-balancer

yellow-balancer is a Windows service that spreads the processes of a
1C:Enterprise server over the NUMA nodes of the machine. Once a second it samples
the load of every node; every `switching_frequency_in_seconds` it looks at the
listed processes, and when the nodes are loaded unevenly it binds each of them,
the hungriest first, to the next node in a circle.

This directory holds TLA+ modules translated from the C++ sources, TLC
configurations that check them on small instances, and proofs, checked by TLAPS,
of the properties that matter most. Run from this directory:

    tlc -config MCBalancer.cfg MCBalancer.tla
    tlapm BalancerProofs.tla

`PROJECT.json` lists the runs, the theorems, the source lines behind every
definition, and the hazards of the code with the properties that watch them.

## 1. The system

All sources are in `src/yellow-balancer/`.

| Component | State | Operations |
|---|---|---|
| `RingBuffer<T>` (ring_buffer.h) | `buffer_`, `index_`, `size_` | constructor, `Add`, `Size`, `Capacity`, `Avg` |
| Table of processes (`ProcessesInfo::Read`, ProcessInfo.cpp) | `processes_`: pid to creation time, last user time, ring of differences, threads | `ActiveProcesses`, `DeleteOldProcess`, `AddProcess`, `Read` |
| Affinity pass (`ProcessesInfo::SetAffinity`, ProcessInfo.cpp) | locals of one call; the affinities the OS keeps | `IsNeedToSetAffinity`, sort, `CalculateNumaWeight`, `SetProcessAffinity`, `SetThreadAffinity` |
| `PerfMonitor` (perf_monitor.cpp) | counters and their rings, `is_collect_`, `collector_thread_id_`, a mutex | `AddCounter`, `StartCollecting`, `Collect`, `GetAvgValues`, destructor |
| Worker thread (`WorkerThread`, main.cpp) | `last_run`, `cur_run`; owns the `ProcessesInfo` | read settings, initialise, loop, destroy, signal |
| Service (`ServiceMain`, `ServiceCtrlHandler`, main.cpp) | `g_ServiceStatus`, `g_ServiceStopEvent` | start, report, wait, stop |
| Console (`RunConsole`, `HandlerRoutine`, main.cpp) | the same events | prompt, wait, 5 s of grace, return |
| Test mode, installation (main.cpp) | none | straight lines of system calls |
| `Logger` (Logger.cpp) | the open file, `cur_hour_`, `log_storage_duration_`, a mutex | `Open`, `Print`, `NewFile`, `NewFileWithLock`, `SetLogStorageDuration`, `DeleteLogHistory` on a detached thread |
| `Settings` (settings.cpp) | settings.json, and the values read from it | `Read`, `CreateSettings` |
| Options, encoding | none | wrappers of libraries |

How they interact. `wmain` opens the `Logger` and starts either `RunConsole` or the
service dispatcher. Both create the stop event and then the worker thread. The
worker reads the `Settings`, gives the logger its retention, and owns a
`ProcessesInfo`, which owns a `PerfMonitor`; `Init` adds one counter for the
machine and one for each node and starts the *collector* thread. From then on the
collector samples once a second and adds to the rings under a mutex, while the
worker wakes twice a second, tests the stop event, and when a pass is due calls
`NewFileWithLock`, `Read` and `SetAffinity`, which asks the monitor for averages
under the same mutex. A stop comes from the control handler (a thread of the
service manager or of the console) through the event; the worker then destroys
the monitor, which stops the collector through a plain `bool` and a plain thread
id. Every thread writes to the one `Logger`; every file it opens starts a thread
that removes old ones. The service manager starts a service again that ended
without saying so.

What is hard here:

* two threads and two unprotected members decide whether the monitor dies under
  its collector, or its destructor never ends;
* the status and the handle of the stop event are shared by three threads without
  a lock, and the console replaces the handle while the worker waits on it;
* the operating system is a party of its own: processes and threads start and
  exit, and their ids are reused, between a snapshot and the calls that use it;
  every one of those calls may fail alone;
* windows and averages decide everything, and they are ring buffers, unsigned
  divisions and an iterator that advances only sometimes;
* the wall clock decides when a pass is due and which file a message goes to, is
  read several times on the way, and may be set;
* a user may edit the settings while they are read, the process may be killed at
  any moment, and what a bad file says becomes the size of a ring.

What makes each component correct: a ring is a sliding window and its average is
the mean of that window; the table's window of a pid is what that process spent,
reading by reading; a pass takes the nodes in a circle, touches only listed
processes and leaves no thread of them behind; averages are of one and the same
period and stand in the place of their counter; the monitor is not destroyed
under the collector and its destruction ends; passes keep their distance, never
stop coming, and get every listed process bound; a stop is carried out, what is
reported never goes back, and *stopped* means that nothing runs any more; no
settings that make sense end the process, and none let it bind foreign ones; log
lines are whole and in order, and files go neither early nor never.

## 2. The modules

    SlidingWindow                     what a ring promises (abstract)
    RingBuffer <- RingWindow          the ring, and a ring in use (implements it)
        ^   ^
        |   +--- ProcessTable         Read             ---+
        +------- PerfMonitor          collector, worker   |
    CpuLoad <--- PerfMonitor, AffinityPass                |
                 AffinityPass         SetAffinity      ---+--> Balancer
                 WorkerLoop           when a pass is due -+
    StopHandshake                     the end of a monitor (abstract; PerfMonitor
        ^                             implements it)
    Worker <- Service, Console        WorkerThread, and the two ways to run it
        v
    Settings                          what the file may hold and what becomes of it
    LogFiles                          what the log files promise (abstract)
    Logger                            Print and the clean-up (implements it)

A module `MCx` gives the constants of `x` their values, `xProofs` holds its theorems;
ProgramProofs holds those of Worker, Service and Console together, for the two
programs share the worker; it extends both, so no name of Console is one of
Service (`NextConsole`, `SpecConsole`, `program_vars`).

**RingBuffer** has the class as operators on records `[buffer, index, size]`;
`Add` is the member function, `AvgDouble` and `AvgLongLong` are its two
instantiations. `AvgLongLong` divides as the code does: the sum is turned into a
`size_t` of `Width` bits first. `Window(r)` reads the ring from the oldest to the
newest sample; the code never does, it is the refinement mapping. **RingWindow**
is one ring to which samples are added for ever.

**ProcessTable** has the running processes of the OS as `process`, the table as
`processes`, and a history variable `readings` with the last readings that
successive calls of `Read` took of each pid. Some processes run from the start.
`Read(ok, lists)` is one step, for the snapshot is one system call and the rest
works on the copy; `ok = FALSE` is a failed snapshot, which is an empty one, and
`lists` are the threads the system gives with it. Filter, deletion, update and
insertion are the four operators of the source. Names, the kernel time and the
parsing of the system's buffer are left out.

**AffinityPass** is one `SetAffinity` after a `Read`, with a step for every system
call: `Return`/`Decide` (the test of the load, the list, the sort), then for each
process `Skip` or `Query` (its groups and its mask), `SetProcess`, `SetThread` for
every thread of the snapshot, and `Advance`. The OS interleaves starts and exits
of processes and threads. What `Read` leaves (threads with the affinities it saw,
full windows, averages) is chosen freely, because ProcessTable says which values
it computes. `placed` and `failed` are history. The thread affinities are taken
at the snapshot; the code asks for them one by one just after it. `NumaNodes`
is not empty and both entry points of ntdll are found: on a machine without
`NtSetInformationProcess` every pass returns at once.

**PerfMonitor** has both threads: the worker's `AddCounter`, `StartThread`,
`StoreId`, `GetAvgValues`, `ClearFlag`, `Destroy`, and the collector's `SetFlag`,
`TestFlag`, `Query`, `Lock`, `AddValue` (one counter a step), `Unlock`, `Leave`.
`recent` is history: the values of the last seconds, for all counters. `Averages` is
the loop of `GetAvgValues`: its iterator into the result moves on only past a full
ring, so the n-th value is that of the n-th full ring (`NthFull`).

**WorkerLoop** is the loop of `WorkerThread` and its two clocks. Time is counted in
half seconds, the sleep. `period` is `cur_run - last_run`, `elapsed` what has passed
since `cur_run` was read, and `shift` by how much somebody has set the clock
meanwhile, which the wall clock sees and the sleep does not. `lag` bounds how late
the loop may be in one behaviour. `ages` is history: how long ago the last calls of
`Read` were made. **Balancer** puts this loop, ProcessTable and AffinityPass together
over one system: both are instantiated, AffinityPass with `full`, `threads` and
`average` derived from the table instead of chosen, and every action is a joint
action of the parts it concerns. Two steps are taken only where they can be seen:
what a process spends is counted just before the `Read` that sees it, and time
passes, or is set, only where the loop sleeps or is about to read the clock.

**StopHandshake** is what is left of the monitor without its counters: the flag,
the id and the order of creation, storing, clearing, waiting and leaving. It is
the abstract specification that PerfMonitor implements (checked and proved), and
the part of the monitor that **Worker** needs: `WorkerThread` from the reading of
the settings to the signal, with the two events, which are handles that may be
invalid, null, open or closed. `Work` stands for a whole pass. The reading of the
settings has a step for every look at the file (`TestFile`, `TestAgain`,
`TruncateFile`, `WriteDefaults`, `ReadFile`), so that an edit or a kill may come
between any two. **Settings** says which contents are accepted, cuts the numbers to
an `int` of `IntWidth` bits and divides them as `Init` does; what has no sense
there (a division by 0, a ring that cannot be made, or has no slot to write to)
ends the process in Worker (`Die`).

**Service** adds `ServiceMain`, the handler, the end of `wmain`, and what comes from
outside: `EditFile`, `Kill`, and `Restart`, the recovery that `InstallService` asks
for. Every step is the code between two calls of the system, and every such call
may fail. **Console** adds `RunConsole` and `HandlerRoutine`.

**Logger** has every thread in `Print`: the mutex and the test of the hour (`Lock`),
the name (`NameFile`) and the opening of the file (`OpenFile`), the filter, the time
and the message (two pieces in a stream), and the flush that makes them a line of
the file. Each of the three readings of the clock is a step of its own. The
`Open` of `wmain` is the same steps without the mutex, before there are other
threads. A clean-up has its retention from its start, reads the clock and lists
the directory (`BeginCleanUp`), and removes file by file; a removal may fail. A
file is the hour in its name and the sequence of its lines. **LogFiles** is the
abstract specification: files with whole lines of threads, created, written to
and removed.

Each operator whose comment begins "A mistake" is not part of a specification: it
is a plausible error in the definition after it, with which a property must fail.

## 3. What TLC checks

| Run | Configuration | Properties | Shows |
|---|---|---|---|
| ring_window | MCRingWindow | TypeOK, AvgIsMean, ImplementsWindow | the ring is a sliding window |
| process_table | MCProcessTable | TypeOK, WindowIsDifferences, OneProcess, AverageIsConsumption | the table's windows are what one process spent |
| affinity_pass | MCAffinityPass | TypeOK, RoundRobin, HeaviestFirst, WholeProcessMoved, OnlyListed, PassEnds | a pass under failures and exits, its order and its distribution |
| balancer | MCBalancer | TypeOK, ReadsRegular, HeaviestConsumerFirst, PassesGoOn, AllGetBound | loop, table and pass together |
| perf_monitor | MCPerfMonitor | TypeOK, WindowsAreRecent, NoUseAfterDestroy, AlignedAverages, ImplementsHandshake, StopsOnceRunning | collector against worker |
| service | MCService | TypeOK, StopEventOpen, StoppedMeansStopped, FilterNotEmpty, StatusForward, StopCompletes, ReasonableSettingsRun, ComesUp | the life of the service, with bad settings, kills and restarts |
| console | MCConsole | ConsoleTypeOK, ReturnsAfterWorker, CtrlCExits, LoopEnds | the life of the console mode |
| logger | MCLogger | TypeOK, FileOfTheCall, ImplementsLogFiles, OldFilesGo | lines and files under two threads and late clean-ups |

What the composition adds to its parts: `HeaviestConsumerFirst` says that the order
in which a pass binds is the order of what the processes really spent over the
last readings (table and pass together), `AllGetBound` that on a machine that stays
unevenly loaded every listed process is bound to one node with all its threads
once nothing changes any more, also threads that the snapshot of one pass missed,
and `PassesGoOn` that passes come for ever, also after the clock was set back by
more than the frequency. `ReadsRegular` says that the delays of the loop do not add
up to shorten a window, for the next period is counted from the reading of the
clock before the pass, that a window is longer than it is said to be by the lateness
of the tests and one delay only, and that the next pass is not overdue.

Four runs show where the code departs from its own words:

* **pid_reuse** (`AverageWithinUserTime`). The README of the program ranks
  processes by their average user time. `AddProcess` knows a process by its pid
  only; when a pid is reused between two calls of `Read`, the difference may be
  negative, and `Avg` divides a negative sum as an unsigned number. The new
  process is ranked with a gigantic average.
* **error_report** (`ReportTruthful`). `SetProcessAffinity` takes NTSTATUS 0,
  success, for the error. "Error set process affinity" is logged for what worked,
  and nothing for what the call refused. (A process that cannot be opened is reported
  rightly, by line 520; the run has calls that never fail.) The pass goes on either way.
* **misaligned** (`DecisionIsReal`). `GetAvgValues` advances the iterator into its
  result only past a full window. When one counter lags behind the others (its
  value could not be formatted once, or ever), the averages after it move one
  place to the front and the last node shows 0: the decision to balance is made
  from loads no node has.
* **log_retention** (`RetentionIsSetting`). README.md:18 of the program calls
  `log_storage_duration_in_hours` the time that logs are kept. `Open` assigns 24
  hours (Logger.cpp:81) just before it starts a clean-up (line 91), in the same call.
  The first clean-up is started from `wmain`, before any setting has been read, and
  works with 24 hours; the worker then sets the value once; the next clean-up is
  started by the first message of a new hour, whose `Open` assigns 24 hours again. No
  clean-up works with the setting, unless the unlocked write of the worker falls
  between those two lines of another thread's `Open`. The trace is the second
  clean-up: the first has the default duration (2 in this run), the worker sets 1, and
  `NameFile` makes it 2 again before `OpenFile` starts the second.

### Bounds, and why they are enough

* ring_window: capacity 3 and samples -3..4: the ring wraps several times, sums
  are negative, zero and positive; 12 bits hold every sum. The state space is
  finite without a bound on the number of calls.
* process_table: two pids, two images (one listed), windows of 2, user time up to
  2 (`MaxUser`), two processes started under each pid (`MaxCreate`), two values of
  the thread list. A pid can be gone and come back, a window can fill, wrap and be
  dropped. The pids are symmetric.
* affinity_pass: two nodes in two groups and two kinds of scene. In the first a
  listed process has one or two threads, a second pid is free or taken, and one
  start or exit (`MaxEvents`) comes at any moment; the affinity at the start is the
  whole group, as Windows gives it. In the second three listed processes make the
  circle close, and any of them may be passed over. All calls fail or not. One
  pass is enough for the properties, since each begins with fresh locals.
* balancer: two pids, two threads, two nodes, windows of two, a frequency of two
  seconds. What varies is spread over three scenes, for their product is large:
  two starts or exits; a late loop, one setting of the clock (back by three
  seconds or forward by two and a half) and one failed snapshot; two processes
  that compete, and one failed snapshot. Single calls do not fail here
  (`CallsFail = FALSE`): a call that fails for ever leaves its process unbound, and
  the safety under failures is the matter of affinity_pass. The load is uneven
  throughout.
* perf_monitor: three counters, windows of 2, loads 0 and 100: windows fill and
  wrap, and the collector may be anywhere in a sample when the worker comes.
  `CounterFails = FALSE`: whole queries may fail, but no single counter of a
  successful one. misaligned drops that assumption, and finds what follows.
* service: one content of settings.json for every way the code treats one (MCService
  names them), an `int` of eight bits, and two interventions from outside
  (`MaxMeddling`): an edit and a kill in either order, anywhere. console: a good
  file, a refused one and a deadly one. In a console `in_time` says whether a
  worker that does not hang stops within 5 s; both cases are checked, and only
  ReturnsAfterWorker and LoopEnds need the first.
* logger: two threads, days of three hours, three hours, two lines, a file of an
  earlier run, and at most one unfinished clean-up when a new hour begins
  (`MaxCleaners`): the hour changes between any two readings of the clock, the hour
  of the day wraps, and a late clean-up meets a newer file. `Suspends = FALSE`: no
  day passes without a call, which is so as long as passes come, for each begins
  with `NewFileWithLock`. Without it `FileOfTheCall` fails, since only the hour of the
  day is compared. `MaxLines` lets behaviours end.

`CHECK_DEADLOCK FALSE` is given where the system, or the bound, really ends: a
destroyed monitor, an ended process, a used up clock.

### Fairness

Each thread has weak fairness of its own: Windows schedules every ready thread,
and no system call of the code blocks for ever. There is no fairness for the
environment (nobody has to stop the program, no process has to exit), none for
starting a pass in AffinityPass and, in PerfMonitor, none for beginning the
destructor. The mutex is taken in one step by the worker and the collector never
holds it across a wait, so weak fairness of the collector is enough. Waits with a
limit end. In Balancer the worker is scheduled and time passes. In Service the
manager carries out the restarts it was asked for; in Logger the detached threads
are scheduled like all others.

Two liveness properties exclude the one schedule in which the code does hang: the
collector thread has been created, but its first statement `is_collect_ = true`
runs only after the destructor's `is_collect_ = false`, and overwrites it. Then
the collector loops and the destructor waits for ever. `StopsOnceRunning` says
that every other stop of the monitor ends, `StopCompletes` that every other stop
of the service does (`Hung` names the exception), and `CtrlCExits` that the
console ends even then, thanks to its time limit.

## 4. What is proved

Every safety property that a passing run checks, invariants and action properties
alike, and every refinement, is also a theorem, for any number of processes, threads, nodes,
counters, slots and contents of the file. `PROJECT.json` lists the theorems with the
properties they state.

### The assumptions

What the modules assume of their constants, TLC evaluates in the runs:
`RingAssumption` (a capacity of at least one slot, an integer type of at least two
bits), `LoopAssumption` (at least one second, one slot and one half second of delay),
`LoggerAssumption` (the main thread is a thread, `Shortest` is a lower bound of both
retentions), `ContentsAssumption` (a file is not JSON, a value, or an object whose
numbers need not fit in an `int`), `MeddlingAssumption`, `SettingsAssumption`,
`SampleAssumption`, `TableAssumption`, `PassAssumption`, `MonitorAssumption` and
`BalancerAssumption` (the kinds of the constants).

`PassAssumption`, and with it `BalancerAssumption`, says more than a kind: there is a
node, and the group of every affinity is less than the number of nodes.
`CalculateNumaWeight` counts threads in a vector with one slot for each *node* and
indexes it by *group* (ProcessInfo.cpp:396-398) without a test. Where every group has
a node of its own the index is in range; where one node spans several groups, as
newer versions of Windows allow, `++aggregator[Group]` may write past the vector.
The model does not say what happens then, and no property covers it.

One assumption is about the system and not about a constant. `openProcess` asks for
PROCESS_QUERY_INFORMATION and PROCESS_VM_READ only (ProcessInfo.cpp:103, 152), and the
handle is passed to `NtSetInformationProcess`: Windows may deny that call for want of
the right to change the process. With `CallsFail` any such call may fail, at every
process, so affinity_pass covers a machine that denies all of them. The runs balancer
and error_report have `CallsFail = FALSE` and assume that the right is granted, and so
`AllGetBound` says nothing of a machine that denies it: there the threads are moved
one by one (`SetThreadAffinity` asks for all rights), but the process keeps its own
affinity.

Some theorems need more, and say so in their statement. Each of these is something
the program relies on without testing it, and the runs show what happens otherwise:

| Assumption | Theorems | Without it |
|---|---|---|
| a LONGLONG holds what a window sums to (`MaxUser < 2^(Width-1)`, or `Capacity * M < 2^(Width-1)` with no sample above M) | AvgIsMeanAlways, AverageIsConsumptionAlways, HeaviestConsumerFirstAlways | the sum wraps |
| no pid is reused between two readings (`PidReuse = FALSE`) | OneProcessAlways, AverageIsConsumptionAlways; Balancer has it built in | run pid_reuse |
| no id is reused inside a pass (`~IdReuse`) | WholeProcessMovedAlways, OnlyListedAlways; Balancer has it built in | a foreign process is bound |
| every node has a processor (`Mask # 0`) | WholeProcessMovedAlways, BalancerMovesWholeProcess | a mask of 0 is what the code takes for *unknown* |
| no single counter of a successful query fails (`CounterFails = FALSE`) | WindowsAreRecentAlways, AlignedAveragesAlways | run misaligned |
| loads are bounded by some number | MonitorTypeOK | a load is a percentage |
| no day passes without a message (`Suspends = FALSE`) | FileOfTheCallAlways | an hour of another day is taken for this one |

### The arguments

* **RingBufferProofs**, lemmas on sums and on one `Add`. `SumFunctionOnSet` is a
  recursive function, and the provers cannot use an induction rule. They can use that a
  well-founded order has minimal elements: where a statement about sums failed, it would
  fail for a smallest set, and there it holds by the first step of the recursion
  (`SmallestSet`, `SumsExist`, `SumOfChosen`). This gives that the order of summation does
  not matter, that differences telescope (`SumTelescopes`), that a sum is bounded by
  its largest term (`SumBounded`), and that a rotated buffer has the sum of its window
  (`SumOfRotated`). The invariant of a ring is that one which is not full has been
  written from slot 0 on (`index = size`); without it `Slot` would read slots never
  written. Then `Window(Add(r, v)) = Slide(Window(r), v)`, `Avg` adds up the window
  although it starts at slot 0 (`AccumulateIsWindowSum`), and the unsigned division
  gives the quotient as long as the sum is not negative and fits (`AvgIsQuotient`).
* **RingWindowProofs**: the ring implements SlidingWindow for every capacity and every
  set of samples, and `AvgIsMeanAlways` from the lemmas above.
* **ProcessTableProofs**: `TableWindowIsDifferences`. The invariant adds the shape
  of every ring and the bounds of the history to the property; a call of `Read`
  slides the window and the differences of the readings by the same value
  (`AddSlidesWindow`, `DifferencesSlide`). No assumption on pids or failures is
  needed. `OneProcessAlways` adds that the process under a pid of the table is still
  the one the entry is about. `AverageIsConsumptionAlways` needs that no sum is
  negative: without reuse the user time of a pid only grows, which is an invariant
  of the whole history of readings and not only of its last one (`UsersGrow`); the
  sum of the window is then last reading less first, by telescoping.
* **AffinityPassProofs**: `RoundRobinAlways`, `SpreadAlways`, `HeaviestFirstAlways`
  for any failures and any reuse of ids. The invariant ties the next node to the last
  placed one (the circle), and the turns of each node to its place in the circle: the
  nodes before the next one have one turn more than the others; `Spread` follows from
  the circle and is proved only. `CalculateNumaWeight` always picks the first node: no
  count is below 0. `WholeProcessMovedAlways` rests on `BoundInv`: until its turn,
  what the snapshot says of a process is true (`SnapshotInv`), in its turn so is what
  was queried (`QueriedInv`), the threads already visited are at the node
  (`ThreadsInv`), and those of earlier turns stay there (`MovedInv`), because the
  operating system can end what a pass holds but not replace it (`HeldInv`,
  `EnvironmentHolds`). `OnlyListedAlways` needs that a thread's owner runs.
  `PassAdvancesAlways` counts the steps of a pass down (`StepsLeft`: a turn for every
  place left in the list, a step for every thread left of the turn). A list is no
  longer than there are full windows (`ListInv`), for the sort permutes them.
* **PerfMonitorProofs**: `NoUseAfterDestroyAlways` and `MonitorImplementsHandshake`.
  The invariant says what the id tells: as long as the worker has not cleared the flag
  the collector is in its loop or before it, and the id is empty in the destructor only
  when the collector has left. `CountersInv` has the lock held by the collector only
  while it adds, and all counters there before it runs. `InStep`, for
  `WindowsAreRecentAlways` and `AlignedAveragesAlways`, says what the rings hold *inside*
  `Collect`: those the loop has passed are one value ahead of the others. When all
  rings are in step all are full or none is, and then the n-th full ring is the n-th
  ring, which is what the iterator of `GetAvgValues` takes for granted. The last section
  is about the wait of the destructor: a collector that is still there can go on
  (`NobodyWaitsInVainAlways`); once it finds the flag cleared, every step of it lowers
  `CollectorLeft` (`StopAdvancesAlways`); and a late `SetFlag` is the only way into the
  endless wait, which has no way out (`HangIsLateStartAlways`).
* **ProgramProofs**: the worker's invariant says where the collector can be in each
  part of the monitor's life and that a worker that works has read values. Around it
  `ServiceInv` says what `ServiceMain` and the handler may rely on without a lock: what
  the status can be at each point of `ServiceMain` (`StatusInv`); that before the handler has
  set the event nobody leaves, and that the handler then is through (`HandlerInv`, `WaitInv`);
  that the manager knows of no later state than the service is in (`ReportInv`). A
  stop is hence reported only over a finished worker, and no write overtakes a later
  one, whatever call fails and however often the service is killed and restarted.
  `ReasonableSettingsRunAlways` is arithmetic on integers of any width: with a
  frequency of at least 1 and a period that is not shorter, as they are after the cut to
  an `int`, the division is defined and its quotient is at least 1, a slot. `ConsoleInv`
  is the same for the console program, over the same worker.

  A section of its own bounds a stop. `WorkerLeft` counts the steps the worker has left
  when its next wait is the last (`StopDue`: the event is set, or the handle is
  invalid; an event that is set is found by the wait, an invalid handle by the test
  after it, so the two count differently). Every step of the worker lowers it
  (`WorkerAdvances`), no other thread raises it: in the service because `ServiceMain`
  closes the event only over a finished worker (`ServiceAdvancesAlways`), in the console
  because nobody writes the handle after `RunConsole` (`HandleInv`,
  `ConsoleAdvancesAlways`). `HangIsLateFlagAlways` says that the exception `Hung` is one
  step of one thread, in both programs. `ProgramsKeepHandshake`: the console program
  implements StopHandshake, and so does the service from one restart to the next.
* **LoggerProofs**: `LoggerTypeOK`, `LoggerImplementsFiles`, `FileOfTheCallAlways` and
  `NoFileForgottenAlways`.
  The invariant: a thread inside `Print` holds the mutex (or is `wmain` before there
  are others); no file is newer than the one named last; what has been sent to the
  stream is a beginning of the line of the thread that is printing, with an hour that
  can follow all the lines of the file; what a clean-up is about to remove is older
  than the shortest retention. A file that is too old stays in sight: only a new name
  makes more files too old, the thread that gives it starts a clean-up, and a clean-up
  that has not yet read the clock reads it after that name was given.
* **BalancerProofs**: `BalancerReadsRegular`, for every frequency, window, delay and
  system. The property alone is not inductive: the next call of `Read` must be far
  enough from the last one, and not too far, so `AgesLowerBound` and `AgesUpperBound`
  say how far every call lies from *last_run*, the reading of the clock before the last
  pass; one delay at most is between the two. A period that is due is long enough
  (`DueIsLong`, the cut to seconds), and no period is longer than one that was not yet
  due (`NotDueIsShort`) and the one delay until the next test (`PeriodBound`). Every step
  of the composition is a step of the loop or leaves it alone (`StepOfLoop`). The
  composition then implements its other two parts, `BalancerImplementsTable` and
  `BalancerImplementsPass`, step by step: what
  AffinityPass chooses freely is computed from the table here, and the table stands
  still while a pass is under way, save for the work of processes, which it does not
  show. So what is proved of the parts holds of the whole: the theorems of
  ProcessTableProofs and AffinityPassProofs are instantiated (`TP`, `AP`; their
  assumptions follow from `BalancerAssumption`). `BalancerOneProcess`,
  `BalancerWindowIsDifferences`, `BalancerRoundRobin`, `BalancerSpread`,
  `BalancerMovesWholeProcess` and `BalancerBindsOnlyListed` are such theorems, and
  `HeaviestConsumerFirstAlways` is `HeaviestFirst` of the pass with
  `AverageIsConsumption` of the table. `WindowsSpanPeriodAlways` puts loop and table
  together: no pid has been read more often than `Read` was called (`CallsInv`), so a
  window that is full was filled by the last `Capacity + 1` calls, and these span the
  period of analysis by `ReadsRegular`. What a process is ranked by was spent in the
  same time as what the others are ranked by.

### Model-checked only

All liveness properties: liveness under fairness is out of the prover's reach. Of
some the part that is safety is proved: that every step of the thread that has to
get there lowers a bound, and no step of another raises it; or that what has to
happen is never forgotten.

| Property | What is proved of it | What is left to fairness and TLC |
|---|---|---|
| PassEnds | PassAdvancesAlways | that the worker can take a step and takes it |
| StopsOnceRunning | StopAdvancesAlways, NobodyWaitsInVainAlways, HangIsLateStartAlways | that both threads are scheduled, and the round before the flag is seen |
| StopCompletes | ServiceAdvancesAlways, HangIsLateFlagAlways, with StopAdvancesAlways for the collector | that the handler comes to set the event, and that the threads are scheduled |
| LoopEnds | ConsoleAdvancesAlways | that `RunConsole` comes to make the handle invalid |
| OldFilesGo | NoFileForgottenAlways | that the clean-ups are scheduled, and each list is finite |
| CtrlCExits, ComesUp, PassesGoOn, AllGetBound | nothing | all |

The four divergences are counterexamples and need no proof.

## 5. What is not modelled

* The test mode, installation and removal: straight lines of system calls in one
  thread. The recovery that `InstallService` configures is the action `Restart`. The
  test mode divides 3 by 10, so that its rings have no slot; it calls `Read` once and
  never `Add`.
* In `wmain`: a dispatcher that cannot be started (main.cpp:179-190; the program is
  run from a command line). `ServiceMain` does not run then, and the process logs the
  error and ends.
* Options and string encoding: no state that changes.
* In the initialisation of `ProcessesInfo`: `GetNumaInfo` and the lookup of the two
  entry points of ntdll. The nodes are the constant `NumaNodes`, and not empty; the
  number of counters is a constant of PerfMonitor.
* In the Logger: `SetOutConsole` and the copy to the console; the minimum level set by
  `SetLogType` is a choice (`Filter`), so that properties hold for every level.
* `PerfMonitor::StopCollecting` (never called; the destructor repeats it) and
  `SetPrivilege` (never called).
* In Balancer: the monitor (the load is a constant there), the stop (Worker has it,
  with the pass as one step) and the logger. Nothing is shared between these beyond
  what the modules about them have.
* A member without a value (`NtSetInformationProcess` when ntdll lacks it) and a
  machine without NUMA information. A tid or pid that is given to a foreign process
  inside a pass: `IdReuse = FALSE` excludes it in affinity_pass, and `OnlyListed` would
  not hold with it.
* A wall clock that is set while a file is named: in Logger time moves forward, and
  hours are counted, so the hour that daylight saving time repeats or leaves out (the
  code compares names in local time, Logger.cpp:57-63) is not there either.
* Errors of the iteration over the log directory (Logger.cpp:66, it may throw when the
  directory goes away): only the removal of a file may fail.
* `AvgDouble` divides integers and cuts the quotient, where the code divides doubles.
  In the runs of PerfMonitor nothing is cut (windows of 2, loads 0 and 100).
* The two queries of a process (ProcessInfo.cpp:490-491) are one step.
* A ring too large to be allocated ends the program in the code (`bad_alloc`); in
  Settings it exists.

## 6. Plan

Done: rings, table, pass, monitor, loop and their composition, worker, settings,
service, console and logger; a theorem for every safety property that a run checks;
the theorems of table and pass in the running balancer; and the safety cores of five
liveness properties. What is left:

1. A bound for `AllGetBound`: on a machine where nothing changes, the next pass that is
   not refused places all that the last `Read` listed. That is safety, and proved for
   one pass (`BalancerMovesWholeProcess`); what is missing is that the snapshot of that
   `Read` has all of it.
2. `PassesGoOn` without fairness: a bound on the half seconds until the next pass, from
   how far the clock was set back (`ReadsRegular` has it for a clock that nobody sets).
