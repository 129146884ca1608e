----------------------------- MODULE WorkerLoop -----------------------------
(* The loop of WorkerThread (main.cpp) and the two clocks it lives by: the     *)
(* wall clock decides whether a pass is due, and somebody may set it; the      *)
(* sleep does not depend on it.  Time is counted in half seconds, the sleep.   *)
EXTENDS Integers, Sequences

CONSTANTS Frequency,    \* switching_frequency, in seconds
          Capacity,     \* ring_buffer_size_, the readings of a window
          MaxLag,       \* bound: the half seconds between two readings of the clock
                        \* in the slowest behaviour
          Adjustments,  \* by how much somebody may set the clock
          MaxJumps      \* bound: how often

ASSUME LoopAssumption ==
  /\ Frequency \in Nat \ {0} /\ Capacity \in Nat \ {0} /\ MaxLag \in Nat \ {0}
  /\ Adjustments \subseteq Int /\ MaxJumps \in Nat

VARIABLES
  loop,                 \* where the loop is
  period,               \* cur_run - last_run
  elapsed,              \* the time since cur_run was read
  shift,                \* by how much the clock has been set since then
  jumps,                \* how often it has been set, of MaxJumps
  lag,                  \* the longest time between two readings in this behaviour
  ages                  \* history, until the clock is set: how long ago Read was called,
                        \* the last call first

loop_vars == <<loop, period, elapsed, shift, jumps, lag, ages>>

\* last_run is the epoch at first.
InitLoop == /\ loop = "test" /\ period = 2 * Frequency
            /\ elapsed = 0 /\ shift = 0 /\ jumps \in 0 .. MaxJumps
            /\ lag \in 1 .. MaxLag /\ ages = << >>

\* duration_cast cuts the fraction.
Seconds(halves) == halves \div 2

\* A mistake: the frequency is an interval that ends before it.
DueEarly == Seconds(period) >= Frequency - 1
Due == Seconds(period) >= Frequency

NotDue ==
  /\ loop = "test" /\ ~Due /\ loop' = "clock"
  /\ UNCHANGED <<period, elapsed, shift, jumps, lag, ages>>

\* Read is called, and SetAffinity follows.
BeginPass ==
  /\ loop = "test" /\ Due /\ loop' = "pass"
  /\ ages' = IF jumps > 0 THEN << >>
             ELSE [k \in 1 .. (IF Len(ages) <= Capacity THEN Len(ages) + 1 ELSE Capacity + 1) |->
                     IF k = 1 THEN 0 ELSE ages[k - 1]]
  /\ UNCHANGED <<period, elapsed, shift, jumps, lag>>

EndPass ==
  /\ loop = "pass" /\ loop' = "clock"
  /\ period' = 0                        \* last_run = cur_run
  /\ UNCHANGED <<elapsed, shift, jumps, lag, ages>>

\* A mistake: the next pass is measured from the last reading of the clock.
ForgetPeriod ==
  /\ loop = "clock" /\ loop' = "sleep"
  /\ period' = elapsed + shift /\ elapsed' = 0 /\ shift' = 0
  /\ UNCHANGED <<jumps, lag, ages>>

ReadClock ==
  /\ loop = "clock" /\ loop' = "sleep"
  /\ period' = period + elapsed + shift /\ elapsed' = 0 /\ shift' = 0
  /\ UNCHANGED <<jumps, lag, ages>>

Wake ==
  /\ loop = "sleep" /\ elapsed >= 1 /\ loop' = "test"
  /\ UNCHANGED <<period, elapsed, shift, jumps, lag, ages>>

\* Half a second passes.
Tick ==
  /\ elapsed < lag
  /\ elapsed' = elapsed + 1
  /\ ages' = [k \in DOMAIN ages |-> ages[k] + 1]
  /\ UNCHANGED <<loop, period, shift, jumps, lag>>

SetClock ==
  /\ jumps < MaxJumps /\ jumps' = jumps + 1
  /\ \E j \in Adjustments : shift' = shift + j
  /\ ages' = << >>
  /\ UNCHANGED <<loop, period, elapsed, lag>>

LoopTypeOK ==
  /\ loop \in {"test", "pass", "clock", "sleep"}
  /\ lag \in 1 .. MaxLag /\ jumps \in 0 .. MaxJumps
  /\ period \in Int /\ elapsed \in 0 .. lag /\ shift \in Int
  /\ ages \in Seq(Nat) /\ Len(ages) <= Capacity + 1

\* The n-th call of Read before the last one was made at least n times the frequency
\* earlier, less one delay of the loop.
ReadsApart ==
  \A i, j \in DOMAIN ages : i < j => ages[j] - ages[i] >= (j - i) * (2 * Frequency) - lag

\* From one pass to the next the clock moves on by this much at most: a test that
\* just fails, and one delay.
LongestPeriod == 2 * Frequency - 1 + lag

\* And it was made not much earlier than that, and the next one is not overdue.
ReadsOnTime ==
  /\ \A i, j \in DOMAIN ages : i < j => ages[j] - ages[i] <= (j - i) * LongestPeriod + lag
  /\ ages # << >> => ages[1] <= LongestPeriod + lag

\* As long as nobody sets the clock, the calls of Read keep time: the delays of the
\* loop do not add up to shorten a window, and a window is longer than it is said to
\* be by what the tests come late and one delay (main.cpp:347-365; README.md,
\* algorithm, step 2).
ReadsRegular == ReadsApart /\ ReadsOnTime
=============================================================================
