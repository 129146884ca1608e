------------------------------ MODULE LogFiles ------------------------------
(* What the Logger promises about the files in "logs", whoever writes and      *)
(* whatever is cleaned up meanwhile: a line appears as a whole, in the newest  *)
(* file, after all lines with an earlier time, and a file goes only when it is *)
(* older than the retention.                                                   *)
EXTENDS Integers, Sequences, Functions

CONSTANTS Thread,       \* the threads that log
          Shortest      \* the shortest retention in hours that a clean-up works with

VARIABLES now,          \* the wall clock: the hours that have passed
          files         \* the files in "logs": the hour in the name |-> the lines

\* A line is made of the time and the message, each written by one thread.
TimePiece(t, hour) == [by |-> t, hour |-> hour]
MessagePiece(t) == [by |-> t]
Line(t, hour) == <<TimePiece(t, hour), MessagePiece(t)>>
HourOf(line) == line[1].hour

NewestIs(f) == \A g \in DOMAIN files : g <= f

Create(f) == /\ f \notin DOMAIN files /\ NewestIs(f) /\ f <= now
             /\ files' = [g \in DOMAIN files \cup {f} |-> IF g = f THEN << >> ELSE files[g]]
             /\ UNCHANGED now

Write(f, t, hour) ==
  /\ f \in DOMAIN files /\ NewestIs(f) /\ f <= hour /\ hour <= now
  /\ \A k \in DOMAIN files[f] : HourOf(files[f][k]) <= hour
  /\ files' = [files EXCEPT ![f] = Append(@, Line(t, hour))]
  /\ UNCHANGED now

Remove(f) == /\ f \in DOMAIN files /\ f + Shortest < now
             /\ files' = [g \in DOMAIN files \ {f} |-> files[g]]
             /\ UNCHANGED now

Pass == now' > now /\ UNCHANGED files

InitFiles == now \in Nat /\ \A f \in DOMAIN files : f < now /\ files[f] = << >>

NextFiles ==
  \/ \E f \in 0 .. now : Create(f)
  \/ \E f \in DOMAIN files, t \in Thread, hour \in 0 .. now : Write(f, t, hour)
  \/ \E f \in DOMAIN files : Remove(f)
  \/ Pass

SpecFiles == InitFiles /\ [][NextFiles]_<<now, files>>
=============================================================================
