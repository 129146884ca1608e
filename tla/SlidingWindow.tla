---------------------------- MODULE SlidingWindow ----------------------------
(* What a RingBuffer<T> (src/yellow-balancer/ring_buffer.h) promises: the last *)
(* Capacity samples in the order they were added, and nothing older.           *)
EXTENDS Integers, Sequences

CONSTANTS Sample,       \* the values that may be added
          Capacity      \* the length of the window, the size given to the constructor

VARIABLE window         \* the samples remembered, the oldest first

Init == window = << >>

Slide(w, v) == IF Len(w) < Capacity THEN Append(w, v) ELSE Append(Tail(w), v)

Next == \E v \in Sample : window' = Slide(window, v)

Spec == Init /\ [][Next]_window
=============================================================================
