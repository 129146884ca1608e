----------------------------- MODULE RingBuffer -----------------------------
(* RingBuffer<T> of src/yellow-balancer/ring_buffer.h as operators on records  *)
(* [buffer, index, size].  The table of processes keeps one per process with   *)
(* T = LONGLONG, the performance monitor one per counter with T = double.      *)
EXTENDS Integers, Sequences, Functions

CONSTANTS Capacity,     \* the size given to the constructor, buffer_.size()
          Width         \* the number of bits of LONGLONG and of size_t

\* Add on an empty buffer_ writes out of bounds, so a program that adds has
\* a capacity; a LONGLONG has a sign bit and a value bit.
ASSUME RingAssumption == Capacity \in Nat \ {0} /\ Width \in Nat \ {0, 1}

Slots == 0 .. Capacity - 1

\* The rings whose samples are taken from S; resize fills them with zeros.
Rings(S) == [buffer : [Slots -> S \cup {0}], index : Slots, size : 0 .. Capacity]

NewRing == [buffer |-> [i \in Slots |-> 0], index |-> 0, size |-> 0]

\* Two mistakes in Add that the runs must notice: the index wraps one slot too
\* late, or it stays on the last slot instead of wrapping.
AddWrapsLate(r, value) ==
  [ buffer |-> [r.buffer EXCEPT ![r.index] = value],
    index  |-> IF r.index + 1 > Capacity THEN 0 ELSE r.index + 1,
    size   |-> IF r.size < Capacity THEN r.size + 1 ELSE r.size ]
AddNeverWraps(r, value) ==
  [ buffer |-> [r.buffer EXCEPT ![r.index] = value],
    index  |-> IF r.index + 1 >= Capacity THEN r.index ELSE r.index + 1,
    size   |-> IF r.size < Capacity THEN r.size + 1 ELSE r.size ]

Add(r, value) ==
  [ buffer |-> [r.buffer EXCEPT ![r.index] = value],
    index  |-> IF r.index + 1 >= Capacity THEN 0 ELSE r.index + 1,
    size   |-> IF r.size < Capacity THEN r.size + 1 ELSE r.size ]

\* Size() == Capacity(), the test both users make before they trust Avg.
Full(r) == r.size = Capacity

\* std::accumulate over the first size_ slots.
Accumulate(r) == SumFunctionOnSet(r.buffer, 0 .. r.size - 1)

\* Avg of RingBuffer<double>.
AvgDouble(r) == IF r.size = 0 THEN 0 ELSE Accumulate(r) \div r.size

\* Avg of RingBuffer<LONGLONG>: size_ is a size_t, so the signed sum is turned
\* into an unsigned number before the division, and the quotient back into a
\* signed one when it is returned.
ToSigned(n) == IF n >= 2^(Width - 1) THEN n - 2^Width ELSE n
\* A mistake: dividing by the capacity, which a ring that is filling has not
\* reached.
AvgOverCapacity(r) == ToSigned((Accumulate(r) % 2^Width) \div Capacity)
AvgLongLong(r) ==
  IF r.size = 0 THEN 0 ELSE ToSigned((Accumulate(r) % 2^Width) \div r.size)

\* The slot of the k-th oldest sample, and the samples from the oldest to the
\* newest.  The code never reads them in this order: it is how a ring is
\* understood as a window.
Slot(r, k) == LET i == r.index - r.size + k - 1
              IN  IF i < 0 THEN i + Capacity ELSE i
Window(r) == [k \in 1 .. r.size |-> r.buffer[Slot(r, k)]]

\* The window after one more sample.
Slide(w, v) == IF Len(w) < Capacity THEN Append(w, v) ELSE Append(Tail(w), v)
=============================================================================
