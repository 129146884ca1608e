----------------------------- MODULE RingWindow -----------------------------
(* One RingBuffer<LONGLONG> to which its owner adds samples for ever: the ring *)
(* implements the sliding window, and Avg is compared with the mean.           *)
EXTENDS RingBuffer

CONSTANT Sample         \* the values added; differences of user times, so they
                        \* may be negative
ASSUME SampleAssumption == Sample \subseteq Int

VARIABLE ring

Init == ring = NewRing
Next == \E v \in Sample : ring' = Add(ring, v)
Spec == Init /\ [][Next]_ring

\* The ring keeps the type that RingBuffer gives it.
TypeOK == ring \in Rings(Sample)

\* A ring that is not full has been written from slot 0 on: its samples are the
\* first size_ slots, the ones Avg accumulates.
FilledFromZero == ring.size < Capacity => ring.index = ring.size

RingInv == TypeOK /\ FilledFromZero

-----------------------------------------------------------------------------
SW == INSTANCE SlidingWindow WITH window <- Window(ring)

\* The ring of ring_buffer.h implements the sliding window: however long it has
\* been running, it holds the last Capacity samples and no other.
ImplementsWindow == SW!Spec

\* Avg (which sums slots, not samples) is the mean of the window, rounded down,
\* as long as the samples of the window do not sum to less than zero.
AvgIsMean ==
  LET w == Window(ring) IN
  SumFunction(w) >= 0 /\ w # << >> => AvgLongLong(ring) = SumFunction(w) \div Len(w)
=============================================================================
