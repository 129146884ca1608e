-------------------------- MODULE RingWindowProofs --------------------------
(* The ring of ring_buffer.h implements the sliding window, for every capacity *)
(* and every set of samples.                                                   *)
EXTENDS RingWindow, RingBufferProofs

-----------------------------------------------------------------------------
\* Type correctness and the filling order are invariants of a ring that is
\* only ever added to (ring_buffer.h:20-33).
THEOREM RingCorrect == Spec => []RingInv
<1>1. Init => RingInv
  BY RingAssumption
  DEF Init, RingInv, TypeOK, FilledFromZero, NewRing, Rings, Slots
<1>2. RingInv /\ [Next]_ring => RingInv'
  BY AddKeepsRing DEF RingInv, TypeOK, FilledFromZero, Next
<1> QED
  BY <1>1, <1>2, PTL DEF Spec

\* The buffer keeps its size and the index stays inside it (ring_buffer.h:28-33).
THEOREM RingTypeOK == Spec => []TypeOK
BY RingCorrect, PTL DEF RingInv

\* The ring implements the sliding window: at every moment it holds exactly the
\* last Capacity samples that were added, in order (ring_buffer.h:20-33).
THEOREM RingImplementsWindow == Spec => ImplementsWindow
<1>1. Init => SW!Init
  BY RingAssumption DEF Init, NewRing, Window, SW!Init
<1>2. RingInv /\ [Next]_ring => [SW!Next]_(Window(ring))
  <2> SUFFICES ASSUME RingInv, [Next]_ring
               PROVE  [SW!Next]_(Window(ring))
    OBVIOUS
  <2>1. CASE Next
    <3> PICK v \in Sample : ring' = Add(ring, v)
      BY <2>1 DEF Next
    <3> Window(ring)' = SW!Slide(Window(ring), v)
      BY AddSlidesWindow DEF RingInv, TypeOK, FilledFromZero, Slide, SW!Slide
    <3> QED
      BY DEF SW!Next
  <2>2. CASE UNCHANGED ring
    BY <2>2 DEF Window, Slot
  <2> QED
    BY <2>1, <2>2
<1> QED
  BY <1>1, <1>2, RingCorrect, PTL DEF Spec, ImplementsWindow, SW!Spec

\* Avg is the mean of the window, for every ring whose samples are small enough for
\* a full window of them to sum to what a LONGLONG holds (ring_buffer.h:35-42).
THEOREM AvgIsMeanAlways ==
  ASSUME NEW M \in Nat, \A v \in Sample : v <= M, Capacity * M < 2 ^ (Width - 1)
  PROVE  Spec => []AvgIsMean
<1>1. RingInv => AvgIsMean
  <2> DEFINE w == Window(ring)
             half == 2 ^ (Width - 1)
  <2> SUFFICES ASSUME RingInv, SumFunction(w) >= 0, w # << >>
               PROVE  AvgLongLong(ring) = SumFunction(w) \div Len(w)
    BY Zenon DEF AvgIsMean
  <2>1. ring \in Rings(Sample) /\ (ring.size < Capacity => ring.index = ring.size)
    BY DEF RingInv, TypeOK, FilledFromZero
  <2>2. Sample \in SUBSET Int
    BY SampleAssumption
  <2>3. w \in Seq(Sample \cup {0}) /\ Len(w) = ring.size
    BY <2>1, WindowIsSequence
  <2>4. Accumulate(ring) = SumFunction(w) /\ Accumulate(ring) \in Int
    BY <2>1, <2>2, AccumulateIsWindowSum
  <2>5. Accumulate(ring) <= Capacity * M
    BY <2>1, <2>2, WindowSumBounded
  <2>6. ring.size \in Nat \ {0}
    <3>1. ring.size \in Nat
      BY <2>1, RingAssumption DEF Rings
    <3> QED
      BY <2>3, <3>1
  <2>7. Accumulate(ring) \in Nat /\ Accumulate(ring) < half
    <3>1. Capacity \in Nat /\ Width - 1 \in Nat
      BY RingAssumption
    <3> DEFINE c == Capacity * M
    <3>2. c \in Nat
      BY <3>1
    <3>3. half \in Nat
      <4> DEFINE n == Width - 1
      <4> HIDE DEF n
      <4> QED
        BY <3>1, PowersGrow DEF n
    <3> HIDE DEF c, half, w
    <3>4. c < half
      BY DEF c, half
    <3> QED
      BY <2>4, <2>5, <3>2, <3>3, <3>4 DEF c
  <2>8. AvgLongLong(ring) = Accumulate(ring) \div ring.size
    BY <2>6, <2>7, AvgIsQuotient
  <2> QED
    BY <2>3, <2>4, <2>8
<1> QED
  BY <1>1, RingCorrect, PTL
=============================================================================
