------------------------------ MODULE CpuLoad ------------------------------
(* The decision of ProcessesInfo::IsNeedToSetAffinity (ProcessInfo.cpp).      *)
EXTENDS Integers, Sequences, FiniteSetsExt

CONSTANTS MaximumCpu,   \* maximum_cpu_value_
          DeltaCpu      \* delta_cpu_values_

\* values[1] is the counter of the whole machine, the others are the nodes'.
IsNeedToSetAffinity(values) ==
  LET node == {values[i] : i \in 2 .. Len(values)}
  IN  Max(node) > MaximumCpu /\ Max(node) - Min(node) > DeltaCpu
=============================================================================
