--------------------------- MODULE MCPerfMonitor ---------------------------
(* The machine and two nodes, windows of two samples. *)
EXTENDS PerfMonitor

MCLoad == {0, 100}
=============================================================================
