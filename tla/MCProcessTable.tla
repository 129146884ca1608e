--------------------------- MODULE MCProcessTable ---------------------------
(* Two pids, a listed and an unlisted image, windows of two samples. *)
EXTENDS ProcessTable, TLC

CONSTANTS p1, p2, rphost, other

MCPid == {p1, p2}
MCImage == {rphost, other}
MCFilter == {rphost}
MCThreadList == {"a", "b"}
PidSymmetry == Permutations(MCPid)
=============================================================================
