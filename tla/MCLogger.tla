------------------------------ MODULE MCLogger ------------------------------
(* Two threads that log, days of three hours, a retention of two hours that    *)
(* the settings make one hour, and a file of an earlier run.                   *)
EXTENDS Logger

CONSTANTS main, worker

MCThread == {main, worker}
MCOldFiles == {2}
=============================================================================
