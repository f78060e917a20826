---------------------------- MODULE MCHandshake ----------------------------
(* An instance of Handshake for TLC.  Task 1 is the idle task.             *)
EXTENDS Handshake

CONSTANTS mx, cv

\* Three tasks of three priorities.
MCBasePrio == <<255, 3, 2, 1>>
MCTimeSlice == <<1, 1, 1, 1>>
MCMutexOf == (cv :> mx)
=============================================================================
