------------------------------ MODULE MCTimer -------------------------------
(* An instance of Timer for TLC.  Task 1 is the idle task.                 *)
EXTENDS Timer

\* Two tasks, one above the other.
MCBasePrio == <<255, 2, 1>>
MCTimeSlice == <<1, 0, 0>>
=============================================================================
