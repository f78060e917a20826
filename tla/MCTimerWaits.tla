---------------------------- MODULE MCTimerWaits ----------------------------
(* An instance of TimerWaits for TLC.  Task 1 is the idle task.            *)
EXTENDS TimerWaits

\* Two tasks, one above the other.
MCBasePrio == <<255, 2, 1>>
MCTimeSlice == <<1, 0, 0>>
=============================================================================
