----------------------------- MODULE MCChannel -----------------------------
(* An instance of Channel for TLC.  Task 1 is the idle task.               *)
EXTENDS Channel

\* Two peers and a task above them.
MCBasePrio == <<255, 2, 2, 1>>
MCTimeSlice == <<1, 1, 1, 1>>
=============================================================================
