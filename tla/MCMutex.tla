------------------------------ MODULE MCMutex ------------------------------
(* Instances of Mutex for TLC.  Task 1 is the idle task.                   *)
EXTENDS Mutex

\* Three tasks of three priorities, the classical inversion.
MCBasePrio == <<255, 3, 2, 1>>
MCTimeSlice == <<1, 1, 1, 1>>
=============================================================================
