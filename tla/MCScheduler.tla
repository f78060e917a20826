---------------------------- MODULE MCScheduler ----------------------------
(* Instances of Scheduler for TLC.  Task 1 is the idle task.               *)
EXTENDS Scheduler

\* Two peers at the top, with slices of different lengths, and a task below.
MCTopPeersPrio == <<255, 1, 2, 1>>
MCTopPeersSlice == <<1, 2, 1, 3>>

\* Two peers below a task of a higher priority.
MCLowPeersPrio == <<255, 2, 2, 1>>
MCLowPeersSlice == <<1, 2, 2, 1>>
=============================================================================
