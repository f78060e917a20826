---------------------------- MODULE MCEventGroup ----------------------------
(* An instance of EventGroup for TLC.  Task 1 is the idle task.            *)
EXTENDS EventGroup

CONSTANTS a, b, c

\* Two peers and a task above them.
MCBasePrio == <<255, 2, 2, 1>>
MCTimeSlice == <<1, 1, 1, 1>>

\* Tasks 2 and 3 compete for a and b; task 4 has c for itself.
MCAnyMasks == (2 :> {{a, b}}) @@ (3 :> {{a}}) @@ (4 :> {{c}})
MCAllMasks == (2 :> {{b}}) @@ (3 :> {{a, b}}) @@ (4 :> {{a, c}})
=============================================================================
