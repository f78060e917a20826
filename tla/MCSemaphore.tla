---------------------------- MODULE MCSemaphore ----------------------------
(* Instances of Semaphore for TLC.  Task 1 is the idle task.               *)
EXTENDS Semaphore

CONSTANTS s1, s2

\* Three tasks of three priorities.
MCBasePrio == <<255, 3, 2, 1>>
MCTimeSlice == <<1, 1, 1, 1>>

\* Two peers and a task above them.
MCPeerPrio == <<255, 2, 2, 1>>
MCPeerSlice == <<1, 2, 1, 1>>

\* A counting semaphore, and a signal that starts empty.
MCInitial == (s1 :> 1) @@ (s2 :> 0)
MCMax == (s1 :> 2) @@ (s2 :> 1)

\* One signal that keeps a single token.
MCOneInitial == s1 :> 0
MCOneMax == s1 :> 1
=============================================================================
