----------------------------- MODULE MCLazyPool -----------------------------
(* An instance of LazyPool for TLC.  Task 1 is the idle task.              *)
EXTENDS LazyPool

CONSTANTS o, a, b

\* Two peers and a task above them.  Slices of no ticks end with every tick.
MCBasePrio == <<255, 2, 2, 1>>
MCTimeSlice == <<1, 0, 0, 0>>

\* One Once all of them need, and values that tell two allocators apart.
MCCallersOf == (o :> {2, 3, 4})
MCStored == (2 :> {a}) @@ (3 :> {b}) @@ (4 :> {b})
=============================================================================
