------------------------------ MODULE LazyPool ------------------------------
(***************************************************************************)
(* Once and Pool in one system: static objects that are set up by the      *)
(* first task that needs them, with a closure that takes its memory from a *)
(* pool and blocks while the pool is exhausted.                            *)
(***************************************************************************)
EXTENDS Pool, Once

CONSTANT Allocators     \* the tasks that call alloc_blocking outside closures

ASSUME LazyPoolAssumption == Allocators \subseteq Users

vars == <<kernelVars, poolVars, onceVars>>

Init ==
    /\ KernelInit
    /\ PoolInit
    /\ OnceInit

-----------------------------------------------------------------------------
Allocates(t, v) ==
    /\ t \in Allocators \/ initialising[t] # {}
    /\ AllocBlocking(t, v)

PoolStep(t) ==
    \/ \E v \in Stored[t] : Alloc(t, v) \/ Allocates(t, v)
    \/ \E s \in Slots : DropValue(t, s) \/ DropSlot(t, s)

OnceStep(t) == \E o \in Onces : CallRuns(t, o) \/ CallBlocks(t, o) \/ Finish(t, o)

PoolIsr ==
    \/ \E v \in IsrStored : IsrAlloc(v)
    \/ \E s \in Slots : IsrDrop(s)

\* A call returns, whichever of the three components it is of.
CallReturns(t) == Return(t) /\ AllocReturns(t) /\ OnceReturns(t)

Next ==
    \/ KernelStep /\ UNCHANGED <<poolVars, onceVars>>
    \/ PoolIsr /\ UNCHANGED onceVars
    \/ \E t \in Users :
          \/ PoolStep(t) /\ UNCHANGED onceVars
          \/ OnceStep(t) /\ UNCHANGED poolVars
          \/ CallReturns(t)

Spec == Init /\ [][Next]_vars

(***************************************************************************)
(* Fairness of PendSV, of ticks that find a task running and of kernel     *)
(* calls under way as in module Scheduler.  Closures end and so does       *)
(* T::drop, when their tasks get the CPU again and again; handlers that    *)
(* drop boxes keep doing so.  Nothing obliges a task to call or allocate.  *)
(***************************************************************************)
Unchanging(A) == A /\ UNCHANGED <<poolVars, onceVars>>

Fairness ==
    /\ SF_vars(Unchanging(TickRunning))
    /\ WF_vars(Unchanging(PendSV))
    /\ \A t \in Users :
          SF_vars(Unchanging(SleepUntil(t) \/ Trigger(t)) \/ CallReturns(t))
    /\ SF_vars((\E t \in Users, o \in Onces : Finish(t, o)) /\ UNCHANGED poolVars)
    /\ \A t \in Droppers :
          SF_vars((\E s \in Slots : DropSlot(t, s)) /\ UNCHANGED onceVars)
    /\ WF_vars((\E s \in Slots : IsrDrop(s)) /\ UNCHANGED onceVars)

FairSpec == Spec /\ Fairness

-----------------------------------------------------------------------------
\* The lists t is in.
Lists(t) == {o \in Onces : t \in ToSet(onceWaiters[o])}
            \cup {w \in {"pool"} : t \in ToSet(allocWaiters)}

\* The variables keep their types, and a task is Blocked exactly while it is in
\* one list, of the pool or of a Once, once: an initialiser that blocks in its
\* closure and the callers that wait for it never lose their place.
Consistent ==
    /\ KernelTypeOK /\ PoolTypeOK /\ OnceTypeOK
    /\ \A t \in Users : Cardinality(Lists(t)) = (IF state[t] = "Blocked" THEN 1 ELSE 0)
    /\ IsInjective(allocWaiters)
    /\ \A o \in Onces : IsInjective(onceWaiters[o])

(***************************************************************************)
(* Callers of a Once are released when its initialiser outranks every      *)
(* other task, although it may itself have to wait for a slot: handlers    *)
(* keep dropping boxes, the waiting allocator of the highest priority gets *)
(* the slot, and the closure ends.  (A lower initialiser inherits nothing  *)
(* from its callers, so tasks in between can keep them waiting.)  Only a   *)
(* task that blocks in T::drop can prevent it: the slot it has emptied is  *)
(* nobody's until it runs on, although mem/mod.rs "lets T::drop run        *)
(* unrestricted".                                                          *)
(***************************************************************************)
BlockedInDrop(t) == state[t] = "Blocked" /\ dropping[t] # {}

TopInitialiserReleases ==
    \A t, u \in Users : \A o \in Onces :
        (IsrDrops /\ \A other \in Tasks \ {t} : BasePrio[t] < BasePrio[other])
            => ((o \in initialising[t] /\ o \in waitingFor[u])
                   ~> (state[u] # "Blocked" \/ \E d \in Users : BlockedInDrop(d)))
=============================================================================
