------------------------------- MODULE Mutex -------------------------------
(***************************************************************************)
(* sync::Mutex: a lock with priority inheritance, on top of the kernel.    *)
(* A guard (MutexGuard) is !Send: the task that locked drops it, at a time *)
(* of its choosing.                                                        *)
(***************************************************************************)
EXTENDS Kernel

CONSTANTS
    Mutexes,    \* the mutexes of the application
    Lockers,    \* the tasks that call lock
    Triers,     \* the tasks that call try_lock
    MaxHeld,    \* how many guards a task has at once
    ExitHolding \* whether a task may exit without dropping its guards

ASSUME MutexAssumption ==
    /\ IsFiniteSet(Mutexes)
    /\ Lockers \subseteq Users
    /\ Triers \subseteq Users
    /\ MaxHeld \in Nat
    /\ ExitHolding \in BOOLEAN

VARIABLES
    owner,      \* MutexInner.owner of each mutex, NoTask when unlocked
    waiters,    \* the list at MutexInner.wait_head
    held,       \* the mutexes each task has a guard of
    locking     \* the mutex whose lock() a task has blocked in, as a set

mutexVars == <<owner, waiters, held, locking>>
vars == <<kernelVars, mutexVars>>

TypeOK ==
    /\ KernelTypeOK
    /\ owner \in [Mutexes -> Users \cup {NoTask}]
    /\ waiters \in [Mutexes -> Seq(Users)]
    /\ held \in [Users -> SUBSET Mutexes]
    /\ locking \in [Users -> SUBSET Mutexes]

Init ==
    /\ KernelInit
    /\ owner = [m \in Mutexes |-> NoTask]
    /\ waiters = [m \in Mutexes |-> <<>>]
    /\ held = [t \in Users |-> {}]
    /\ locking = [t \in Users |-> {}]

-----------------------------------------------------------------------------
(***************************************************************************)
(* Locking.  A task that locks a mutex it already has a guard of waits for *)
(* itself for ever; the application does not do that.                      *)
(***************************************************************************)

MayAcquire(t, m) ==
    /\ Calls(t)
    /\ m \notin held[t]
    /\ Cardinality(held[t]) < MaxHeld

NobodyWaits(m) == waiters[m] = <<>>         \* mutant: looks at the list only
Free(m) == owner[m] = NoTask

\* lock or try_lock of a mutex nobody owns.
Acquire(t, m) ==
    /\ t \in Lockers \cup Triers
    /\ MayAcquire(t, m)
    /\ Free(m)
    /\ owner' = [owner EXCEPT ![m] = t]
    /\ held' = [held EXCEPT ![t] = @ \cup {m}]
    /\ UNCHANGED <<kernelVars, waiters, locking>>

NotInherited(o, t) == priority[o]           \* mutant: no boost

\* The effective priority of the owner o once t waits for it.
Inherited(o, t) == IF Outranks(t, o) THEN priority[t] ELSE priority[o]

\* lock of a mutex with an owner, up to the end of the critical section.  A
\* try_lock that finds an owner changes nothing.
LockBlocks(t, m) ==
    /\ t \in Lockers
    /\ MayAcquire(t, m)
    /\ ~Free(m)
    /\ priority' = [priority EXCEPT ![owner[m]] = Inherited(owner[m], t)]
    /\ LeaveRunning(t, "Blocked")
    /\ waiters' = [waiters EXCEPT ![m] = Cons(t, @)]
    /\ locking' = [locking EXCEPT ![t] = {m}]
    /\ UNCHANGED <<current, left, pendsv, seen, owner, held>>

\* A kernel call returns; if it is lock(), with a guard.
CallReturns(t) ==
    /\ Return(t)
    /\ held' = [held EXCEPT ![t] = @ \cup locking[t]]
    /\ locking' = [locking EXCEPT ![t] = {}]
    /\ UNCHANGED <<owner, waiters>>

-----------------------------------------------------------------------------
(***************************************************************************)
(* Unlocking: unlock_internal, called when a guard is dropped.             *)
(***************************************************************************)

DropsGuard(t, m) ==
    /\ Calls(t)
    /\ m \in held[t]
    /\ held' = [held EXCEPT ![t] = @ \ {m}]

KeptBoost(t, m) == priority[t]              \* mutant: the boost stays

\* The effective priority of t once it has released m.
Restored(t, m) == BasePrio[t]

\* Nobody waits.
UnlockFrees(t, m) ==
    /\ DropsGuard(t, m)
    /\ waiters[m] = <<>>
    /\ owner' = [owner EXCEPT ![m] = NoTask]
    /\ priority' = [priority EXCEPT ![t] = Restored(t, m)]
    /\ UNCHANGED <<current, state, slice, left, pendsv, seen, pc, waiters, locking>>

\* The highest-priority waiter becomes the owner and can run.
UnlockGrants(t, m) ==
    /\ DropsGuard(t, m)
    /\ priority' = [priority EXCEPT ![t] = Restored(t, m)]
    /\ \E i \in DOMAIN waiters[m] :
          LET next == waiters[m][i] IN
          /\ IsHighest(waiters[m], i)
          /\ waiters' = [waiters EXCEPT ![m] = Popped(@, i)]
          /\ owner' = [owner EXCEPT ![m] = next]
          /\ Unblock(next)
          /\ PreemptFor(t, next, Restored(t, m))
    /\ UNCHANGED <<current, left, pendsv, seen, locking>>

\* exit never returns to the frames that hold the guards: they are not dropped.
TaskExits(t) ==
    /\ ExitHolding \/ held[t] = {}
    /\ Exit(t)
    /\ UNCHANGED mutexVars

TaskStep(t) ==
    \/ \E m \in Mutexes :
          \/ Acquire(t, m)
          \/ LockBlocks(t, m)
          \/ UnlockFrees(t, m)
          \/ UnlockGrants(t, m)
    \/ CallReturns(t)
    \/ TaskExits(t)

Next ==
    \/ KernelStep /\ UNCHANGED mutexVars
    \/ \E t \in Users : TaskStep(t)

Spec == Init /\ [][Next]_vars

-----------------------------------------------------------------------------
(***************************************************************************)
(* Safety.                                                                 *)
(***************************************************************************)

\* No two tasks have a guard of the same mutex, however they came by it: a free
\* mutex, or a grant made by another task's unlock while they were switched out.
MutualExclusion ==
    \A t, u \in Users : held[t] \cap held[u] # {} => t = u

\* The tasks that wait for m.
Waiting(m) == ToSet(waiters[m])

\* A task is Blocked exactly when it is in the list of the mutex it is locking;
\* it is in it once, and the mutex has an owner whose unlock will look at it.
BlockedExactlyWaiting ==
    /\ \A t \in Users : \A m \in Mutexes :
          t \in Waiting(m) <=> state[t] = "Blocked" /\ m \in locking[t]
    /\ \A t \in Users : state[t] = "Blocked" => locking[t] # {}
    /\ \A m \in Mutexes : IsInjective(waiters[m])
    /\ \A m \in Mutexes : waiters[m] # <<>> => owner[m] # NoTask

\* The variables keep their types, and no step loses a waiter from a list, leaves a
\* woken task in one, or blocks a task outside of one.
Consistent == TypeOK /\ BlockedExactlyWaiting

\* No priority inversion: the owner of a mutex has at least the priority of
\* every task that waits for it (mutex.rs: "the owner's effective priority is
\* temporarily raised to the waiter's priority").
PriorityInheritance ==
    \A m \in Mutexes : \A t \in Waiting(m) : ~Outranks(t, owner[m])

\* No priority is kept past its cause: a task runs above its base priority only
\* while it owns a mutex a task of that very priority waits for.
BoostHasACause ==
    \A t \in Users :
        priority[t] # BasePrio[t] =>
            \E m \in Mutexes :
                owner[m] = t /\ \E u \in Waiting(m) : priority[u] = priority[t]

\* A mutex is a lock handed over by base priority.  This needs tasks that hold
\* one guard at a time: a waiter that holds another mutex may be boosted.
Lock == INSTANCE PriorityLock WITH
           holder <- owner,
           queue <- [m \in Mutexes |-> Waiting(m)]

ImplementsPriorityLock == Lock!Spec

\* What the documentation of try_lock says (mutex.rs): "try_lock does not apply
\* priority inheritance", the holder is not boosted when a task of a higher priority
\* blocks in lock.  So a task that locks with try_lock only keeps its base priority.
TriersAreNotBoosted == \A t \in Triers \ Lockers : priority[t] = BasePrio[t]

(***************************************************************************)
(* Liveness, under the fairness a client of the mutexes has (see module    *)
(* Handshake).                                                             *)
(***************************************************************************)

\* A task that outranks every other one and blocks in lock() gets the mutex,
\* even if a task between it and the owner computes for ever.
TopTaskLocks ==
    \A t \in Users : \A m \in Mutexes :
        (\A u \in Tasks \ {t} : BasePrio[t] < BasePrio[u])
            => (m \in locking[t] ~> m \in held[t])
=============================================================================
