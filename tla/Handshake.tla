----------------------------- MODULE Handshake -----------------------------
(***************************************************************************)
(* Condition variables used the way condvar.rs documents: a consumer locks *)
(* the mutex, waits while the flag it guards is clear, and clears it; a    *)
(* producer sets the flag with the mutex locked, drops the guard and then  *)
(* notifies.  Interrupt handlers may notify at any time, which a consumer  *)
(* sees as a spurious wake-up.  The same tasks use the mutexes for other   *)
(* ends as well, and may exit.                                             *)
(***************************************************************************)
EXTENDS Condvar

CONSTANTS
    Consumers,  \* the tasks that wait
    Producers,  \* the tasks that notify
    MutexOf,    \* the mutex that guards the condition of each condvar
    IsrNotified \* the condition variables that interrupt handlers notify

ASSUME HandshakeAssumption ==
    /\ Consumers \subseteq Lockers
    /\ Producers \subseteq Lockers
    /\ MutexOf \in [Conds -> Mutexes]
    /\ \A c, d \in Conds : MutexOf[c] = MutexOf[d] => c = d    \* a condition each
    /\ IsrNotified \subseteq Conds

VARIABLES
    flag,       \* the condition of each condvar, guarded by its mutex
    owes        \* the condvars a producer is about to notify

clientVars == <<flag, owes>>
allVars == <<kernelVars, mutexVars, condVars, clientVars>>

HandshakeTypeOK ==
    /\ CondvarTypeOK
    /\ flag \in [Conds -> BOOLEAN]
    /\ owes \in [Users -> SUBSET Conds]

HandshakeInit ==
    /\ CondvarInit
    /\ flag = [c \in Conds |-> FALSE]
    /\ owes = [t \in Users |-> {}]

-----------------------------------------------------------------------------
\* t is neither at the end of a wait() nor past setting a flag.
AtLeisure(t) == relock[t] = {} /\ owes[t] = {}

Locks(t, m) ==
    /\ AtLeisure(t)
    /\ Acquire(t, m) \/ LockBlocks(t, m)
    /\ UNCHANGED <<condVars, clientVars>>

Returns(t) == CallReturns(t) /\ UNCHANGED <<condVars, clientVars>>

Relocks(t) == \E m \in Mutexes : Relock(t, m) /\ UNCHANGED clientVars

\* The consumer's loop: wait while the flag is clear, else clear it.
WaitsForFlag(t, c) ==
    /\ t \in Consumers /\ AtLeisure(t)
    /\ ~flag[c]
    /\ Wait(t, c, MutexOf[c])
    /\ UNCHANGED clientVars

Unlocks(t, m) == UnlockFrees(t, m) \/ UnlockGrants(t, m)

\* A guard dropped for no condition.  A consumer looks at the flag first.
Drops(t, m) ==
    /\ AtLeisure(t)
    /\ \A c \in Conds : t \in Consumers => MutexOf[c] # m
    /\ Unlocks(t, m)
    /\ UNCHANGED <<condVars, clientVars>>

Consumes(t, c) ==
    /\ t \in Consumers /\ AtLeisure(t)
    /\ flag[c]
    /\ Unlocks(t, MutexOf[c])
    /\ flag' = [flag EXCEPT ![c] = FALSE]
    /\ UNCHANGED <<condVars, owes>>

Produces(t, c) ==
    /\ t \in Producers /\ AtLeisure(t)
    /\ Unlocks(t, MutexOf[c])
    /\ flag' = [flag EXCEPT ![c] = TRUE]
    /\ owes' = [owes EXCEPT ![t] = @ \cup {c}]
    /\ UNCHANGED condVars

Notifies(t, c) ==
    /\ c \in owes[t]
    /\ Notify(t, c)
    /\ owes' = [owes EXCEPT ![t] = @ \ {c}]
    /\ UNCHANGED flag

IsrNotifies(c) ==
    /\ c \in IsrNotified
    /\ IsrNotifyOne(c)
    /\ UNCHANGED clientVars

\* A task at the end of a wait() calls nothing else before lock().
Interrupts ==
    /\ KernelStep
    /\ \A t \in Users : relock[t] # {} /\ pc[t] = "user" => pc'[t] = "user"
    /\ UNCHANGED <<mutexVars, condVars, clientVars>>

Leaves(t) ==
    /\ AtLeisure(t)
    /\ TaskExits(t)
    /\ UNCHANGED <<condVars, clientVars>>

ClientStep(t) ==
    \/ \E m \in Mutexes : Locks(t, m) \/ Drops(t, m)
    \/ Leaves(t)
    \/ Returns(t)
    \/ Relocks(t)
    \/ \E c \in Conds :
          WaitsForFlag(t, c) \/ Consumes(t, c) \/ Produces(t, c) \/ Notifies(t, c)

HandshakeNext ==
    \/ Interrupts
    \/ \E t \in Users : ClientStep(t)
    \/ \E c \in Conds : IsrNotifies(c)

HandshakeSpec == HandshakeInit /\ [][HandshakeNext]_allVars

(***************************************************************************)
(* Fairness of the interrupts and of calls under way as in module          *)
(* Scheduler; besides, a task that has a guard and keeps getting the CPU   *)
(* drops it or waits some time, and a producer notifies.  Nothing obliges  *)
(* a producer to produce, or an interrupt to notify.                       *)
(***************************************************************************)
Alone(A) == A /\ UNCHANGED <<mutexVars, condVars, clientVars>>

HandshakeFairness ==
    /\ WF_allVars(Alone(Launch))
    /\ WF_allVars(Alone(SysTick))
    /\ SF_allVars(Alone(TickRunning))
    /\ WF_allVars(Alone(PendSV))
    /\ \A t \in Users :
          /\ SF_allVars(Alone(SleepUntil(t) \/ Trigger(t)) \/ Returns(t) \/ Relocks(t))
          /\ SF_allVars(\/ \E m \in Mutexes : Drops(t, m)
                        \/ \E c \in Conds :
                              \/ WaitsForFlag(t, c) \/ Consumes(t, c)
                              \/ Produces(t, c) \/ Notifies(t, c))

HandshakeFairSpec == HandshakeSpec /\ HandshakeFairness

-----------------------------------------------------------------------------
\* The variables keep their types; a Blocked task is in one place of one list, however
\* wait, notify, lock and unlock pass it on; and no list of a mutex is left without an
\* owner whose unlock will look at it.
HandshakeConsistent ==
    /\ HandshakeTypeOK
    /\ InOneList
    /\ \A m \in Mutexes : waiters[m] # <<>> => owner[m] # NoTask

\* t has left the list of c and is going to look at its flag.
OnItsWay(t, c) ==
    /\ t \in Consumers \ Parked(c)
    /\ MutexOf[c] \in relock[t] \cup locking[t] \cup held[t]

\* No wake-up is lost between the test of the flag and the wait, or between the
\* release of the mutex and the block: tasks wait for a flag that is set only
\* while a producer has yet to notify or one of them is on its way.
NoLostWakeUp ==
    \A c \in Conds :
        flag[c] /\ parked[c] # <<>>
            => \/ \E t \in Producers : c \in owes[t]
               \/ \E t \in Consumers : OnItsWay(t, c)

\* The consumer that outranks every other task leaves a list whose flag is set,
\* whoever else waits in it and whoever has the mutex.
TopConsumerWakes ==
    \A t \in Consumers : \A c \in Conds :
        (\A u \in Tasks \ {t} : BasePrio[t] < BasePrio[u])
            => (flag[c] /\ t \in Parked(c) ~> t \notin Parked(c))
=============================================================================
