------------------------------ MODULE Condvar ------------------------------
(***************************************************************************)
(* sync::Condvar on top of Mutex: wait gives up a guard and blocks in one  *)
(* critical section, and locks the mutex again before it returns.  Like    *)
(* Kernel this module has no next-state relation of its own: a condition   *)
(* variable is of use only with a condition, which is the application's    *)
(* (see Handshake).                                                        *)
(***************************************************************************)
EXTENDS Mutex

CONSTANT Conds              \* the condition variables of the application

ASSUME CondvarAssumption == IsFiniteSet(Conds)

VARIABLES
    parked,     \* the list at CondvarInner.wait_head
    relock      \* the mutex a task in wait() has yet to lock again, as a set

condVars == <<parked, relock>>

CondvarTypeOK ==
    /\ TypeOK
    /\ parked \in [Conds -> Seq(Users)]
    /\ relock \in [Users -> SUBSET Mutexes]

CondvarInit ==
    /\ Init
    /\ parked = [c \in Conds |-> <<>>]
    /\ relock = [t \in Users |-> {}]

-----------------------------------------------------------------------------
\* block_and_push on the list of c and unlock_internal of m in one critical
\* section: t blocks, with its base priority.
Park(t, c, m) ==
    /\ DropsGuard(t, m)
    /\ parked' = [parked EXCEPT ![c] = Cons(t, @)]
    /\ relock' = [relock EXCEPT ![t] = {m}]
    /\ priority' = [priority EXCEPT ![t] = Restored(t, m)]
    /\ pc' = [pc EXCEPT ![t] = "trigger"]
    /\ UNCHANGED <<current, left, seen, locking>>

\* wait when nobody waits for the mutex: it becomes free.
WaitFrees(t, c, m) ==
    /\ Park(t, c, m)
    /\ waiters[m] = <<>>
    /\ owner' = [owner EXCEPT ![m] = NoTask]
    /\ state' = [state EXCEPT ![t] = "Blocked"]
    /\ slice' = [slice EXCEPT ![t] = 0]
    /\ UNCHANGED <<pendsv, waiters>>

\* wait when the mutex goes to its highest-priority waiter.  If that one
\* outranks t the switch is requested here already, and once more by the
\* trigger_pendsv() that follows, which t executes when it has been notified.
WaitGrants(t, c, m) ==
    /\ Park(t, c, m)
    /\ \E i \in DOMAIN waiters[m] :
          LET next == waiters[m][i] IN
          /\ IsHighest(waiters[m], i)
          /\ waiters' = [waiters EXCEPT ![m] = Popped(@, i)]
          /\ owner' = [owner EXCEPT ![m] = next]
          /\ state' = [state EXCEPT ![t] = "Blocked", ![next] = "Ready"]
          /\ slice' = [slice EXCEPT ![t] = 0, ![next] = TimeSlice[next]]
          /\ pendsv' = (priority[next] < Restored(t, m))

Wait(t, c, m) == WaitFrees(t, c, m) \/ WaitGrants(t, c, m)

\* Past trigger_pendsv(), wait calls lock().
Relock(t, m) ==
    /\ m \in relock[t]
    /\ Acquire(t, m) \/ LockBlocks(t, m)
    /\ relock' = [relock EXCEPT ![t] = {}]
    /\ UNCHANGED parked

-----------------------------------------------------------------------------
\* The critical section of notify_one.
WakesOne(c, u) ==
    \E i \in DOMAIN parked[c] :
        /\ u = parked[c][i]
        /\ IsHighest(parked[c], i)
        /\ parked' = [parked EXCEPT ![c] = Popped(@, i)]
        /\ Unblock(u)

NotifyOne(t, c) ==
    /\ Calls(t)
    /\ \E u \in Users : WakesOne(c, u) /\ PreemptFor(t, u, priority[t])
    /\ UNCHANGED <<current, left, priority, pendsv, seen, mutexVars, relock>>

\* notify_all pops the list one by one; the order does not show, for every task
\* in it becomes Ready.
NotifyAll(t, c) ==
    LET woken == ToSet(parked[c]) IN
    /\ Calls(t)
    /\ woken # {}
    /\ parked' = [parked EXCEPT ![c] = <<>>]
    /\ state' = [u \in Tasks |-> IF u \in woken THEN "Ready" ELSE state[u]]
    /\ slice' = [u \in Tasks |-> IF u \in woken THEN TimeSlice[u] ELSE slice[u]]
    /\ pc' = IF \E u \in woken : Outranks(u, t) THEN [pc EXCEPT ![t] = "trigger"] ELSE pc
    /\ UNCHANGED <<current, left, priority, pendsv, seen, mutexVars, relock>>

\* mutant: a notification is dropped with tasks in the list.
NotifiesNobody(t, c) ==
    /\ Calls(t)
    /\ UNCHANGED <<kernelVars, mutexVars, condVars>>

\* notify_one or notify_all with an empty list changes nothing.
NotifyNobody(t, c) ==
    /\ Calls(t)
    /\ parked[c] = <<>>
    /\ UNCHANGED <<kernelVars, mutexVars, condVars>>

Notify(t, c) == NotifyOne(t, c) \/ NotifyAll(t, c) \/ NotifyNobody(t, c)

\* notify_one by an interrupt handler.
IsrNotifyOne(c) ==
    /\ \E u \in Users :
          WakesOne(c, u) /\ pendsv' = (pendsv \/ Outranks(u, current))
    /\ UNCHANGED <<current, left, priority, seen, pc, mutexVars, relock>>

-----------------------------------------------------------------------------
Parked(c) == ToSet(parked[c])

\* Where t is in the lists of mutexes and condition variables.  They are linked
\* through one field of the task, so it can be in one place only.
Places(t) ==
    {p \in Mutexes \X (1 .. N) : p[2] \in DOMAIN waiters[p[1]] /\ waiters[p[1]][p[2]] = t}
    \cup
    {p \in Conds \X (1 .. N) : p[2] \in DOMAIN parked[p[1]] /\ parked[p[1]][p[2]] = t}

\* A Blocked task is in one place of one list, however wait, notify and lock
\* move it from the condition variable to the mutex, and no other task is in any.
InOneList ==
    \A t \in Users : Cardinality(Places(t)) = (IF state[t] = "Blocked" THEN 1 ELSE 0)
=============================================================================
