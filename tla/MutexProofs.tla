---------------------------- MODULE MutexProofs ----------------------------
(***************************************************************************)
(* Mutex, for every number of tasks and mutexes, every assignment of       *)
(* priorities and every workload; and, in the second half, Condvar with    *)
(* Mutex in the use of Handshake, for every number of condition variables, *)
(* with guards nested as they may be, and interrupt handlers that notify   *)
(* at any time.  The first half uses nothing of Condvar.                   *)
(***************************************************************************)
EXTENDS Handshake, KernelProofs, FiniteSetTheorems

\* A guard is proof of ownership.
GuardsAreOwners == \A t \in Users : \A m \in held[t] : owner[m] = t

\* A task that is past its wait in lock() has been granted the mutex.
WokenByGrant ==
    \A t \in Users : \A m \in locking[t] : state[t] # "Blocked" => owner[m] = t

\* A task waits in one lock() at a time, and is inside that call.
OneLockUnderWay ==
    \A t \in Users :
        /\ \A m, n \in locking[t] : m = n
        /\ locking[t] # {} => pc[t] \in {"trigger", "return"}

\* What BlockedExactlyWaiting says of the lists.  The rest of it, that no task is
\* Blocked outside of them, is not needed for the lists, and is not true of an
\* application that has condition variables.
ListsAreLinked ==
    /\ \A t \in Users : \A m \in Mutexes :
          t \in Waiting(m) <=> state[t] = "Blocked" /\ m \in locking[t]
    /\ \A m \in Mutexes : IsInjective(waiters[m])
    /\ \A m \in Mutexes : waiters[m] # <<>> => owner[m] # NoTask

BlockedInLock == \A t \in Users : state[t] = "Blocked" => locking[t] # {}

\* The inductive invariant behind mutual exclusion.
LockInv ==
    /\ TypeOK
    /\ RunsOnlyWhenRunning
    /\ GuardsAreOwners
    /\ WokenByGrant
    /\ ListsAreLinked
    /\ OneLockUnderWay

LEMMA InitLock == ASSUME Init PROVE LockInv
<1>1. KernelTypeOK /\ RunsOnlyWhenRunning
  BY KernelInitType DEF Init, KernelInit, RunsOnlyWhenRunning
<1>2. TypeOK
  BY <1>1 DEF Init, TypeOK
<1>3. ListsAreLinked
  BY KernelConstants DEF Init, KernelInit, ListsAreLinked, Waiting, ToSet, IsInjective
<1> QED
  BY <1>1, <1>2, <1>3
     DEF Init, LockInv, GuardsAreOwners, WokenByGrant, OneLockUnderWay

LEMMA KernelStepLock ==
    ASSUME LockInv, KernelStep, UNCHANGED mutexVars
    PROVE  LockInv'
<1>1. TypeOK' /\ RunsOnlyWhenRunning'
  BY KernelStepType, KernelStepRuns DEF LockInv, TypeOK, mutexVars
<1>2. \A t \in Users :
         /\ state'[t] = "Blocked" <=> state[t] = "Blocked"
         /\ pc[t] \in {"trigger", "return"} => pc'[t] \in {"trigger", "return"}
  BY KernelStepKeepsBlocked DEF LockInv, TypeOK
<1>3. ListsAreLinked'
  BY <1>2 DEF LockInv, ListsAreLinked, Waiting, mutexVars
<1> QED
  BY <1>1, <1>2, <1>3
     DEF LockInv, GuardsAreOwners, WokenByGrant, OneLockUnderWay, mutexVars

\* A task in its own code that can make a call is Running and inside no lock().
LEMMA CallerIsFree ==
    ASSUME LockInv, NEW t \in Users, Calls(t)
    PROVE  /\ t \in Tasks
           /\ state[t] = "Running"
           /\ locking[t] = {}
           /\ \A m \in Mutexes : t \notin Waiting(m)
BY KernelConstants, ThreadRuns
   DEF LockInv, Calls, OneLockUnderWay, ListsAreLinked

LEMMA AcquireLock ==
    ASSUME LockInv, NEW t \in Users, NEW m \in Mutexes, Acquire(t, m)
    PROVE  LockInv'
<1>1. t \in Tasks /\ locking[t] = {}
  BY CallerIsFree DEF Acquire, MayAcquire
<1>2. TypeOK' /\ RunsOnlyWhenRunning'
  BY DEF Acquire, LockInv, TypeOK, KernelTypeOK, RunsOnlyWhenRunning, kernelVars
<1>3. GuardsAreOwners' /\ WokenByGrant'
  <2>1. \A u \in Users : owner[m] # u
    BY KernelConstants DEF Acquire, Free
  <2>2. GuardsAreOwners'
    BY <2>1 DEF Acquire, LockInv, TypeOK, GuardsAreOwners
  <2>3. WokenByGrant'
    BY <2>1 DEF Acquire, LockInv, TypeOK, WokenByGrant, kernelVars
  <2> QED
    BY <2>2, <2>3
<1>4. ListsAreLinked' /\ OneLockUnderWay'
  BY KernelConstants
     DEF Acquire, LockInv, TypeOK, ListsAreLinked, Waiting, OneLockUnderWay,
         kernelVars, NoTask
<1> QED
  BY <1>2, <1>3, <1>4 DEF LockInv

LEMMA LockBlocksLock ==
    ASSUME LockInv, NEW t \in Users, NEW m \in Mutexes, LockBlocks(t, m)
    PROVE  LockInv'
<1> USE DEF LockBlocks, LeaveRunning
<1>1. /\ t \in Tasks
      /\ state[t] = "Running"
      /\ locking[t] = {}
      /\ \A n \in Mutexes : t \notin Waiting(n)
  BY CallerIsFree DEF MayAcquire
<1>2. TypeOK'
  <2>1. waiters' \in [Mutexes -> Seq(Users)]
    BY PushedList DEF LockInv, TypeOK
  <2>2. Inherited(owner[m], t) \in 0 .. MaxPrio
    BY <1>1, KernelConstants DEF LockInv, TypeOK, KernelTypeOK, Inherited, Free
  <2>3. priority' \in [Tasks -> 0 .. MaxPrio]
    BY <2>2 DEF LockInv, TypeOK, KernelTypeOK
  <2>4. /\ state' \in [Tasks -> TaskStates]
        /\ slice' \in [Tasks -> 0 .. 255]
        /\ pc' \in [Tasks -> Points]
    <3>1. state' \in [Tasks -> TaskStates]
      BY DEF LockInv, TypeOK, KernelTypeOK, TaskStates
    <3>2. slice' \in [Tasks -> 0 .. 255]
      <4>1. slice' = [slice EXCEPT ![t] = 0]
        OBVIOUS
      <4>2. slice \in [Tasks -> 0 .. 255]
        BY DEF LockInv, TypeOK, KernelTypeOK
      <4> HIDE DEF LockBlocks, LeaveRunning
      <4> QED
        BY <4>1, <4>2, 0 \in 0 .. 255, \A s \in Tasks : slice[s] \in 0 .. 255
    <3>3. pc' \in [Tasks -> Points]
      BY DEF LockInv, TypeOK, KernelTypeOK, Points
    <3> QED
      BY <3>1, <3>2, <3>3
  <2>5. locking' \in [Users -> SUBSET Mutexes]
    BY DEF LockInv, TypeOK
  <2>6. state'[Idle] \in {"Ready", "Running"} /\ current' # NoTask
    BY <1>1, KernelConstants
       DEF MayAcquire, Calls, Thread, LockInv, TypeOK, KernelTypeOK
  <2> QED
    BY <2>1, <2>3, <2>4, <2>5, <2>6 DEF LockInv, TypeOK, KernelTypeOK
<1>3. RunsOnlyWhenRunning'
  BY <1>1 DEF LockInv, TypeOK, KernelTypeOK, RunsOnlyWhenRunning, MayAcquire, Calls, Thread
<1>4. GuardsAreOwners' /\ WokenByGrant' /\ OneLockUnderWay'
  BY <1>1 DEF LockInv, TypeOK, KernelTypeOK, GuardsAreOwners, WokenByGrant, OneLockUnderWay
<1>5. waiters' = [waiters EXCEPT ![m] = Cons(t, waiters[m])]
  OBVIOUS
<1>6. waiters[m] \in Seq(Users) /\ IsInjective(waiters[m])
  BY DEF LockInv, TypeOK, ListsAreLinked
<1>7. /\ Waiting(m)' = Waiting(m) \cup {t}
      /\ IsInjective(waiters'[m])
  <2>1. t \notin ToSet(waiters[m])
    BY <1>1 DEF Waiting
  <2>2. waiters'[m] = Cons(t, waiters[m])
    BY <1>5 DEF LockInv, TypeOK
  <2>3. /\ ToSet(Cons(t, waiters[m])) = ToSet(waiters[m]) \cup {t}
        /\ IsInjective(Cons(t, waiters[m]))
    BY <1>6, <2>1, PushedList
  <2> QED
    BY <2>2, <2>3 DEF Waiting
<1>8. \A n \in Mutexes \ {m} : waiters'[n] = waiters[n]
  BY <1>5 DEF LockInv, TypeOK
<1>9. ListsAreLinked'
  <2>1. ASSUME NEW u \in Users, NEW n \in Mutexes
        PROVE  (u \in Waiting(n) <=> state[u] = "Blocked" /\ n \in locking[u])'
    <3>1. (u \in Waiting(n))' <=> u \in Waiting(n) \/ (u = t /\ n = m)
      BY <1>7, <1>8 DEF Waiting
    <3>2. u \in Waiting(n) <=> state[u] = "Blocked" /\ n \in locking[u]
      BY DEF LockInv, ListsAreLinked
    <3> QED
      BY <1>1, <3>1, <3>2 DEF LockInv, TypeOK, KernelTypeOK
  <2>2. (\A n \in Mutexes : IsInjective(waiters[n]))'
    BY <1>7, <1>8 DEF LockInv, ListsAreLinked
  <2>3. (\A n \in Mutexes : waiters[n] # <<>> => owner[n] # NoTask)'
    BY <1>8 DEF LockInv, ListsAreLinked, Free
  <2> QED
    BY <2>1, <2>2, <2>3 DEF ListsAreLinked
<1> QED
  BY <1>2, <1>3, <1>4, <1>9 DEF LockInv

LEMMA CallReturnsLock ==
    ASSUME LockInv, NEW t \in Users, CallReturns(t)
    PROVE  LockInv'
<1> USE DEF CallReturns
<1>1. t \in Tasks /\ state[t] = "Running"
  BY KernelConstants, ThreadRuns DEF LockInv, Return
<1>2. TypeOK'
  BY ReturnType DEF LockInv, TypeOK
<1>3. RunsOnlyWhenRunning'
  BY ExitReturnRuns DEF LockInv, TypeOK
<1>4. GuardsAreOwners'
  BY <1>1 DEF LockInv, TypeOK, GuardsAreOwners, WokenByGrant
<1>5. WokenByGrant' /\ OneLockUnderWay'
  BY <1>1 DEF LockInv, TypeOK, KernelTypeOK, WokenByGrant, OneLockUnderWay, Return
<1>6. ListsAreLinked'
  BY <1>1 DEF LockInv, TypeOK, ListsAreLinked, Waiting, Return
<1> QED
  BY <1>2, <1>3, <1>4, <1>5, <1>6 DEF LockInv

\* What UnlockFrees and UnlockGrants have in common: the caller is Running, was
\* the owner, and no other task has a claim on the mutex.
LEMMA DropperIsOwner ==
    ASSUME LockInv, NEW t \in Users, NEW m \in Mutexes, DropsGuard(t, m)
    PROVE  /\ t \in Tasks
           /\ state[t] = "Running"
           /\ owner[m] = t
           /\ \A n \in Mutexes : t \notin Waiting(n)
           /\ \A u \in Users \ {t} : m \notin held[u]
           /\ \A u \in Users : m \in locking[u] => state[u] = "Blocked"
<1>1. /\ t \in Tasks
      /\ state[t] = "Running"
      /\ locking[t] = {}
      /\ \A n \in Mutexes : t \notin Waiting(n)
  BY CallerIsFree DEF DropsGuard
<1>2. owner[m] = t
  BY DEF LockInv, GuardsAreOwners, DropsGuard
<1>3. \A u \in Users \ {t} : m \notin held[u]
  BY <1>2 DEF LockInv, GuardsAreOwners
<1>4. \A u \in Users : m \in locking[u] => state[u] = "Blocked"
  BY <1>1, <1>2 DEF LockInv, WokenByGrant
<1> QED
  BY <1>1, <1>2, <1>3, <1>4

\* What an unlock does to the mutex that nobody waits for, whatever it does to its
\* caller.
Frees(t, m) ==
    /\ DropsGuard(t, m)
    /\ waiters[m] = <<>>
    /\ waiters' = waiters
    /\ owner' = [owner EXCEPT ![m] = NoTask]
    /\ priority' = [priority EXCEPT ![t] = BasePrio[t]]
    /\ locking' = locking

\* What an unlock does to the mutex that next is the highest waiter of.
HandsOver(t, m, next) ==
    /\ DropsGuard(t, m)
    /\ next \in Waiting(m)
    /\ next # t
    /\ \A u \in Waiting(m) : Outranks(next, u) \/ priority[next] = priority[u]
    /\ waiters' \in [Mutexes -> Seq(Users)]
    /\ \A n \in Mutexes \ {m} : waiters'[n] = waiters[n]
    /\ Waiting(m)' = Waiting(m) \ {next}
    /\ IsInjective(waiters'[m])
    /\ owner' = [owner EXCEPT ![m] = next]
    /\ priority' = [priority EXCEPT ![t] = BasePrio[t]]
    /\ locking' = locking

LEMMA FreesLock ==
    ASSUME LockInv, NEW t \in Users, NEW m \in Mutexes, Frees(t, m),
           KernelTypeOK', RunsOnlyWhenRunning',
           \A u \in Users \ {t} : state'[u] = state[u] /\ pc'[u] = pc[u]
    PROVE  LockInv'
<1>1. /\ t \in Tasks
      /\ owner[m] = t
      /\ locking[t] = {}
      /\ \A n \in Mutexes : t \notin Waiting(n)
      /\ \A u \in Users \ {t} : m \notin held[u]
      /\ \A u \in Users : m \in locking[u] => state[u] = "Blocked"
  BY DropperIsOwner, CallerIsFree DEF Frees, DropsGuard
<1>2. TypeOK'
  BY DEF Frees, DropsGuard, LockInv, TypeOK
<1>3. GuardsAreOwners'
  BY <1>1 DEF Frees, DropsGuard, LockInv, TypeOK, GuardsAreOwners
<1>4. WokenByGrant' /\ OneLockUnderWay'
  <2>1. owner' = [owner EXCEPT ![m] = NoTask] /\ locking' = locking
    BY DEF Frees
  <2>2. WokenByGrant'
    BY <1>1, <2>1 DEF LockInv, TypeOK, WokenByGrant
  <2>3. OneLockUnderWay'
    BY <1>1, <2>1 DEF LockInv, OneLockUnderWay
  <2> QED
    BY <2>2, <2>3
<1>5. ListsAreLinked'
  <2>1. ASSUME NEW u \in Users, NEW n \in Mutexes
        PROVE  (u \in Waiting(n) <=> state[u] = "Blocked" /\ n \in locking[u])'
    <3>1. (u \in Waiting(n))' <=> u \in Waiting(n)
      BY DEF Frees, Waiting
    <3> QED
      BY <1>1, <3>1 DEF Frees, LockInv, ListsAreLinked
  <2> QED
    BY <2>1 DEF Frees, LockInv, TypeOK, ListsAreLinked
<1> QED
  BY <1>2, <1>3, <1>4, <1>5 DEF LockInv

LEMMA HandsOverLock ==
    ASSUME LockInv, NEW t \in Users, NEW m \in Mutexes, NEW next \in Users,
           HandsOver(t, m, next),
           KernelTypeOK', RunsOnlyWhenRunning',
           state'[next] = "Ready",
           \A u \in Users \ {t, next} : state'[u] = state[u],
           \A u \in Users \ {t} : pc'[u] = pc[u]
    PROVE  LockInv'
<1>1. /\ owner[m] = t
      /\ locking[t] = {}
      /\ \A n \in Mutexes : t \notin Waiting(n)
      /\ \A u \in Users \ {t} : m \notin held[u]
      /\ \A u \in Users : m \in locking[u] => state[u] = "Blocked"
  BY DropperIsOwner, CallerIsFree DEF HandsOver, DropsGuard
<1>2. /\ state[next] = "Blocked"
      /\ m \in locking[next]
      /\ \A n \in locking[next] : n = m
  BY DEF HandsOver, LockInv, ListsAreLinked, OneLockUnderWay
<1>3. /\ held' = [held EXCEPT ![t] = held[t] \ {m}]
      /\ owner' = [owner EXCEPT ![m] = next]
      /\ locking' = locking
  BY DEF HandsOver, DropsGuard
<1>4. TypeOK'
  BY <1>3 DEF HandsOver, LockInv, TypeOK
<1>5. GuardsAreOwners'
  BY <1>1, <1>3 DEF LockInv, TypeOK, GuardsAreOwners
<1>6. WokenByGrant'
  <2> SUFFICES ASSUME NEW u \in Users, NEW n \in locking[u], state'[u] # "Blocked"
               PROVE  owner'[n] = u
    BY <1>3 DEF WokenByGrant
  <2>1. CASE u = next
    BY <1>2, <1>3, <2>1 DEF LockInv, TypeOK
  <2>2. CASE u # next
    <3>1. state[u] # "Blocked"
      BY <1>1, <2>2
    <3>2. n # m
      BY <1>1, <3>1
    <3> QED
      BY <1>3, <3>1, <3>2 DEF LockInv, TypeOK, WokenByGrant
  <2> QED
    BY <2>1, <2>2
<1>7. OneLockUnderWay'
  BY <1>1, <1>3 DEF LockInv, OneLockUnderWay
<1>8. ListsAreLinked'
  <2>1. ASSUME NEW u \in Users, NEW n \in Mutexes
        PROVE  (u \in Waiting(n) <=> state[u] = "Blocked" /\ n \in locking[u])'
    <3>1. (u \in Waiting(n))' <=> u \in Waiting(n) /\ ~(u = next /\ n = m)
      BY DEF HandsOver, Waiting
    <3>2. u \in Waiting(n) <=> state[u] = "Blocked" /\ n \in locking[u]
      BY DEF LockInv, ListsAreLinked
    <3> QED
      BY <1>1, <1>2, <1>3, <3>1, <3>2
  <2>2. (\A n \in Mutexes : IsInjective(waiters[n]))'
    BY DEF HandsOver, LockInv, ListsAreLinked
  <2>3. (\A n \in Mutexes : waiters[n] # <<>> => owner[n] # NoTask)'
    BY <1>3, KernelConstants DEF HandsOver, LockInv, TypeOK, ListsAreLinked
  <2> QED
    BY <2>1, <2>2, <2>3 DEF ListsAreLinked
<1> QED
  BY <1>4, <1>5, <1>6, <1>7, <1>8 DEF LockInv

\* What happens to the list and to the mutex when entry i is popped.
LEMMA PoppedWaiter ==
    ASSUME LockInv, NEW t \in Users, NEW m \in Mutexes, NEW i \in DOMAIN waiters[m],
           DropsGuard(t, m),
           IsHighest(waiters[m], i),
           waiters' = [waiters EXCEPT ![m] = Popped(waiters[m], i)],
           owner' = [owner EXCEPT ![m] = waiters[m][i]],
           priority' = [priority EXCEPT ![t] = Restored(t, m)],
           locking' = locking
    PROVE  waiters[m][i] \in Users /\ HandsOver(t, m, waiters[m][i])
<1> DEFINE next == waiters[m][i]
<1>1. waiters[m] \in Seq(Users) /\ IsInjective(waiters[m])
  BY DEF LockInv, TypeOK, ListsAreLinked
<1>2. next \in Users /\ next \in Waiting(m)
  BY <1>1 DEF Waiting, ToSet
<1>3. next # t
  BY <1>2, DropperIsOwner
<1>4. \A u \in Waiting(m) : Outranks(next, u) \/ priority[next] = priority[u]
  BY DEF IsHighest, Waiting, ToSet
<1>5. /\ Popped(waiters[m], i) \in Seq(Users)
      /\ ToSet(Popped(waiters[m], i)) = Waiting(m) \ {next}
      /\ IsInjective(Popped(waiters[m], i))
  BY <1>1, PoppedList DEF Popped, Waiting
<1>6. /\ waiters' \in [Mutexes -> Seq(Users)]
      /\ waiters'[m] = Popped(waiters[m], i)
      /\ \A n \in Mutexes \ {m} : waiters'[n] = waiters[n]
  BY <1>5 DEF LockInv, TypeOK
<1>7. Waiting(m)' = Waiting(m) \ {next} /\ IsInjective(waiters'[m])
  BY <1>5, <1>6 DEF Waiting
<1> QED
  BY <1>2, <1>3, <1>4, <1>6, <1>7 DEF HandsOver, Restored

LEMMA UnlockFreesLock ==
    ASSUME LockInv, NEW t \in Users, NEW m \in Mutexes, UnlockFrees(t, m)
    PROVE  LockInv' /\ Frees(t, m)
<1>1. Frees(t, m)
  BY DEF UnlockFrees, Frees, Restored
<1>2. KernelTypeOK' /\ RunsOnlyWhenRunning'
  BY KernelConstants
     DEF UnlockFrees, Restored, LockInv, TypeOK, KernelTypeOK, RunsOnlyWhenRunning
<1> QED
  BY <1>1, <1>2, FreesLock DEF UnlockFrees

\* What UnlockGrants does, with the waiter it picks named.
LEMMA GrantedWaiter ==
    ASSUME LockInv, NEW t \in Users, NEW m \in Mutexes, UnlockGrants(t, m)
    PROVE  \E next \in Users :
              /\ HandsOver(t, m, next)
              /\ Unblock(next)
              /\ PreemptFor(t, next, Restored(t, m))
<1>1. PICK i \in DOMAIN waiters[m] :
         /\ IsHighest(waiters[m], i)
         /\ waiters' = [waiters EXCEPT ![m] = Popped(waiters[m], i)]
         /\ owner' = [owner EXCEPT ![m] = waiters[m][i]]
         /\ Unblock(waiters[m][i])
         /\ PreemptFor(t, waiters[m][i], Restored(t, m))
  BY DEF UnlockGrants
<1>2. /\ DropsGuard(t, m)
      /\ priority' = [priority EXCEPT ![t] = Restored(t, m)]
      /\ locking' = locking
  BY DEF UnlockGrants
<1>3. waiters[m][i] \in Users /\ HandsOver(t, m, waiters[m][i])
  BY <1>1, <1>2, PoppedWaiter
<1> QED
  BY <1>1, <1>3

LEMMA UnlockGrantsLock ==
    ASSUME LockInv, NEW t \in Users, NEW m \in Mutexes, UnlockGrants(t, m)
    PROVE  LockInv'
<1>1. t \in Tasks /\ state[t] = "Running"
  BY DropperIsOwner DEF UnlockGrants
<1>2. PICK next \in Users :
         /\ HandsOver(t, m, next)
         /\ Unblock(next)
         /\ PreemptFor(t, next, Restored(t, m))
  BY GrantedWaiter
<1>3. /\ current' = current
      /\ left' = left
      /\ pendsv' = pendsv /\ seen' = seen
      /\ priority' = [priority EXCEPT ![t] = BasePrio[t]]
      /\ current = t /\ ~pendsv /\ seen = {} /\ pc[t] = "user"
  BY DEF UnlockGrants, DropsGuard, Calls, Thread, Restored
<1>4. /\ state' = [state EXCEPT ![next] = "Ready"]
      /\ slice' = [slice EXCEPT ![next] = TimeSlice[next]]
      /\ pc' = pc \/ pc' = [pc EXCEPT ![t] = "trigger"]
      /\ next # t
  BY <1>2 DEF Unblock, PreemptFor, HandsOver
<1>5. KernelTypeOK'
  <2>1. /\ priority' \in [Tasks -> 0 .. MaxPrio]
        /\ slice' \in [Tasks -> 0 .. 255]
    BY <1>3, <1>4, KernelConstants DEF LockInv, TypeOK, KernelTypeOK
  <2>2. state' \in [Tasks -> TaskStates] /\ pc' \in [Tasks -> Points]
    BY <1>4 DEF LockInv, TypeOK, KernelTypeOK, TaskStates, Points
  <2>3. state'[Idle] \in {"Ready", "Running"} /\ current' # NoTask
    BY <1>3, <1>4, KernelConstants DEF LockInv, TypeOK, KernelTypeOK
  <2> QED
    BY <1>3, <2>1, <2>2, <2>3 DEF LockInv, TypeOK, KernelTypeOK
<1>6. RunsOnlyWhenRunning'
  BY <1>1, <1>3, <1>4, KernelConstants
     DEF LockInv, TypeOK, KernelTypeOK, RunsOnlyWhenRunning
<1>7. /\ state'[next] = "Ready"
      /\ \A u \in Users \ {t, next} : state'[u] = state[u]
      /\ \A u \in Users \ {t} : pc'[u] = pc[u]
  BY <1>4, KernelConstants DEF LockInv, TypeOK, KernelTypeOK
<1> QED
  BY <1>2, <1>5, <1>6, <1>7, HandsOverLock

LEMMA TaskExitsLock ==
    ASSUME LockInv, NEW t \in Users, TaskExits(t)
    PROVE  LockInv'
<1>1. /\ t \in Tasks
      /\ state[t] = "Running"
      /\ locking[t] = {}
      /\ \A m \in Mutexes : t \notin Waiting(m)
  BY CallerIsFree DEF TaskExits, Exit
<1>2. TypeOK' /\ RunsOnlyWhenRunning'
  BY ExitType, ExitReturnRuns DEF TaskExits, LockInv, TypeOK, mutexVars
<1>3. /\ state' = [state EXCEPT ![t] = "Dead"]
      /\ pc' = [pc EXCEPT ![t] = "trigger"]
      /\ UNCHANGED mutexVars
  BY DEF TaskExits, Exit, LeaveRunning
<1>4. GuardsAreOwners' /\ WokenByGrant' /\ OneLockUnderWay'
  BY <1>1, <1>3, KernelConstants
     DEF LockInv, TypeOK, KernelTypeOK, GuardsAreOwners, WokenByGrant, OneLockUnderWay,
         mutexVars
<1>5. ListsAreLinked'
  BY <1>1, <1>3, KernelConstants
     DEF LockInv, TypeOK, KernelTypeOK, ListsAreLinked, Waiting, mutexVars
<1> QED
  BY <1>2, <1>4, <1>5 DEF LockInv

LEMMA StutterLock ==
    ASSUME LockInv, UNCHANGED vars
    PROVE  LockInv'
<1> USE DEF vars, kernelVars, mutexVars
<1>1. TypeOK' /\ RunsOnlyWhenRunning'
  BY DEF LockInv, TypeOK, KernelTypeOK, RunsOnlyWhenRunning
<1>2. GuardsAreOwners' /\ WokenByGrant' /\ OneLockUnderWay'
  BY DEF LockInv, GuardsAreOwners, WokenByGrant, OneLockUnderWay
<1>3. ListsAreLinked'
  BY DEF LockInv, ListsAreLinked, Waiting
<1> QED
  BY <1>1, <1>2, <1>3 DEF LockInv

LEMMA NextLock ==
    ASSUME LockInv, [Next]_vars
    PROVE  LockInv'
<1>1. CASE UNCHANGED vars
  BY <1>1, StutterLock
<1>2. CASE KernelStep /\ UNCHANGED mutexVars
  BY <1>2, KernelStepLock
<1>3. ASSUME NEW t \in Users, TaskStep(t)
      PROVE  LockInv'
  BY <1>3, AcquireLock, LockBlocksLock, UnlockFreesLock, UnlockGrantsLock,
     CallReturnsLock, TaskExitsLock DEF TaskStep
<1> QED
  BY <1>1, <1>2, <1>3 DEF Next

LEMMA LockInvHolds == Spec => []LockInv
<1>1. Init => LockInv
  BY InitLock
<1>2. LockInv /\ [Next]_vars => LockInv'
  BY NextLock
<1> QED
  BY <1>1, <1>2, PTL DEF Spec

\* Two tasks never have a guard of the same mutex, and every guard is held by the
\* task the mutex names as its owner, nested locking and exits included.
THEOREM GuardsExclude == Spec => []MutualExclusion
<1>1. LockInv => MutualExclusion
  BY DEF LockInv, TypeOK, GuardsAreOwners, MutualExclusion
<1> QED
  BY <1>1, LockInvHolds, PTL

\* Only lock() blocks a task, where there are no condition variables.
LEMMA NextBlocksInLock ==
    ASSUME LockInv, BlockedInLock, [Next]_vars
    PROVE  BlockedInLock'
<1> USE KernelConstants DEF LockInv, TypeOK, KernelTypeOK, BlockedInLock
<1>1. CASE UNCHANGED vars
  BY <1>1 DEF vars, kernelVars, mutexVars
<1>2. CASE KernelStep /\ UNCHANGED mutexVars
  BY <1>2, KernelStepKeepsBlocked DEF mutexVars
<1>3. ASSUME NEW t \in Users, NEW m \in Mutexes, Acquire(t, m)
      PROVE  BlockedInLock'
  BY <1>3 DEF Acquire, kernelVars
<1>4. ASSUME NEW t \in Users, NEW m \in Mutexes, LockBlocks(t, m)
      PROVE  BlockedInLock'
  BY <1>4 DEF LockBlocks, LeaveRunning
<1>5. ASSUME NEW t \in Users, NEW m \in Mutexes, UnlockFrees(t, m)
      PROVE  BlockedInLock'
  BY <1>5 DEF UnlockFrees
<1>6. ASSUME NEW t \in Users, NEW m \in Mutexes, UnlockGrants(t, m)
      PROVE  BlockedInLock'
  <2>1. PICK next \in Users : Unblock(next)
    BY <1>6, GrantedWaiter
  <2> QED
    BY <1>6, <2>1 DEF UnlockGrants, Unblock
<1>7. ASSUME NEW t \in Users, CallReturns(t)
      PROVE  BlockedInLock'
  <2>1. state[t] = "Running"
    BY <1>7, ThreadRuns DEF CallReturns, Return
  <2> QED
    BY <1>7, <2>1 DEF CallReturns, Return
<1>8. ASSUME NEW t \in Users, TaskExits(t)
      PROVE  BlockedInLock'
  BY <1>8 DEF TaskExits, Exit, LeaveRunning, mutexVars
<1> QED
  BY <1>1, <1>2, <1>3, <1>4, <1>5, <1>6, <1>7, <1>8 DEF Next, TaskStep

\* Types, and no Blocked task is lost: it is in the list of the mutex it is
\* locking, once, and that mutex has an owner.
THEOREM NoWaiterIsLost == Spec => []Consistent
<1>1. Init => BlockedInLock
  BY KernelConstants DEF Init, KernelInit, BlockedInLock
<1>2. LockInv /\ BlockedInLock /\ [Next]_vars => BlockedInLock'
  BY NextBlocksInLock
<1>3. LockInv /\ BlockedInLock => Consistent
  BY DEF LockInv, ListsAreLinked, BlockedInLock, BlockedExactlyWaiting, Consistent
<1> QED
  BY <1>1, <1>2, <1>3, LockInvHolds, PTL DEF Spec

-----------------------------------------------------------------------------
(***************************************************************************)
(* Priority inheritance, for applications that hold one guard at a time:   *)
(* with two it fails (run mutex_nested).                                   *)
(***************************************************************************)

\* The owner of a mutex has a guard of it, or is on its way to one.
OwnersHaveClaims ==
    \A t \in Users : \A m \in Mutexes : owner[m] = t => m \in held[t] \cup locking[t]

\* A task has a claim on one mutex at most.
OneClaim == \A t \in Users : \A m, n \in held[t] \cup locking[t] : m = n

NobodyWaitsForItself == \A m \in Mutexes : owner[m] \notin Waiting(m)

\* A boost raises a priority.
BoostsRaise == \A t \in Users : priority[t] <= BasePrio[t]

ClaimInv ==
    /\ OwnersHaveClaims
    /\ OneClaim
    /\ NobodyWaitsForItself

BoostInv ==
    /\ BoostsRaise
    /\ PriorityInheritance
    /\ BoostHasACause

\* What the invariants say of the values of priority, for arithmetic.
LEMMA Priorities ==
    ASSUME LockInv
    PROVE  /\ \A t \in Users : priority[t] \in Nat /\ BasePrio[t] \in Nat /\ t \in Tasks
           /\ \A m \in Mutexes : \A t \in Waiting(m) : t \in Users
           /\ priority \in [Tasks -> 0 .. MaxPrio]
<1>1. \A t \in Users : priority[t] \in Nat /\ BasePrio[t] \in Nat /\ t \in Tasks
  <2>1. \A t \in Tasks : priority[t] \in 0 .. MaxPrio /\ BasePrio[t] \in 0 .. MaxPrio
    BY KernelConstants DEF LockInv, TypeOK, KernelTypeOK
  <2>2. \A t \in Users : t \in Tasks
    BY KernelConstants
  <2> QED
    BY <2>1, <2>2
<1>2. \A m \in Mutexes : \A t \in Waiting(m) : t \in Users
  BY DEF LockInv, TypeOK, Waiting, ToSet
<1> QED
  BY <1>1, <1>2 DEF LockInv, TypeOK, KernelTypeOK

\* A waiting task is blocked on its only claim, so it owns nothing.
LEMMA WaiterOwnsNothing ==
    ASSUME LockInv, ClaimInv, NEW m \in Mutexes, NEW t \in Waiting(m), NEW n \in Mutexes
    PROVE  owner[n] # t
<1>1. t \in Users
  BY Priorities
<1>2. m \in locking[t]
  BY <1>1 DEF LockInv, ListsAreLinked
<1>3. owner[n] = t => n = m
  BY <1>1, <1>2 DEF ClaimInv, OwnersHaveClaims, OneClaim
<1> QED
  BY <1>3 DEF ClaimInv, NobodyWaitsForItself

LEMMA AcquirerHoldsNothing ==
    ASSUME MaxHeld = 1, LockInv, NEW t \in Users, NEW m \in Mutexes, MayAcquire(t, m)
    PROVE  held[t] = {} /\ locking[t] = {}
<1>1. IsFiniteSet(held[t])
  BY MutexAssumption, FS_Subset DEF LockInv, TypeOK
<1>2. Cardinality(held[t]) \in Nat /\ Cardinality(held[t]) < 1
  BY <1>1, FS_CardinalityType DEF MayAcquire
<1>3. held[t] = {}
  BY <1>1, <1>2, FS_EmptySet
<1> QED
  BY <1>3, CallerIsFree DEF MayAcquire

\* Only an unlock or a lock changes what the claims and the boosts are about.
LEMMA UnchangedClaims ==
    ASSUME LockInv, ClaimInv,
           UNCHANGED <<owner, waiters>>,
           \A t \in Users : held'[t] \cup locking'[t] = held[t] \cup locking[t]
    PROVE  ClaimInv'
BY DEF ClaimInv, OwnersHaveClaims, OneClaim, NobodyWaitsForItself, Waiting

LEMMA UnchangedBoosts ==
    ASSUME BoostInv, UNCHANGED <<priority, owner, waiters>>
    PROVE  BoostInv'
BY DEF BoostInv, BoostsRaise, PriorityInheritance, BoostHasACause, Waiting, Outranks

-----------------------------------------------------------------------------
LEMMA AcquireInherits ==
    ASSUME MaxHeld = 1, LockInv, ClaimInv, BoostInv,
           NEW t \in Users, NEW m \in Mutexes, Acquire(t, m)
    PROVE  ClaimInv' /\ BoostInv'
<1>1. held[t] = {} /\ locking[t] = {}
  BY AcquirerHoldsNothing DEF Acquire
<1>2. /\ owner[m] = NoTask
      /\ owner' = [owner EXCEPT ![m] = t]
      /\ held' = [held EXCEPT ![t] = {m}]
      /\ locking' = locking /\ waiters' = waiters /\ priority' = priority
  BY <1>1 DEF Acquire, Free, kernelVars
<1>3. waiters[m] = <<>> /\ Waiting(m) = {}
  BY <1>2 DEF LockInv, ListsAreLinked, Waiting, ToSet
<1>4. \A n \in Mutexes : Waiting(n)' = Waiting(n)
  BY <1>2 DEF Waiting
<1>5. \A n \in Mutexes \ {m} : owner'[n] = owner[n]
  BY <1>2
<1>6. owner'[m] = t
  BY <1>2 DEF LockInv, TypeOK
<1>7. OwnersHaveClaims' /\ OneClaim'
  BY <1>1, <1>2, <1>5, <1>6 DEF LockInv, TypeOK, ClaimInv, OwnersHaveClaims, OneClaim
<1>8. NobodyWaitsForItself'
  BY <1>3, <1>4, <1>5 DEF ClaimInv, NobodyWaitsForItself
<1>9. BoostsRaise'
  BY <1>2 DEF BoostInv, BoostsRaise
<1>10. PriorityInheritance'
  BY <1>2, <1>3, <1>4, <1>5 DEF BoostInv, PriorityInheritance, Outranks
<1>11. BoostHasACause'
  BY <1>2, <1>3, <1>4, <1>5 DEF BoostInv, BoostHasACause
<1> QED
  BY <1>7, <1>8, <1>9, <1>10, <1>11 DEF ClaimInv, BoostInv

\* What LockBlocks does to the lists: t joins those that wait for m.
LEMMA BlockedWaiter ==
    ASSUME LockInv, NEW t \in Users, NEW m \in Mutexes, LockBlocks(t, m)
    PROVE  /\ Waiting(m)' = Waiting(m) \cup {t}
           /\ \A n \in Mutexes \ {m} : Waiting(n)' = Waiting(n)
<1>1. waiters' = [waiters EXCEPT ![m] = Cons(t, waiters[m])]
  BY DEF LockBlocks
<1>2. ToSet(Cons(t, waiters[m])) = ToSet(waiters[m]) \cup {t}
  BY PushedList DEF LockInv, TypeOK
<1> QED
  BY <1>1, <1>2 DEF LockInv, TypeOK, Waiting

LEMMA LockBlocksInherits ==
    ASSUME MaxHeld = 1, LockInv, ClaimInv, BoostInv,
           NEW t \in Users, NEW m \in Mutexes, LockBlocks(t, m)
    PROVE  ClaimInv' /\ BoostInv'
<1> DEFINE o == owner[m]
<1>1. held[t] = {} /\ locking[t] = {}
  BY AcquirerHoldsNothing DEF LockBlocks
<1>2. /\ o \in Users
      /\ owner' = owner
      /\ held' = held
      /\ locking' = [locking EXCEPT ![t] = {m}]
      /\ priority' = [priority EXCEPT ![o] = Inherited(o, t)]
  BY DEF LockBlocks, Free, LockInv, TypeOK
<1>3. \A n \in Mutexes : owner[n] # t
  BY <1>1 DEF ClaimInv, OwnersHaveClaims
<1>4. /\ Waiting(m)' = Waiting(m) \cup {t}
      /\ \A n \in Mutexes \ {m} : Waiting(n)' = Waiting(n)
  BY BlockedWaiter
<1>5. \A n \in Mutexes : o \notin Waiting(n)
  BY WaiterOwnsNothing
<1>6. ClaimInv'
  BY <1>1, <1>2, <1>3, <1>4
     DEF LockInv, TypeOK, ClaimInv, OwnersHaveClaims, OneClaim, NobodyWaitsForItself
<1> USE Priorities
<1>7. /\ priority'[o] = Inherited(o, t)
      /\ \A u \in Users \ {o} : priority'[u] = priority[u]
  BY <1>2
<1>8. /\ priority'[o] <= priority[o]
      /\ priority'[o] <= priority[t]
      /\ priority'[o] \in {priority[o], priority[t]}
      /\ priority'[o] \in Nat
  BY <1>2, <1>7 DEF Inherited, Outranks
<1>9. \A n \in Mutexes : \A u \in Waiting(n)' : u \in Users /\ u # o
  BY <1>3, <1>4, <1>5
<1> HIDE DEF o
<1>10. BoostsRaise'
  BY <1>2, <1>7, <1>8 DEF BoostInv, BoostsRaise
<1>11. PriorityInheritance'
  <2> SUFFICES ASSUME NEW n \in Mutexes, NEW u \in Waiting(n)'
               PROVE  ~(priority'[u] < priority'[owner'[n]])
    BY DEF PriorityInheritance, Outranks
  <2>1. u \in Users /\ priority'[u] = priority[u] /\ priority[u] \in Nat
    BY <1>7, <1>9
  <2>2. owner'[n] = owner[n] /\ owner[n] \in Users
    <3>1. n # m => waiters[n] # <<>>
      <4>1. n # m => u \in Waiting(n)
        BY <1>4
      <4>2. waiters[n] = <<>> => Waiting(n) = {}
        BY DEF Waiting, ToSet
      <4> QED
        BY <4>1, <4>2
    <3> QED
      BY <1>2, <3>1 DEF LockInv, TypeOK, ListsAreLinked, o
  <2>3. priority'[owner[n]] <= priority[owner[n]] /\ priority[owner[n]] \in Nat
    BY <1>7, <1>8, <2>2
  <2>4. CASE u \in Waiting(n)
    <3>1. ~(priority[u] < priority[owner[n]])
      BY <2>4 DEF BoostInv, PriorityInheritance, Outranks
    <3> QED
      BY <2>1, <2>2, <2>3, <3>1, <1>7, <1>8
  <2>5. CASE u = t /\ n = m
    BY <1>8, <2>1, <2>2, <2>5 DEF o
  <2> QED
    BY <1>4, <2>4, <2>5
<1>12. BoostHasACause'
  <2> SUFFICES ASSUME NEW v \in Users, priority'[v] # BasePrio[v]
               PROVE  \E n \in Mutexes :
                         owner'[n] = v /\ \E u \in Waiting(n)' : priority'[u] = priority'[v]
    BY DEF BoostHasACause
  <2>1. CASE v = o /\ priority'[o] = priority[t]
    <3>1. owner'[m] = v /\ t \in Waiting(m)'
      BY <1>2, <1>4, <2>1 DEF o
    <3>2. priority'[t] = priority'[v]
      BY <1>3, <1>7, <2>1 DEF o
    <3> QED
      BY <3>1, <3>2
  <2>2. CASE priority'[v] = priority[v]
    <3>1. PICK n \in Mutexes : owner[n] = v /\ \E u \in Waiting(n) : priority[u] = priority[v]
      BY <2>2 DEF BoostInv, BoostHasACause
    <3>2. PICK u \in Waiting(n) : priority[u] = priority[v]
      BY <3>1
    <3>3. u \in Waiting(n)' /\ priority'[u] = priority[u]
      BY <1>4, <1>7, <1>9
    <3> QED
      BY <1>2, <2>2, <3>1, <3>2, <3>3
  <2> QED
    BY <1>7, <1>8, <2>1, <2>2
<1> QED
  BY <1>6, <1>10, <1>11, <1>12 DEF BoostInv

-----------------------------------------------------------------------------
\* A task that drops its guard of m owns nothing else.
LEMMA DropperOwnsOneMutex ==
    ASSUME LockInv, ClaimInv, NEW t \in Users, NEW m \in Mutexes, DropsGuard(t, m)
    PROVE  /\ held[t] = {m} /\ locking[t] = {}
           /\ owner[m] = t
           /\ \A n \in Mutexes \ {m} : owner[n] # t
           /\ \A n \in Mutexes : t \notin Waiting(n)
<1>1. locking[t] = {} /\ owner[m] = t /\ \A n \in Mutexes : t \notin Waiting(n)
  BY CallerIsFree, DropperIsOwner DEF DropsGuard
<1>2. held[t] = {m}
  BY DEF ClaimInv, OneClaim, DropsGuard
<1> QED
  BY <1>1, <1>2 DEF ClaimInv, OwnersHaveClaims

\* An unlock of m whose caller goes back to its base priority and whose new owner
\* o has at least the priority of those that still wait.
LEMMA UnlockKeepsBoosts ==
    ASSUME LockInv, ClaimInv, BoostInv, NEW t \in Users, NEW m \in Mutexes,
           DropsGuard(t, m),
           priority' = [priority EXCEPT ![t] = BasePrio[t]],
           \A n \in Mutexes \ {m} : owner'[n] = owner[n] /\ Waiting(n)' = Waiting(n),
           \A u \in Waiting(m)' :
              u \in Waiting(m) /\ owner'[m] # t /\ ~Outranks(u, owner'[m])
                /\ owner'[m] \in Users
    PROVE  BoostInv'
<1>1. /\ owner[m] = t
      /\ \A n \in Mutexes \ {m} : owner[n] # t
      /\ \A n \in Mutexes : t \notin Waiting(n)
  BY DropperOwnsOneMutex
<1> USE Priorities
<1>2. priority'[t] = BasePrio[t] /\ \A u \in Tasks \ {t} : priority'[u] = priority[u]
  OBVIOUS
<1>3. BoostsRaise'
  BY <1>2 DEF BoostInv, BoostsRaise
<1>4. PriorityInheritance'
  <2> SUFFICES ASSUME NEW n \in Mutexes, NEW u \in Waiting(n)'
               PROVE  ~(priority'[u] < priority'[owner'[n]])
    BY DEF PriorityInheritance, Outranks
  <2>1. u \in Waiting(n) /\ u \in Users /\ priority'[u] = priority[u]
    BY <1>1, <1>2
  <2>2. CASE n = m
    BY <1>2, <2>1, <2>2 DEF Outranks
  <2>3. CASE n # m
    <3>1. waiters[n] # <<>>
      BY <2>1 DEF Waiting, ToSet
    <3>2. owner[n] \in Users /\ owner[n] # t
      BY <1>1, <2>3, <3>1 DEF LockInv, TypeOK, ListsAreLinked
    <3>3. ~(priority[u] < priority[owner[n]])
      BY <2>1 DEF BoostInv, PriorityInheritance, Outranks
    <3> QED
      BY <1>2, <2>1, <2>3, <3>2, <3>3
  <2> QED
    BY <2>2, <2>3
<1>5. BoostHasACause'
  <2> SUFFICES ASSUME NEW v \in Users, priority'[v] # BasePrio[v]
               PROVE  \E n \in Mutexes :
                         owner'[n] = v /\ \E u \in Waiting(n)' : priority'[u] = priority'[v]
    BY DEF BoostHasACause
  <2>1. v # t /\ priority'[v] = priority[v]
    BY <1>2
  <2>2. PICK n \in Mutexes : owner[n] = v /\ \E u \in Waiting(n) : priority[u] = priority[v]
    BY <2>1 DEF BoostInv, BoostHasACause
  <2>3. PICK u \in Waiting(n) : priority[u] = priority[v]
    BY <2>2
  <2>4. n # m /\ u # t
    BY <1>1, <2>1, <2>2
  <2> QED
    BY <1>2, <2>1, <2>2, <2>3, <2>4
<1> QED
  BY <1>3, <1>4, <1>5 DEF BoostInv

LEMMA FreesInherits ==
    ASSUME LockInv, ClaimInv, BoostInv,
           NEW t \in Users, NEW m \in Mutexes, Frees(t, m)
    PROVE  ClaimInv' /\ BoostInv'
<1>1. /\ DropsGuard(t, m)
      /\ priority' = [priority EXCEPT ![t] = BasePrio[t]]
      /\ owner' = [owner EXCEPT ![m] = NoTask]
      /\ waiters' = waiters /\ waiters[m] = <<>>
      /\ held' = [held EXCEPT ![t] = held[t] \ {m}]
      /\ locking' = locking
  BY DEF Frees, DropsGuard
<1>2. /\ owner'[m] = NoTask
      /\ \A n \in Mutexes \ {m} : owner'[n] = owner[n]
      /\ \A n \in Mutexes : Waiting(n)' = Waiting(n)
      /\ Waiting(m) = {}
  BY <1>1 DEF LockInv, TypeOK, Waiting, ToSet
<1>3. BoostInv'
  BY <1>1, <1>2, UnlockKeepsBoosts
<1>4. ClaimInv'
  BY <1>1, <1>2, DropperOwnsOneMutex, KernelConstants
     DEF LockInv, TypeOK, ClaimInv, OwnersHaveClaims, OneClaim, NobodyWaitsForItself
<1> QED
  BY <1>3, <1>4

LEMMA HandsOverInherits ==
    ASSUME LockInv, ClaimInv, BoostInv,
           NEW t \in Users, NEW m \in Mutexes, NEW next \in Users, HandsOver(t, m, next)
    PROVE  ClaimInv' /\ BoostInv'
<1>1. /\ DropsGuard(t, m)
      /\ priority' = [priority EXCEPT ![t] = BasePrio[t]]
      /\ held' = [held EXCEPT ![t] = held[t] \ {m}]
      /\ locking' = locking
  BY DEF HandsOver, DropsGuard
<1>2. /\ next # t
      /\ next \in Waiting(m)
      /\ \A u \in Waiting(m) : Outranks(next, u) \/ priority[next] = priority[u]
      /\ \A n \in Mutexes \ {m} : waiters'[n] = waiters[n]
      /\ Waiting(m)' = Waiting(m) \ {next}
      /\ owner' = [owner EXCEPT ![m] = next]
  BY DEF HandsOver
<1>3. /\ owner'[m] = next
      /\ \A n \in Mutexes \ {m} : owner'[n] = owner[n] /\ Waiting(n)' = Waiting(n)
  BY <1>2 DEF LockInv, TypeOK, Waiting
<1>4. \A u \in Waiting(m) : ~Outranks(u, next)
  BY <1>2, Priorities DEF Outranks
<1>5. BoostInv'
  BY <1>1, <1>2, <1>3, <1>4, UnlockKeepsBoosts
<1>6. /\ held[t] = {m} /\ owner[m] = t
      /\ \A n \in Mutexes \ {m} : owner[n] # t
  BY <1>1, DropperOwnsOneMutex
<1>7. m \in locking[next]
  BY <1>2 DEF LockInv, ListsAreLinked
<1>8. OwnersHaveClaims' /\ OneClaim'
  BY <1>1, <1>2, <1>3, <1>6, <1>7
     DEF LockInv, TypeOK, ClaimInv, OwnersHaveClaims, OneClaim
<1>9. NobodyWaitsForItself'
  BY <1>2, <1>3 DEF ClaimInv, NobodyWaitsForItself
<1> QED
  BY <1>5, <1>8, <1>9 DEF ClaimInv

\* The steps that matter to a mutex, as any module that uses it takes them.
MutexStep ==
    \/ /\ UNCHANGED <<owner, waiters, priority>>
       /\ \A t \in Users : held'[t] \cup locking'[t] = held[t] \cup locking[t]
    \/ \E t \in Users : \E m \in Mutexes :
          \/ Acquire(t, m)
          \/ LockBlocks(t, m)
          \/ Frees(t, m)
          \/ \E next \in Users : HandsOver(t, m, next)

LEMMA MutexStepInherits ==
    ASSUME MaxHeld = 1, LockInv, ClaimInv, BoostInv, MutexStep
    PROVE  ClaimInv' /\ BoostInv'
<1>1. CASE /\ UNCHANGED <<owner, waiters, priority>>
           /\ \A t \in Users : held'[t] \cup locking'[t] = held[t] \cup locking[t]
  BY <1>1, UnchangedClaims, UnchangedBoosts
<1>2. ASSUME NEW t \in Users, NEW m \in Mutexes, NEW next \in Users,
             \/ Acquire(t, m)
             \/ LockBlocks(t, m)
             \/ Frees(t, m)
             \/ HandsOver(t, m, next)
      PROVE  ClaimInv' /\ BoostInv'
  BY <1>2, AcquireInherits, LockBlocksInherits, FreesInherits, HandsOverInherits
<1> QED
  BY <1>1, <1>2 DEF MutexStep

LEMMA NextIsMutexStep == ASSUME LockInv, [Next]_vars PROVE MutexStep
<1>1. CASE UNCHANGED vars
  BY <1>1 DEF vars, kernelVars, mutexVars, MutexStep
<1>2. CASE KernelStep /\ UNCHANGED mutexVars
  BY <1>2, KernelStepKeepsPriorities DEF mutexVars, MutexStep
<1>3. ASSUME NEW t \in Users, TaskExits(t)
      PROVE  MutexStep
  BY <1>3 DEF TaskExits, Exit, mutexVars, MutexStep
<1>4. ASSUME NEW t \in Users, CallReturns(t)
      PROVE  MutexStep
  <2>1. UNCHANGED <<owner, waiters, priority>>
    BY <1>4 DEF CallReturns, Return
  <2>2. \A u \in Users : held'[u] \cup locking'[u] = held[u] \cup locking[u]
    BY <1>4 DEF CallReturns, LockInv, TypeOK
  <2> QED
    BY <2>1, <2>2 DEF MutexStep
<1>5. ASSUME NEW t \in Users, NEW m \in Mutexes,
             \/ Acquire(t, m)
             \/ LockBlocks(t, m)
             \/ UnlockFrees(t, m)
             \/ UnlockGrants(t, m)
      PROVE  MutexStep
  <2>1. UnlockFrees(t, m) => Frees(t, m)
    BY UnlockFreesLock
  <2>2. UnlockGrants(t, m) => \E next \in Users : HandsOver(t, m, next)
    BY GrantedWaiter
  <2> QED
    BY <1>5, <2>1, <2>2 DEF MutexStep
<1> QED
  BY <1>1, <1>2, <1>3, <1>4, <1>5 DEF Next, TaskStep

LEMMA InitInherits == ASSUME Init PROVE ClaimInv /\ BoostInv
<1>1. \A m \in Mutexes : Waiting(m) = {} /\ owner[m] = NoTask
  BY DEF Init, Waiting, ToSet
<1>2. ClaimInv
  BY <1>1, KernelConstants
     DEF Init, ClaimInv, OwnersHaveClaims, OneClaim, NobodyWaitsForItself
<1>3. BoostInv
  <2>1. \A t \in Users : priority[t] = BasePrio[t] /\ BasePrio[t] \in Nat
    BY KernelConstants, \A t \in Tasks : BasePrio[t] \in Nat DEF Init, KernelInit
  <2> QED
    BY <1>1, <2>1 DEF BoostInv, BoostsRaise, PriorityInheritance, BoostHasACause
<1> QED
  BY <1>2, <1>3

LEMMA InheritInvHolds ==
    ASSUME MaxHeld = 1
    PROVE  Spec => [](LockInv /\ ClaimInv /\ BoostInv)
<1>1. Init => LockInv /\ ClaimInv /\ BoostInv
  BY InitLock, InitInherits
<1>2. LockInv /\ ClaimInv /\ BoostInv /\ [Next]_vars => (LockInv /\ ClaimInv /\ BoostInv)'
  BY NextLock, NextIsMutexStep, MutexStepInherits
<1> QED
  BY <1>1, <1>2, PTL DEF Spec

\* With one guard at a time there is no priority inversion: whatever the tasks,
\* their priorities and the interleaving, the owner of a mutex never has a lower
\* effective priority than a task that waits for it.
THEOREM NoPriorityInversion ==
    ASSUME MaxHeld = 1
    PROVE  Spec => []PriorityInheritance
<1>1. BoostInv => PriorityInheritance
  BY DEF BoostInv
<1> QED
  BY <1>1, InheritInvHolds, PTL

\* Nor is a boost kept past its cause.
THEOREM NoBoostOutlivesItsCause ==
    ASSUME MaxHeld = 1
    PROVE  Spec => []BoostHasACause
<1>1. BoostInv => BoostHasACause
  BY DEF BoostInv
<1> QED
  BY <1>1, InheritInvHolds, PTL

-----------------------------------------------------------------------------
(***************************************************************************)
(* An unlock that lowers the priority of its caller requests a switch for  *)
(* the new owner only.  That is enough: while the caller was boosted, what *)
(* is Ready did not outrank it, and the new owner has the boost's priority *)
(* or a higher one.                                                        *)
(***************************************************************************)
LEMMA UnlockGrantsPreempts ==
    ASSUME LockInv, ClaimInv, BoostInv, PreemptionPending,
           NEW t \in Users, NEW m \in Mutexes, UnlockGrants(t, m)
    PROVE  PreemptionPending'
<1>0. PICK next \in Users :
         /\ HandsOver(t, m, next)
         /\ Unblock(next)
         /\ PreemptFor(t, next, Restored(t, m))
  BY GrantedWaiter
<1>1. /\ next # t
      /\ next \in Tasks
      /\ next \in Waiting(m)
      /\ \A u \in Waiting(m) : Outranks(next, u) \/ priority[next] = priority[u]
      /\ Unblock(next)
      /\ PreemptFor(t, next, Restored(t, m))
  BY <1>0, KernelConstants DEF HandsOver
<1>2. /\ DropsGuard(t, m)
      /\ current = t /\ current' = t
      /\ ~pendsv /\ seen = {} /\ pc[t] = "user"
      /\ priority' = [priority EXCEPT ![t] = BasePrio[t]]
  BY DEF UnlockGrants, DropsGuard, Calls, Thread, Restored
<1>3. \A u \in Tasks : state[u] = "Ready" => ~(priority[u] < priority[t])
  BY <1>2, KernelConstants DEF PreemptionPending, SwitchUnderWay, Outranks
<1>4. priority[next] < BasePrio[t] => pc'[t] = "trigger"
  BY <1>1, KernelConstants DEF PreemptFor, Restored, LockInv, TypeOK, KernelTypeOK
<1>5. state[t] = "Running" /\ t \in Tasks
  BY <1>2, DropperIsOwner
<1>6. \A u \in Tasks : state'[u] = "Ready" => u = next \/ state[u] = "Ready"
  BY <1>1 DEF Unblock, LockInv, TypeOK, KernelTypeOK
<1>7. \A u \in Tasks : priority[u] \in Nat /\ BasePrio[u] \in Nat
  <2>1. \A u \in Tasks : priority[u] \in 0 .. MaxPrio /\ BasePrio[u] \in 0 .. MaxPrio
    BY KernelConstants DEF LockInv, TypeOK, KernelTypeOK
  <2> QED
    BY <2>1
<1> SUFFICES ASSUME NEW u \in Tasks, state'[u] = "Ready", priority'[u] < priority'[t]
             PROVE  pc'[t] = "trigger"
  BY <1>2 DEF PreemptionPending, SwitchUnderWay, Outranks
<1>8. state'[t] = "Running"
  BY <1>1, <1>5 DEF Unblock, LockInv, TypeOK, KernelTypeOK
<1>9. u # t /\ priority'[u] = priority[u] /\ priority'[t] = BasePrio[t]
  BY <1>2, <1>5, <1>8, Priorities
<1>10. CASE u = next
  BY <1>4, <1>9, <1>10
<1>11. CASE state[u] = "Ready"
  <2>1. priority[t] < BasePrio[t]
    BY <1>3, <1>5, <1>7, <1>9, <1>11
  <2>2. PICK n \in Mutexes : owner[n] = t /\ \E w \in Waiting(n) : priority[w] = priority[t]
    BY <1>5, <1>7, <2>1 DEF BoostInv, BoostHasACause
  <2>3. n = m
    BY <1>2, <2>2, DropperOwnsOneMutex
  <2>4. PICK w \in Waiting(m) : priority[w] = priority[t]
    BY <2>2, <2>3
  <2>5. w \in Tasks /\ (priority[next] < priority[w] \/ priority[next] = priority[w])
    BY <1>1, <2>4, Priorities DEF Outranks
  <2> QED
    BY <1>1, <1>4, <1>5, <1>7, <2>1, <2>4, <2>5
<1> QED
  BY <1>6, <1>10, <1>11

\* Nothing becomes Ready while PendSV executes: only tasks unlock.
LEMMA NextScans ==
    ASSUME LockInv, ScanIsComplete, [Next]_vars
    PROVE  ScanIsComplete'
<1>1. CASE UNCHANGED vars
  BY <1>1 DEF vars, kernelVars, ScanIsComplete, ReadyIn
<1>2. CASE KernelStep
  BY <1>2, KernelStepScans DEF LockInv, TypeOK
<1>3. ASSUME NEW t \in Users, TaskExits(t) \/ CallReturns(t)
      PROVE  ScanIsComplete'
  BY <1>3, ExitReturnScans DEF TaskExits, CallReturns
<1>4. ASSUME NEW t \in Users, Thread(t), seen' = seen
      PROVE  ScanIsComplete'
  BY <1>4 DEF Thread, ScanIsComplete
<1>5. ASSUME NEW t \in Users, NEW m \in Mutexes,
             Acquire(t, m) \/ LockBlocks(t, m) \/ UnlockFrees(t, m) \/ UnlockGrants(t, m)
      PROVE  Thread(t) /\ seen' = seen
  BY <1>5 DEF Acquire, LockBlocks, UnlockFrees, UnlockGrants, DropsGuard, MayAcquire, Calls,
              kernelVars
<1> QED
  BY <1>1, <1>2, <1>3, <1>4, <1>5 DEF Next, TaskStep

LEMMA MutexCallPreempts ==
    ASSUME LockInv, ClaimInv, BoostInv, PreemptionPending, NEW t \in Users, NEW m \in Mutexes,
           Acquire(t, m) \/ LockBlocks(t, m) \/ UnlockFrees(t, m) \/ UnlockGrants(t, m)
    PROVE  PreemptionPending'
<1>1. CASE Acquire(t, m)
  BY <1>1 DEF Acquire, kernelVars, PreemptionPending, SwitchUnderWay, Outranks
<1>2. CASE LockBlocks(t, m)
  <2>1. current' = t /\ pc' = [pc EXCEPT ![t] = "trigger"]
    BY <1>2 DEF LockBlocks, LeaveRunning, MayAcquire, Calls, Thread
  <2> QED
    BY <2>1, KernelConstants
       DEF PreemptionPending, SwitchUnderWay, LockInv, TypeOK, KernelTypeOK
<1>3. CASE UnlockFrees(t, m)
  <2>1. /\ DropsGuard(t, m)
        /\ Waiting(m) = {}
        /\ priority' = [priority EXCEPT ![t] = BasePrio[t]]
        /\ UNCHANGED <<current, state, pendsv, seen, pc>>
    BY <1>3 DEF UnlockFrees, DropsGuard, Restored, Waiting, ToSet
  <2>2. \A n \in Mutexes : owner[n] = t => Waiting(n) = {}
    BY <2>1, DropperOwnsOneMutex
  <2>3. priority[t] = BasePrio[t]
    BY <2>2 DEF BoostInv, BoostHasACause
  <2>4. priority' = priority
    BY <2>1, <2>3, Priorities
  <2> QED
    BY <2>1, <2>4 DEF PreemptionPending, SwitchUnderWay, Outranks
<1>4. CASE UnlockGrants(t, m)
  BY <1>4, UnlockGrantsPreempts
<1> QED
  BY <1>1, <1>2, <1>3, <1>4

LEMMA NextPreempts ==
    ASSUME LockInv, ClaimInv, BoostInv, ScanIsComplete, PreemptionPending, [Next]_vars
    PROVE  PreemptionPending'
<1>1. CASE UNCHANGED vars
  BY <1>1 DEF vars, kernelVars, PreemptionPending, SwitchUnderWay, Outranks
<1>2. CASE KernelStep
  <2>1. PendSVSwitch => seen = ReadyIn(state)
    BY DEF PendSVSwitch, ScanIsComplete
  <2> QED
    BY <1>2, <2>1, KernelStepPreempts DEF LockInv, TypeOK
<1>3. ASSUME NEW t \in Users, TaskExits(t) \/ CallReturns(t)
      PROVE  PreemptionPending'
  BY <1>3, ExitReturnPreempts DEF TaskExits, CallReturns, LockInv, TypeOK
<1> QED
  BY <1>1, <1>2, <1>3, MutexCallPreempts DEF Next, TaskStep

\* With one guard at a time, every boost and every restored priority comes with
\* the switch it calls for.
THEOREM LockingMissesNoPreemption ==
    ASSUME MaxHeld = 1
    PROVE  Spec => []PreemptionPending
<1> DEFINE Safe == LockInv /\ ClaimInv /\ BoostInv
<1>1. Init => ScanIsComplete /\ PreemptionPending
  BY DEF Init, KernelInit, ScanIsComplete, PreemptionPending
<1>2. Safe /\ ScanIsComplete /\ PreemptionPending /\ [Next]_vars
         => ScanIsComplete' /\ PreemptionPending'
  BY NextScans, NextPreempts
<1>3. Spec => []Safe
  BY InheritInvHolds
<1> QED
  BY <1>1, <1>2, <1>3, PTL DEF Spec

-----------------------------------------------------------------------------
(***************************************************************************)
(* Mutex implements PriorityLock.  The waiter with the highest effective   *)
(* priority has the highest base priority because waiters are not boosted. *)
(***************************************************************************)
Queue == [m \in Mutexes |-> Waiting(m)]

LEMMA WaitersAreNotBoosted ==
    ASSUME LockInv, ClaimInv, BoostInv, NEW m \in Mutexes, NEW t \in Waiting(m)
    PROVE  priority[t] = BasePrio[t]
BY WaiterOwnsNothing, Priorities DEF BoostInv, BoostHasACause

LEMMA MutexStepImplementsLock ==
    ASSUME MaxHeld = 1, LockInv, ClaimInv, BoostInv, MutexStep
    PROVE  [Lock!Next]_(Lock!vars)
<1>1. CASE UNCHANGED <<owner, waiters>>
  BY <1>1 DEF Lock!vars, Waiting
<1>2. ASSUME NEW t \in Users, NEW m \in Mutexes, Acquire(t, m)
      PROVE  Lock!Enter(t, m)
  <2>1. Waiting(m) = {}
    BY <1>2 DEF Acquire, Free, LockInv, ListsAreLinked, Waiting, ToSet
  <2> QED
    BY <1>2, <2>1 DEF Acquire, Free, Lock!Enter, Waiting
<1>3. ASSUME NEW t \in Users, NEW m \in Mutexes, LockBlocks(t, m)
      PROVE  Lock!Wait(t, m)
  <2>1. held[t] = {} /\ locking[t] = {}
    BY <1>3, AcquirerHoldsNothing DEF LockBlocks
  <2>2. owner[m] # NoTask /\ owner' = owner
    BY <1>3 DEF LockBlocks, Free
  <2>3. owner[m] # t /\ t \notin Waiting(m)
    BY <2>1 DEF ClaimInv, OwnersHaveClaims, LockInv, ListsAreLinked
  <2>4. Queue' = [Queue EXCEPT ![m] = Waiting(m) \cup {t}]
    BY <1>3, BlockedWaiter DEF Queue
  <2> QED
    BY <2>2, <2>3, <2>4 DEF Lock!Wait, Queue
<1>4. ASSUME NEW t \in Users, NEW m \in Mutexes, Frees(t, m)
      PROVE  Lock!Leave(t, m)
  <2>1. owner[m] = t
    BY <1>4, DropperIsOwner DEF Frees
  <2>2. Waiting(m) = {}
    BY <1>4 DEF Frees, Waiting, ToSet
  <2> QED
    BY <1>4, <2>1, <2>2 DEF Frees, Lock!Leave, Waiting
<1>5. ASSUME NEW t \in Users, NEW m \in Mutexes, NEW next \in Users, HandsOver(t, m, next)
      PROVE  Lock!HandOver(t, m, next)
  <2>1. /\ next \in Waiting(m)
        /\ \A u \in Waiting(m) : Outranks(next, u) \/ priority[next] = priority[u]
        /\ \A n \in Mutexes \ {m} : waiters'[n] = waiters[n]
        /\ Waiting(m)' = Waiting(m) \ {next}
        /\ owner' = [owner EXCEPT ![m] = next]
    BY <1>5 DEF HandsOver
  <2>2. owner[m] = t
    BY <1>5, DropperIsOwner DEF HandsOver
  <2>3. \A u \in Waiting(m) : BasePrio[next] <= BasePrio[u]
    BY <2>1, WaitersAreNotBoosted, Priorities DEF Outranks
  <2>4. Queue' = [Queue EXCEPT ![m] = Waiting(m) \ {next}]
    BY <2>1 DEF Queue, Waiting
  <2> QED
    BY <2>1, <2>2, <2>3, <2>4 DEF Lock!HandOver, Queue
<1> QED
  BY <1>1, <1>2, <1>3, <1>4, <1>5 DEF MutexStep, Lock!Next

\* With one guard at a time a Mutex is a lock handed over by base priority.
THEOREM MutexImplementsPriorityLock ==
    ASSUME MaxHeld = 1
    PROVE  Spec => ImplementsPriorityLock
<1>1. Init => Lock!Init
  BY DEF Init, Lock!Init, Waiting, ToSet
<1>2. LockInv /\ ClaimInv /\ BoostInv /\ [Next]_vars => [Lock!Next]_(Lock!vars)
  BY NextIsMutexStep, MutexStepImplementsLock
<1> QED
  BY <1>1, <1>2, InheritInvHolds, PTL DEF Spec, ImplementsPriorityLock, Lock!Spec

-----------------------------------------------------------------------------
(***************************************************************************)
(* Condvar.                                                                *)
(***************************************************************************)

\* A task in the list of a condition variable is Blocked, in no list of a mutex, and
\* is going to lock the mutex of that condition variable.
ParkedAreWaiting ==
    \A c \in Conds :
        /\ IsInjective(parked[c])
        /\ \A t \in Parked(c) :
              /\ t \in Consumers
              /\ state[t] = "Blocked" /\ locking[t] = {}
              /\ relock[t] = {MutexOf[c]}

BlockedInSomeList ==
    \A t \in Users :
        state[t] = "Blocked" => locking[t] # {} \/ \E c \in Conds : t \in Parked(c)

OneWaitUnderWay == \A t \in Users : \A m, n \in relock[t] : m = n

\* The inductive invariant behind every theorem of this module.
CondInv ==
    /\ LockInv
    /\ NothingBeforeLaunch
    /\ CondvarTypeOK
    /\ ParkedAreWaiting
    /\ BlockedInSomeList
    /\ OneWaitUnderWay

LEMMA InitCond == ASSUME HandshakeInit PROVE CondInv
<1>1. Init /\ parked = [c \in Conds |-> <<>>] /\ relock = [t \in Users |-> {}]
  BY DEF HandshakeInit, CondvarInit
<1>2. LockInv
  BY <1>1, InitLock
<1>3. NothingBeforeLaunch
  BY <1>1, KernelInitInv DEF Init, KernelInv
<1>4. \A c \in Conds : parked[c] = <<>> /\ Parked(c) = {} /\ IsInjective(parked[c])
  BY <1>1 DEF Parked, ToSet, IsInjective
<1>5. CondvarTypeOK
  BY <1>1, <1>2 DEF CondvarTypeOK, LockInv
<1>6. ParkedAreWaiting
  BY <1>4 DEF ParkedAreWaiting
<1>7. BlockedInSomeList
  BY <1>1, KernelConstants DEF Init, KernelInit, BlockedInSomeList
<1>8. OneWaitUnderWay
  BY <1>1 DEF OneWaitUnderWay
<1> QED
  BY <1>2, <1>3, <1>5, <1>6, <1>7, <1>8 DEF CondInv

\* A list of tasks as a set.
LEMMA ParkedTasks ==
    ASSUME CondInv, NEW c \in Conds
    PROVE  /\ parked[c] \in Seq(Users) /\ IsInjective(parked[c])
           /\ Parked(c) \subseteq Users
BY DEF CondInv, CondvarTypeOK, ParkedAreWaiting, Parked, ToSet

\* A task is in the list of one condition variable at most.
LEMMA OneCondition ==
    ASSUME CondInv, NEW c \in Conds, NEW d \in Conds, NEW t \in Users,
           t \in Parked(c), t \in Parked(d)
    PROVE  c = d
<1>1. relock[t] = {MutexOf[c]} /\ relock[t] = {MutexOf[d]}
  BY DEF CondInv, ParkedAreWaiting
<1> QED
  BY <1>1, HandshakeAssumption

\* A task that executes its own code is in no list.
LEMMA CallerIsNotParked ==
    ASSUME CondInv, NEW t \in Users, state[t] = "Running", NEW c \in Conds
    PROVE  t \notin Parked(c)
BY DEF CondInv, ParkedAreWaiting

\* Once launched, the system stays so.
LEMMA ThreadAfterLaunch ==
    ASSUME NEW t \in Users, Thread(t), current' = current
    PROVE  NothingBeforeLaunch'
BY KernelConstants DEF Thread, NothingBeforeLaunch

-----------------------------------------------------------------------------
(***************************************************************************)
(* The steps that leave the lists of the condition variables alone.        *)
(***************************************************************************)
LEMMA SameParked ==
    ASSUME CondInv, LockInv', NothingBeforeLaunch',
           parked' = parked,
           relock' = relock \/ \E t \in Users : relock' = [relock EXCEPT ![t] = {}],
           \A c \in Conds : \A u \in Parked(c) :
              state'[u] = "Blocked" /\ locking'[u] = locking[u] /\ relock'[u] = relock[u],
           \A u \in Users : state'[u] = "Blocked" =>
              (state[u] = "Blocked" /\ locking'[u] = locking[u]) \/ locking'[u] # {}
    PROVE  CondInv'
<1>1. \A c \in Conds : Parked(c)' = Parked(c)
  BY DEF Parked
<1>2. CondvarTypeOK'
  BY DEF CondInv, CondvarTypeOK, LockInv
<1>3. ParkedAreWaiting'
  BY <1>1 DEF CondInv, ParkedAreWaiting
<1>4. BlockedInSomeList'
  BY <1>1 DEF CondInv, BlockedInSomeList
<1>5. OneWaitUnderWay'
  BY DEF CondInv, CondvarTypeOK, OneWaitUnderWay
<1> QED
  BY <1>2, <1>3, <1>4, <1>5 DEF CondInv

LEMMA StutterCond ==
    ASSUME CondInv, UNCHANGED <<vars, condVars>>
    PROVE  CondInv'
<1>1. LockInv'
  BY StutterLock DEF CondInv
<1>2. state' = state /\ locking' = locking /\ parked' = parked /\ relock' = relock
  BY DEF vars, kernelVars, mutexVars, condVars
<1>3. NothingBeforeLaunch'
  BY DEF CondInv, NothingBeforeLaunch, vars, kernelVars
<1>4. \A c \in Conds : \A u \in Parked(c) : state[u] = "Blocked"
  BY DEF CondInv, ParkedAreWaiting
<1> QED
  BY <1>1, <1>2, <1>3, <1>4, SameParked

LEMMA InterruptsCond == ASSUME CondInv, Interrupts PROVE CondInv'
<1>1. KernelStep /\ UNCHANGED mutexVars /\ UNCHANGED condVars
  BY DEF Interrupts
<1>2. LockInv'
  BY <1>1, KernelStepLock DEF CondInv
<1>3. NothingBeforeLaunch'
  BY <1>1, KernelStepInv DEF CondInv, LockInv, TypeOK, KernelInv
<1>4. \A u \in Users : state'[u] = "Blocked" <=> state[u] = "Blocked"
  BY <1>1, KernelStepKeepsBlocked DEF CondInv, LockInv, TypeOK
<1>5. parked' = parked /\ relock' = relock /\ locking' = locking
  BY <1>1 DEF mutexVars, condVars
<1>6. \A c \in Conds : \A u \in Parked(c) : state'[u] = "Blocked"
  BY <1>4, ParkedTasks DEF CondInv, ParkedAreWaiting
<1> QED
  BY <1>2, <1>3, <1>4, <1>5, <1>6, SameParked

LEMMA LockingCond ==
    ASSUME CondInv, NEW t \in Users, NEW m \in Mutexes,
           Acquire(t, m) \/ LockBlocks(t, m),
           parked' = parked,
           relock' = relock \/ relock' = [relock EXCEPT ![t] = {}]
    PROVE  CondInv'
<1>1. Calls(t) /\ current' = current
  BY DEF Acquire, LockBlocks, MayAcquire, kernelVars
<1>2. LockInv'
  BY AcquireLock, LockBlocksLock DEF CondInv
<1>3. NothingBeforeLaunch'
  BY <1>1, ThreadAfterLaunch DEF Calls
<1>4. t \in Tasks /\ state[t] = "Running" /\ \A c \in Conds : t \notin Parked(c)
  BY <1>1, CallerIsFree, CallerIsNotParked DEF CondInv
<1>5. \A u \in Users \ {t} : state'[u] = state[u] /\ locking'[u] = locking[u]
  BY KernelConstants
     DEF Acquire, LockBlocks, LeaveRunning, kernelVars, CondInv, LockInv, TypeOK, KernelTypeOK
<1>6. \/ state'[t] = "Running"
      \/ locking'[t] # {}
  BY <1>4 DEF Acquire, LockBlocks, kernelVars, CondInv, LockInv, TypeOK
<1>7. \A u \in Users \ {t} : relock'[u] = relock[u]
  BY DEF CondInv, CondvarTypeOK
<1>8. \A c \in Conds : \A u \in Parked(c) : u \in Users \ {t} /\ state[u] = "Blocked"
  BY <1>4, ParkedTasks DEF CondInv, ParkedAreWaiting
<1> QED
  BY <1>2, <1>3, <1>5, <1>6, <1>7, <1>8, SameParked

LEMMA ReturnsCond ==
    ASSUME CondInv, NEW t \in Users, CallReturns(t), UNCHANGED condVars
    PROVE  CondInv'
<1>1. Thread(t) /\ current' = current /\ state' = state
  BY DEF CallReturns, Return
<1>2. LockInv'
  BY CallReturnsLock DEF CondInv
<1>3. NothingBeforeLaunch'
  BY <1>1, ThreadAfterLaunch
<1>4. state[t] = "Running"
  BY <1>1, ThreadRuns DEF CallReturns, Return, CondInv, LockInv
<1>5. \A u \in Users \ {t} : locking'[u] = locking[u]
  BY DEF CallReturns, CondInv, LockInv, TypeOK
<1>6. \A c \in Conds : \A u \in Parked(c) : u \in Users \ {t} /\ state[u] = "Blocked"
  BY <1>4, ParkedTasks, CallerIsNotParked DEF CondInv, ParkedAreWaiting
<1>7. parked' = parked /\ relock' = relock
  BY DEF condVars
<1> QED
  BY <1>1, <1>2, <1>3, <1>4, <1>5, <1>6, <1>7, SameParked

LEMMA UnlocksCond ==
    ASSUME CondInv, NEW t \in Users, NEW m \in Mutexes, Unlocks(t, m), UNCHANGED condVars
    PROVE  CondInv'
<1>1. Thread(t) /\ current' = current /\ locking' = locking
  BY DEF Unlocks, UnlockFrees, UnlockGrants, DropsGuard, Calls
<1>2. LockInv'
  BY UnlockFreesLock, UnlockGrantsLock DEF CondInv, Unlocks
<1>3. NothingBeforeLaunch'
  BY <1>1, ThreadAfterLaunch
<1>4. parked' = parked /\ relock' = relock
  BY DEF condVars
<1>5. CASE UnlockFrees(t, m)
  <2>1. state' = state
    BY <1>5 DEF UnlockFrees
  <2>2. \A c \in Conds : \A u \in Parked(c) : state[u] = "Blocked"
    BY DEF CondInv, ParkedAreWaiting
  <2> QED
    BY <1>1, <1>2, <1>3, <1>4, <2>1, <2>2, SameParked
<1>6. CASE UnlockGrants(t, m)
  <2>1. PICK next \in Users : HandsOver(t, m, next) /\ Unblock(next)
    BY <1>6, GrantedWaiter DEF CondInv
  <2>2. locking[next] # {}
    BY <2>1 DEF HandsOver, CondInv, LockInv, ListsAreLinked
  <2>3. \A u \in Users : state'[u] = IF u = next THEN "Ready" ELSE state[u]
    BY <2>1, KernelConstants DEF Unblock, CondInv, LockInv, TypeOK, KernelTypeOK
  <2>4. \A c \in Conds : \A u \in Parked(c) : u \in Users \ {next} /\ state[u] = "Blocked"
    BY <2>2, ParkedTasks DEF CondInv, ParkedAreWaiting
  <2> QED
    BY <1>1, <1>2, <1>3, <1>4, <2>3, <2>4, SameParked
<1> QED
  BY <1>5, <1>6 DEF Unlocks

-----------------------------------------------------------------------------
(***************************************************************************)
(* wait: the guard is given up, as an unlock does, and the task blocks.    *)
(***************************************************************************)

\* What the step does to the mutex.
LEMMA WaitUnlocks ==
    ASSUME LockInv, NEW t \in Users, NEW c \in Conds, NEW m \in Mutexes, Wait(t, c, m)
    PROVE  \/ Frees(t, m) /\ state' = [state EXCEPT ![t] = "Blocked"]
                          /\ slice' = [slice EXCEPT ![t] = 0]
                          /\ pendsv' = pendsv
           \/ \E next \in Users :
                 /\ HandsOver(t, m, next)
                 /\ state' = [state EXCEPT ![t] = "Blocked", ![next] = "Ready"]
                 /\ slice' = [slice EXCEPT ![t] = 0, ![next] = TimeSlice[next]]
                 /\ pendsv' = (priority[next] < BasePrio[t])
<1>1. CASE WaitFrees(t, c, m)
  BY <1>1 DEF WaitFrees, Park, Frees, Restored
<1>2. CASE WaitGrants(t, c, m)
  <2>1. PICK i \in DOMAIN waiters[m] :
           /\ IsHighest(waiters[m], i)
           /\ waiters' = [waiters EXCEPT ![m] = Popped(waiters[m], i)]
           /\ owner' = [owner EXCEPT ![m] = waiters[m][i]]
           /\ state' = [state EXCEPT ![t] = "Blocked", ![waiters[m][i]] = "Ready"]
           /\ slice' = [slice EXCEPT ![t] = 0, ![waiters[m][i]] = TimeSlice[waiters[m][i]]]
           /\ pendsv' = (priority[waiters[m][i]] < Restored(t, m))
    BY <1>2 DEF WaitGrants
  <2>2. /\ DropsGuard(t, m)
        /\ priority' = [priority EXCEPT ![t] = Restored(t, m)]
        /\ locking' = locking
    BY <1>2 DEF WaitGrants, Park
  <2>3. waiters[m][i] \in Users /\ HandsOver(t, m, waiters[m][i])
    BY <2>1, <2>2, PoppedWaiter
  <2> QED
    BY <2>1, <2>3 DEF Restored
<1> QED
  BY <1>1, <1>2 DEF Wait

LEMMA WaitLock ==
    ASSUME LockInv, NEW t \in Users, NEW c \in Conds, NEW m \in Mutexes, Wait(t, c, m)
    PROVE  /\ LockInv'
           /\ t \in Tasks /\ state[t] = "Running" /\ locking[t] = {}
           /\ state'[t] = "Blocked"
           /\ \A u \in Users \ {t} :
                 state'[u] = state[u] \/ (state'[u] = "Ready" /\ locking[u] # {})
<1>1. /\ Calls(t)
      /\ priority' = [priority EXCEPT ![t] = BasePrio[t]]
      /\ pc' = [pc EXCEPT ![t] = "trigger"]
      /\ UNCHANGED <<current, left, seen>>
  BY DEF Wait, WaitFrees, WaitGrants, Park, DropsGuard, Restored
<1>2. /\ t \in Tasks /\ state[t] = "Running" /\ locking[t] = {}
      /\ current = t /\ ~pendsv /\ seen = {}
  BY <1>1, CallerIsFree DEF Calls, Thread
<1>3. priority' \in [Tasks -> 0 .. MaxPrio] /\ pc' \in [Tasks -> Points]
  BY <1>1, KernelConstants DEF LockInv, TypeOK, KernelTypeOK, Points
<1>4. \A u \in Users \ {t} : pc'[u] = pc[u]
  BY <1>1, KernelConstants DEF LockInv, TypeOK, KernelTypeOK
<1>5. pc'[t] = "trigger" /\ current' = t
  BY <1>1, <1>2 DEF LockInv, TypeOK, KernelTypeOK
<1>6. CASE /\ Frees(t, m)
           /\ state' = [state EXCEPT ![t] = "Blocked"]
           /\ slice' = [slice EXCEPT ![t] = 0]
           /\ pendsv' = pendsv
  <2>1. \A u \in Tasks : state'[u] = IF u = t THEN "Blocked" ELSE state[u]
    BY <1>6 DEF LockInv, TypeOK, KernelTypeOK
  <2>2. /\ state' \in [Tasks -> TaskStates]
        /\ slice' \in [Tasks -> 0 .. 255]
        /\ pendsv' \in BOOLEAN
    <3>1. state' \in [Tasks -> TaskStates]
      BY <1>6 DEF LockInv, TypeOK, KernelTypeOK, TaskStates
    <3>2. slice \in [Tasks -> 0 .. 255] /\ 0 \in 0 .. 255
      BY DEF LockInv, TypeOK, KernelTypeOK
    <3>3. slice' \in [Tasks -> 0 .. 255]
      BY <1>6, <3>2
    <3>4. pendsv' \in BOOLEAN
      BY <1>6, Zenon DEF LockInv, TypeOK, KernelTypeOK
    <3> QED
      BY <3>1, <3>3, <3>4
  <2>3. KernelTypeOK'
    <3>1. /\ left' \in [Tasks -> Nat] /\ seen' = {} /\ current' \in Tasks /\ current' # NoTask
          /\ state'[Idle] \in {"Ready", "Running"}
      BY <1>1, <1>2, <2>1, KernelConstants DEF LockInv, TypeOK, KernelTypeOK
    <3> QED
      BY <1>3, <2>2, <3>1 DEF KernelTypeOK
  <2>4. RunsOnlyWhenRunning'
    BY <1>1, <1>5, <2>1 DEF LockInv, RunsOnlyWhenRunning
  <2>5. LockInv'
    <3>1. \A u \in Users \ {t} : state'[u] = state[u] /\ pc'[u] = pc[u]
      BY <1>4, <2>1, KernelConstants
    <3> QED
      BY <1>6, <2>3, <2>4, <3>1, FreesLock
  <2> QED
    BY <1>2, <2>1, <2>5, KernelConstants
<1>7. ASSUME NEW next \in Users,
             HandsOver(t, m, next),
             state' = [state EXCEPT ![t] = "Blocked", ![next] = "Ready"],
             slice' = [slice EXCEPT ![t] = 0, ![next] = TimeSlice[next]],
             pendsv' = (priority[next] < BasePrio[t])
      PROVE  /\ LockInv'
             /\ state'[t] = "Blocked"
             /\ \A u \in Users \ {t} :
                   state'[u] = state[u] \/ (state'[u] = "Ready" /\ locking[u] # {})
  <2>1. /\ next # t /\ next \in Tasks /\ next # Idle /\ t # Idle
        /\ locking[next] # {}
    BY <1>7, KernelConstants DEF HandsOver, LockInv, ListsAreLinked
  <2>2. /\ \A u \in Tasks : state'[u] = IF u = t THEN "Blocked"
                                        ELSE IF u = next THEN "Ready" ELSE state[u]
        /\ state' \in [Tasks -> TaskStates]
    BY <1>2, <1>7, <2>1 DEF LockInv, TypeOK, KernelTypeOK, TaskStates
  <2>3. slice' \in [Tasks -> 0 .. 255]
    <3>1. TimeSlice[next] \in 0 .. 255 /\ 0 \in 0 .. 255 /\ slice \in [Tasks -> 0 .. 255]
      BY <2>1, KernelConstants DEF LockInv, TypeOK, KernelTypeOK
    <3> QED
      BY <1>7, <3>1
  <2>4. pendsv' \in BOOLEAN
    <3>1. pendsv' = (priority[next] < BasePrio[t])
      BY <1>7
    <3>2. (priority[next] < BasePrio[t]) \in BOOLEAN
      OBVIOUS
    <3> QED
      BY <3>1, <3>2, Zenon
  <2>5. KernelTypeOK'
    <3>1. /\ left' \in [Tasks -> Nat] /\ seen' = {} /\ current' \in Tasks /\ current' # NoTask
          /\ state'[Idle] \in {"Ready", "Running"}
      BY <1>1, <1>2, <2>1, <2>2, KernelConstants DEF LockInv, TypeOK, KernelTypeOK
    <3> QED
      BY <1>3, <2>2, <2>3, <2>4, <3>1 DEF KernelTypeOK
  <2>6. RunsOnlyWhenRunning'
    BY <1>1, <1>5, <2>2 DEF LockInv, RunsOnlyWhenRunning
  <2>7. LockInv'
    <3>1. /\ state'[next] = "Ready"
          /\ \A u \in Users \ {t, next} : state'[u] = state[u]
      BY <2>1, <2>2, KernelConstants
    <3> QED
      BY <1>4, <1>7, <2>5, <2>6, <3>1, HandsOverLock
  <2> QED
    BY <1>2, <2>1, <2>2, <2>7, KernelConstants
<1> QED
  BY <1>2, <1>6, <1>7, WaitUnlocks

LEMMA WaitCond ==
    ASSUME CondInv, NEW t \in Users, NEW c \in Conds, WaitsForFlag(t, c)
    PROVE  CondInv'
<1> DEFINE m == MutexOf[c]
<1>1. m \in Mutexes /\ Wait(t, c, m) /\ t \in Consumers
  BY HandshakeAssumption DEF WaitsForFlag
<1> HIDE DEF m
<1>2. /\ Calls(t)
      /\ current' = current
      /\ locking' = locking
      /\ parked' = [parked EXCEPT ![c] = Cons(t, parked[c])]
      /\ relock' = [relock EXCEPT ![t] = {m}]
  BY <1>1 DEF Wait, WaitFrees, WaitGrants, Park, DropsGuard
<1>3. /\ LockInv'
      /\ t \in Tasks /\ state[t] = "Running" /\ locking[t] = {}
      /\ state'[t] = "Blocked"
      /\ \A u \in Users \ {t} :
            state'[u] = state[u] \/ (state'[u] = "Ready" /\ locking[u] # {})
  BY <1>1, WaitLock DEF CondInv
<1>4. NothingBeforeLaunch'
  BY <1>2, ThreadAfterLaunch DEF Calls
<1>5. \A d \in Conds : t \notin Parked(d)
  BY <1>3, CallerIsNotParked
<1>6. /\ Cons(t, parked[c]) \in Seq(Users)
      /\ ToSet(Cons(t, parked[c])) = Parked(c) \cup {t}
      /\ IsInjective(Cons(t, parked[c]))
  <2>1. parked[c] \in Seq(Users) /\ IsInjective(parked[c])
    BY ParkedTasks
  <2>2. t \notin ToSet(parked[c])
    BY <1>5 DEF Parked
  <2> QED
    BY <2>1, <2>2, PushedList DEF Parked
<1>7. /\ parked' \in [Conds -> Seq(Users)]
      /\ Parked(c)' = Parked(c) \cup {t} /\ IsInjective(parked'[c])
      /\ \A d \in Conds \ {c} : Parked(d)' = Parked(d) /\ parked'[d] = parked[d]
  BY <1>2, <1>6 DEF CondInv, CondvarTypeOK, Parked
<1>8. /\ relock' \in [Users -> SUBSET Mutexes]
      /\ relock'[t] = {m}
      /\ \A u \in Users \ {t} : relock'[u] = relock[u]
  BY <1>1, <1>2 DEF CondInv, CondvarTypeOK
<1>9. CondvarTypeOK'
  BY <1>3, <1>7, <1>8 DEF CondvarTypeOK, LockInv
<1>10. ParkedAreWaiting'
  <2>1. ASSUME NEW d \in Conds, NEW u \in Parked(d)'
        PROVE  /\ u \in Consumers
               /\ state'[u] = "Blocked" /\ locking'[u] = {}
               /\ relock'[u] = {MutexOf[d]}
    <3>1. CASE u = t
      <4>1. d = c
        BY <1>5, <1>7, <2>1, <3>1
      <4> QED
        BY <1>1, <1>2, <1>3, <1>8, <3>1, <4>1 DEF m
    <3>2. CASE u # t
      <4>1. u \in Parked(d) /\ u \in Users
        BY <1>7, <2>1, <3>2, ParkedTasks
      <4>2. /\ u \in Consumers
            /\ state[u] = "Blocked" /\ locking[u] = {}
            /\ relock[u] = {MutexOf[d]}
        BY <4>1 DEF CondInv, ParkedAreWaiting
      <4> QED
        BY <1>2, <1>3, <1>8, <3>2, <4>1, <4>2
    <3> QED
      BY <3>1, <3>2
  <2>2. \A d \in Conds : IsInjective(parked'[d])
    BY <1>7, ParkedTasks
  <2> QED
    BY <2>1, <2>2 DEF ParkedAreWaiting
<1>11. BlockedInSomeList'
  <2> SUFFICES ASSUME NEW u \in Users, state'[u] = "Blocked"
               PROVE  locking'[u] # {} \/ \E d \in Conds : u \in Parked(d)'
    BY DEF BlockedInSomeList
  <2>1. CASE u = t
    BY <1>7, <2>1
  <2>2. CASE u # t
    <3>1. state[u] = "Blocked"
      BY <1>3, <2>2
    <3>2. locking[u] # {} \/ \E d \in Conds : u \in Parked(d)
      BY <3>1 DEF CondInv, BlockedInSomeList
    <3> QED
      BY <1>2, <1>7, <3>2
  <2> QED
    BY <2>1, <2>2
<1>12. OneWaitUnderWay'
  BY <1>8 DEF CondInv, OneWaitUnderWay
<1> QED
  BY <1>3, <1>4, <1>9, <1>10, <1>11, <1>12 DEF CondInv

-----------------------------------------------------------------------------
(***************************************************************************)
(* Notifications: some of the tasks in a list leave it and become Ready.   *)
(***************************************************************************)

\* The tasks in woken leave the list of c, which becomes w.
Wakes(c, woken, w) ==
    /\ woken \subseteq Parked(c)
    /\ w \in Seq(Users) /\ IsInjective(w) /\ ToSet(w) = Parked(c) \ woken
    /\ parked' = [parked EXCEPT ![c] = w]
    /\ \A t \in Users : state'[t] = IF t \in woken THEN "Ready" ELSE state[t]
    /\ \A t \in Users : pc[t] \in {"trigger", "return"} => pc'[t] = pc[t]
    /\ UNCHANGED mutexVars /\ relock' = relock

LEMMA WakesCond ==
    ASSUME CondInv, NEW c \in Conds, NEW woken, NEW w, Wakes(c, woken, w), KernelInv'
    PROVE  CondInv'
<1>1. \A t \in woken : t \in Users /\ state[t] = "Blocked" /\ locking[t] = {}
  BY ParkedTasks DEF Wakes, CondInv, ParkedAreWaiting
<1>2. /\ owner' = owner /\ waiters' = waiters /\ held' = held /\ locking' = locking
      /\ \A t \in Users : state'[t] = IF t \in woken THEN "Ready" ELSE state[t]
      /\ relock' = relock
  BY DEF Wakes, mutexVars
<1>3. LockInv'
  <2>1. TypeOK' /\ RunsOnlyWhenRunning'
    BY <1>2 DEF CondInv, LockInv, TypeOK, KernelInv
  <2>2. GuardsAreOwners' /\ WokenByGrant'
    BY <1>1, <1>2 DEF CondInv, LockInv, GuardsAreOwners, WokenByGrant
  <2>3. OneLockUnderWay'
    BY <1>2 DEF Wakes, CondInv, LockInv, OneLockUnderWay
  <2>4. ListsAreLinked'
    <3>1. ASSUME NEW t \in Users, NEW m \in Mutexes
          PROVE  (t \in Waiting(m) <=> state[t] = "Blocked" /\ m \in locking[t])'
      <4>1. t \in Waiting(m) <=> state[t] = "Blocked" /\ m \in locking[t]
        BY DEF CondInv, LockInv, ListsAreLinked
      <4>2. Waiting(m)' = Waiting(m)
        BY <1>2 DEF Waiting
      <4> QED
        BY <1>1, <1>2, <4>1, <4>2
    <3> QED
      BY <1>2, <3>1 DEF CondInv, LockInv, ListsAreLinked
  <2> QED
    BY <2>1, <2>2, <2>3, <2>4 DEF LockInv
<1>4. /\ parked' \in [Conds -> Seq(Users)]
      /\ parked'[c] = w /\ Parked(c)' = Parked(c) \ woken
      /\ \A d \in Conds \ {c} : parked'[d] = parked[d] /\ Parked(d)' = Parked(d)
  BY DEF Wakes, CondInv, CondvarTypeOK, Parked
<1>5. CondvarTypeOK'
  BY <1>2, <1>3, <1>4 DEF CondInv, CondvarTypeOK, LockInv
<1>6. \A d \in Conds \ {c} : \A t \in Parked(d) : t \notin woken
  BY ParkedTasks, OneCondition DEF Wakes
<1>7. ParkedAreWaiting'
  <2>1. ASSUME NEW d \in Conds, NEW t \in Parked(d)'
        PROVE  t \in Parked(d) /\ t \in Users /\ t \notin woken
    BY <1>4, <1>6, ParkedTasks
  <2>2. \A d \in Conds : IsInjective(parked'[d])
    BY <1>4, ParkedTasks DEF Wakes
  <2> QED
    BY <1>2, <2>1, <2>2 DEF CondInv, ParkedAreWaiting
<1>8. BlockedInSomeList'
  <2> SUFFICES ASSUME NEW t \in Users, state'[t] = "Blocked"
               PROVE  locking'[t] # {} \/ \E d \in Conds : t \in Parked(d)'
    BY DEF BlockedInSomeList
  <2>1. t \notin woken /\ state[t] = "Blocked"
    BY <1>2
  <2>2. locking[t] # {} \/ \E d \in Conds : t \in Parked(d)
    BY <2>1 DEF CondInv, BlockedInSomeList
  <2> QED
    BY <1>2, <1>4, <2>1, <2>2
<1>9. OneWaitUnderWay'
  BY <1>2 DEF CondInv, OneWaitUnderWay
<1> QED
  BY <1>3, <1>5, <1>7, <1>8, <1>9 DEF CondInv, KernelInv

\* notify_one, by a task or by a handler, wakes one task.
LEMMA OneWoken ==
    ASSUME CondInv, NEW c \in Conds, NEW u \in Users, WakesOne(c, u),
           UNCHANGED mutexVars, relock' = relock,
           \A t \in Users : pc[t] \in {"trigger", "return"} => pc'[t] = pc[t]
    PROVE  /\ u \in Parked(c)
           /\ \E w : Wakes(c, {u}, w)
<1>1. PICK i \in DOMAIN parked[c] :
         /\ u = parked[c][i]
         /\ parked' = [parked EXCEPT ![c] = Popped(parked[c], i)]
         /\ Unblock(u)
  BY DEF WakesOne
<1>2. parked[c] \in Seq(Users) /\ IsInjective(parked[c])
  BY ParkedTasks
<1>3. /\ Popped(parked[c], i) \in Seq(Users)
      /\ ToSet(Popped(parked[c], i)) = Parked(c) \ {u}
      /\ IsInjective(Popped(parked[c], i))
  BY <1>1, <1>2, PoppedList DEF Popped, Parked
<1>4. u \in Parked(c)
  BY <1>1 DEF Parked, ToSet
<1>5. \A t \in Users : state'[t] = IF t = u THEN "Ready" ELSE state[t]
  BY <1>1, KernelConstants DEF Unblock, CondInv, LockInv, TypeOK, KernelTypeOK
<1>6. Wakes(c, {u}, Popped(parked[c], i))
  BY <1>1, <1>3, <1>4, <1>5 DEF Wakes
<1> QED
  BY <1>4, <1>6

LEMMA NotifyOneWakes ==
    ASSUME CondInv, NEW t \in Users, NEW c \in Conds, NotifyOne(t, c)
    PROVE  /\ KernelInv'
           /\ \E u \in Parked(c) : \E w : Wakes(c, {u}, w)
<1>1. PICK u \in Users : WakesOne(c, u) /\ PreemptFor(t, u, priority[t])
  BY DEF NotifyOne
<1>2. TaskWakes(t, u) /\ UNCHANGED mutexVars /\ relock' = relock
  BY <1>1 DEF NotifyOne, WakesOne, TaskWakes
<1>3. KernelInv
  BY DEF CondInv, LockInv, TypeOK, KernelInv
<1>4. u \in Parked(c)
  BY <1>1 DEF WakesOne, Parked, ToSet
<1>5. state[u] = "Blocked"
  BY <1>4 DEF CondInv, ParkedAreWaiting
<1>6. /\ KernelInv'
      /\ pc[t] = "user"
      /\ \A v \in Tasks : v # t => pc'[v] = pc[v]
  BY <1>2, <1>3, <1>5, TaskWakesInv
<1>7. \A v \in Users : pc[v] \in {"trigger", "return"} => pc'[v] = pc[v]
  BY <1>6, KernelConstants
<1> QED
  BY <1>1, <1>2, <1>6, <1>7, OneWoken

LEMMA IsrNotifyOneWakes ==
    ASSUME CondInv, NEW c \in Conds, IsrNotifyOne(c)
    PROVE  /\ KernelInv'
           /\ \E u \in Parked(c) : \E w : Wakes(c, {u}, w)
<1>1. PICK u \in Users : WakesOne(c, u) /\ pendsv' = (pendsv \/ Outranks(u, current))
  BY DEF IsrNotifyOne
<1>2. IsrWakes(u) /\ UNCHANGED mutexVars /\ relock' = relock /\ pc' = pc
  BY <1>1 DEF IsrNotifyOne, WakesOne, IsrWakes
<1>3. KernelInv
  BY DEF CondInv, LockInv, TypeOK, KernelInv
<1>4. u \in Parked(c)
  BY <1>1 DEF WakesOne, Parked, ToSet
<1>5. state[u] = "Blocked"
  BY <1>4 DEF CondInv, ParkedAreWaiting
<1>6. KernelInv'
  BY <1>2, <1>3, <1>5, IsrWakesInv
<1> QED
  BY <1>1, <1>2, <1>6, OneWoken

LEMMA NotifyAllWakes ==
    ASSUME CondInv, NEW t \in Users, NEW c \in Conds, NotifyAll(t, c)
    PROVE  /\ KernelInv'
           /\ Wakes(c, Parked(c), <<>>)
<1> DEFINE woken == Parked(c)
<1>1. /\ Calls(t)
      /\ parked' = [parked EXCEPT ![c] = <<>>]
      /\ state' = [u \in Tasks |-> IF u \in woken THEN "Ready" ELSE state[u]]
      /\ slice' = [u \in Tasks |-> IF u \in woken THEN TimeSlice[u] ELSE slice[u]]
      /\ pc' = pc \/ pc' = [pc EXCEPT ![t] = "trigger"]
      /\ UNCHANGED <<current, left, priority, pendsv, seen, mutexVars, relock>>
  BY DEF NotifyAll, Parked
<1>2. woken \subseteq Users
  BY ParkedTasks
<1> HIDE DEF woken
<1>3. KernelInv
  BY DEF CondInv, LockInv, TypeOK, KernelInv
<1>4. /\ t \in Tasks /\ t \notin woken /\ state[t] = "Running" /\ pc[t] = "user"
      /\ current = t /\ current # NoTask
  BY <1>1, CallerIsFree, CallerIsNotParked, KernelConstants DEF CondInv, Calls, Thread, woken
<1>5. /\ state' \in [Tasks -> TaskStates]
      /\ \A u \in Tasks : state'[u] = IF u \in woken THEN "Ready" ELSE state[u]
  BY <1>1, <1>3 DEF KernelInv, KernelTypeOK, TaskStates
<1>6. slice' \in [Tasks -> 0 .. 255]
  BY <1>1, <1>3, KernelConstants DEF KernelInv, KernelTypeOK
<1>7. /\ pc' \in [Tasks -> Points]
      /\ \A u \in Tasks \ {t} : pc'[u] = pc[u]
  BY <1>1, <1>3 DEF KernelInv, KernelTypeOK, Points
<1>8. state'[Idle] \in {"Ready", "Running"}
  BY <1>3, <1>5, KernelConstants DEF KernelInv, KernelTypeOK
<1>9. KernelTypeOK'
  BY <1>1, <1>3, <1>4, <1>5, <1>6, <1>7, <1>8 DEF KernelInv, KernelTypeOK
<1>10. RunsOnlyWhenRunning' /\ NothingBeforeLaunch'
  BY <1>1, <1>3, <1>4, <1>5 DEF KernelInv, RunsOnlyWhenRunning, NothingBeforeLaunch
<1>11. \A u \in Users : pc[u] \in {"trigger", "return"} => pc'[u] = pc[u]
  BY <1>4, <1>7, KernelConstants
<1>12. <<>> \in Seq(Users) /\ IsInjective(<<>>) /\ ToSet(<<>>) = woken \ woken
  BY DEF IsInjective, ToSet
<1>13. \A u \in Users : state'[u] = IF u \in woken THEN "Ready" ELSE state[u]
  BY <1>5, KernelConstants
<1>14. Wakes(c, woken, <<>>)
  BY <1>1, <1>11, <1>12, <1>13 DEF Wakes, woken
<1> QED
  BY <1>9, <1>10, <1>14 DEF KernelInv, woken

\* Whatever a task's notification does, it keeps the invariant.
LEMMA NotifyCond ==
    ASSUME CondInv, NEW t \in Users, NEW c \in Conds, Notify(t, c)
    PROVE  CondInv'
<1>1. CASE NotifyOne(t, c)
  BY <1>1, NotifyOneWakes, WakesCond
<1>2. CASE NotifyAll(t, c)
  BY <1>2, NotifyAllWakes, WakesCond
<1>3. CASE NotifyNobody(t, c)
  BY <1>3, StutterCond DEF NotifyNobody, vars
<1> QED
  BY <1>1, <1>2, <1>3 DEF Notify

\* A task that exits, which is in no list.
LEMMA LeavesCond ==
    ASSUME CondInv, NEW t \in Users, Leaves(t)
    PROVE  CondInv'
<1>1. TaskExits(t) /\ Thread(t) /\ pc[t] = "user" /\ current' = current
  BY DEF Leaves, TaskExits, Exit, Calls
<1>2. LockInv'
  BY <1>1, TaskExitsLock DEF CondInv
<1>3. NothingBeforeLaunch'
  BY <1>1, ThreadAfterLaunch
<1>4. state[t] = "Running"
  BY <1>1, ThreadRuns DEF CondInv, LockInv
<1>5. /\ \A u \in Users : state'[u] = IF u = t THEN "Dead" ELSE state[u]
      /\ locking' = locking
  BY <1>1, KernelConstants
     DEF TaskExits, Exit, LeaveRunning, mutexVars, CondInv, LockInv, TypeOK, KernelTypeOK
<1>6. \A c \in Conds : \A u \in Parked(c) : u \in Users \ {t} /\ state[u] = "Blocked"
  BY <1>4, ParkedTasks, CallerIsNotParked DEF CondInv, ParkedAreWaiting
<1>7. parked' = parked /\ relock' = relock
  BY DEF Leaves, condVars
<1> QED
  BY <1>2, <1>3, <1>5, <1>6, <1>7, SameParked

LEMMA ClientStepCond ==
    ASSUME CondInv, NEW t \in Users, ClientStep(t)
    PROVE  CondInv'
<1>0. CASE Leaves(t)
  BY <1>0, LeavesCond
<1>1. ASSUME NEW m \in Mutexes, Locks(t, m) \/ Drops(t, m)
      PROVE  CondInv'
  BY <1>1, LockingCond, UnlocksCond DEF Locks, Drops, condVars
<1>2. CASE Returns(t)
  BY <1>2, ReturnsCond DEF Returns
<1>3. ASSUME NEW m \in Mutexes, Relock(t, m)
      PROVE  CondInv'
  BY <1>3, LockingCond DEF Relock
<1>4. ASSUME NEW c \in Conds, WaitsForFlag(t, c)
      PROVE  CondInv'
  BY <1>4, WaitCond
<1>5. ASSUME NEW c \in Conds, Consumes(t, c) \/ Produces(t, c)
      PROVE  CondInv'
  <2>1. MutexOf[c] \in Mutexes
    BY HandshakeAssumption
  <2> QED
    BY <1>5, <2>1, UnlocksCond DEF Consumes, Produces
<1>6. ASSUME NEW c \in Conds, Notifies(t, c)
      PROVE  CondInv'
  BY <1>6, NotifyCond DEF Notifies
<1> QED
  BY <1>0, <1>1, <1>2, <1>3, <1>4, <1>5, <1>6 DEF ClientStep, Relocks

LEMMA NextCond ==
    ASSUME CondInv, [HandshakeNext]_allVars
    PROVE  CondInv'
<1>1. CASE UNCHANGED allVars
  BY <1>1, StutterCond DEF allVars, vars
<1>2. CASE Interrupts
  BY <1>2, InterruptsCond
<1>3. ASSUME NEW t \in Users, ClientStep(t)
      PROVE  CondInv'
  BY <1>3, ClientStepCond
<1>4. ASSUME NEW c \in Conds, IsrNotifies(c)
      PROVE  CondInv'
  BY <1>4, IsrNotifyOneWakes, WakesCond DEF IsrNotifies
<1> QED
  BY <1>1, <1>2, <1>3, <1>4 DEF HandshakeNext

LEMMA CondInvHolds == HandshakeSpec => []CondInv
<1>1. HandshakeInit => CondInv
  BY InitCond
<1>2. CondInv /\ [HandshakeNext]_allVars => CondInv'
  BY NextCond
<1> QED
  BY <1>1, <1>2, PTL DEF HandshakeSpec

-----------------------------------------------------------------------------
(***************************************************************************)
(* One place in one list.                                                  *)
(***************************************************************************)

\* A list without repetitions has no more places than there are tasks, and a task
\* in it is at one of them.
LEMMA OnePlace ==
    ASSUME NEW w \in Seq(Users), IsInjective(w), NEW t \in ToSet(w)
    PROVE  \E i \in 1 .. N : \A j : j \in DOMAIN w /\ w[j] = t <=> j = i
<1>1. Len(w) \in Nat /\ DOMAIN w = 1 .. Len(w) /\ N \in Nat /\ Users \subseteq 1 .. N
  BY KernelAssumption DEF Users, Tasks
<1>2. ASSUME Len(w) > N
      PROVE  FALSE
  <2>1. /\ IsFiniteSet(1 .. Len(w)) /\ Cardinality(1 .. Len(w)) = Len(w)
        /\ IsFiniteSet(1 .. N) /\ Cardinality(1 .. N) = N
    <3>1. \A n \in Nat : IsFiniteSet(1 .. n) /\ Cardinality(1 .. n) = n
      BY FS_Interval
    <3> QED
      BY <1>1, <3>1
  <2>2. w \in [1 .. Len(w) -> 1 .. N]
    <3>1. w \in [1 .. Len(w) -> Users]
      OBVIOUS
    <3>2. \A j \in 1 .. Len(w) : w[j] \in 1 .. N
      BY <1>1, <3>1
    <3> QED
      BY <3>1, <3>2
  <2>3. Cardinality(1 .. N) < Cardinality(1 .. Len(w))
    BY <1>1, <1>2, <2>1
  <2>4. \E i, j \in 1 .. Len(w) : i # j /\ w[i] = w[j]
    <3> DEFINE S == 1 .. Len(w)
               T == 1 .. N
    <3>1. IsFiniteSet(S) /\ IsFiniteSet(T) /\ Cardinality(T) < Cardinality(S) /\ w \in [S -> T]
      BY <2>1, <2>2, <2>3
    <3> HIDE DEF S, T
    <3>2. \E i, j \in S : i # j /\ w[i] = w[j]
      BY <3>1, FS_PigeonHole
    <3> QED
      BY <3>2 DEF S
  <2> QED
    BY <1>1, <2>4 DEF IsInjective
<1>3. PICK i \in DOMAIN w : w[i] = t
  BY DEF ToSet
<1>4. \A j \in DOMAIN w : w[j] = t => j = i
  BY <1>3 DEF IsInjective
<1>5. i \in 1 .. N
  BY <1>1, <1>2
<1> QED
  BY <1>3, <1>4, <1>5

LEMMA ListedOnce == ASSUME CondInv PROVE InOneList
<1> SUFFICES ASSUME NEW t \in Users
             PROVE  Cardinality(Places(t)) = (IF state[t] = "Blocked" THEN 1 ELSE 0)
  BY DEF InOneList
<1>1. \A m \in Mutexes :
         /\ waiters[m] \in Seq(Users) /\ IsInjective(waiters[m])
         /\ t \in ToSet(waiters[m]) <=> state[t] = "Blocked" /\ m \in locking[t]
  BY DEF CondInv, LockInv, TypeOK, ListsAreLinked, Waiting
<1>2. \A c \in Conds :
         /\ parked[c] \in Seq(Users) /\ IsInjective(parked[c])
         /\ t \in ToSet(parked[c]) => state[t] = "Blocked" /\ locking[t] = {}
  BY ParkedTasks DEF CondInv, ParkedAreWaiting, Parked
<1>3. /\ \A p \in Places(t) :
            \/ /\ p \in Mutexes \X (1 .. N)
               /\ p[2] \in DOMAIN waiters[p[1]] /\ waiters[p[1]][p[2]] = t
               /\ t \in ToSet(waiters[p[1]])
            \/ /\ p \in Conds \X (1 .. N)
               /\ p[2] \in DOMAIN parked[p[1]] /\ parked[p[1]][p[2]] = t
               /\ t \in ToSet(parked[p[1]])
      /\ \A m \in Mutexes : \A i \in 1 .. N :
            i \in DOMAIN waiters[m] /\ waiters[m][i] = t => <<m, i>> \in Places(t)
      /\ \A c \in Conds : \A i \in 1 .. N :
            i \in DOMAIN parked[c] /\ parked[c][i] = t => <<c, i>> \in Places(t)
  BY DEF Places, ToSet
<1>4. CASE state[t] # "Blocked"
  <2>1. Places(t) = {}
    BY <1>1, <1>2, <1>3, <1>4
  <2> QED
    BY <1>4, <2>1, FS_EmptySet
<1>5. CASE state[t] = "Blocked" /\ locking[t] # {}
  <2>1. PICK m \in Mutexes : m \in locking[t]
    BY <1>5 DEF CondInv, LockInv, TypeOK
  <2>2. PICK i \in 1 .. N : \A j : j \in DOMAIN waiters[m] /\ waiters[m][j] = t <=> j = i
    BY <1>1, <1>5, <2>1, OnePlace
  <2>3. <<m, i>> \in Places(t)
    BY <1>3, <2>2
  <2>4. \A n \in locking[t] : n = m
    BY <2>1 DEF CondInv, LockInv, OneLockUnderWay
  <2>5. ASSUME NEW p \in Places(t)
        PROVE  p = <<m, i>>
    <3>1. /\ p \in Mutexes \X (1 .. N)
          /\ p[2] \in DOMAIN waiters[p[1]] /\ waiters[p[1]][p[2]] = t
          /\ t \in ToSet(waiters[p[1]])
      BY <1>2, <1>3, <1>5
    <3>2. p[1] = m
      BY <1>1, <2>4, <3>1
    <3>3. p[2] = i
      BY <2>2, <3>1, <3>2
    <3> QED
      BY <3>1, <3>2, <3>3
  <2>6. Places(t) = {<<m, i>>}
    BY <2>3, <2>5
  <2> QED
    BY <1>5, <2>6, FS_Singleton
<1>6. CASE state[t] = "Blocked" /\ locking[t] = {}
  <2>1. PICK c \in Conds : t \in Parked(c)
    BY <1>6 DEF CondInv, BlockedInSomeList
  <2>2. PICK i \in 1 .. N : \A j : j \in DOMAIN parked[c] /\ parked[c][j] = t <=> j = i
    BY <1>2, <2>1, OnePlace DEF Parked
  <2>3. <<c, i>> \in Places(t)
    BY <1>3, <2>2
  <2>5. ASSUME NEW p \in Places(t)
        PROVE  p = <<c, i>>
    <3>1. /\ p \in Conds \X (1 .. N)
          /\ p[2] \in DOMAIN parked[p[1]] /\ parked[p[1]][p[2]] = t
          /\ t \in ToSet(parked[p[1]])
      BY <1>1, <1>3, <1>6
    <3>2. p[1] = c
      BY <2>1, <3>1, OneCondition DEF Parked
    <3>3. p[2] = i
      BY <2>2, <3>1, <3>2
    <3> QED
      BY <3>1, <3>2, <3>3
  <2>6. Places(t) = {<<c, i>>}
    BY <2>3, <2>5
  <2> QED
    BY <1>6, <2>6, FS_Singleton
<1> QED
  BY <1>4, <1>5, <1>6

\* The variables of the client.
ClientTypes == flag \in [Conds -> BOOLEAN] /\ owes \in [Users -> SUBSET Conds]

LEMMA NextClientTypes ==
    ASSUME ClientTypes, [HandshakeNext]_allVars
    PROVE  ClientTypes'
<1>1. CASE UNCHANGED clientVars
  BY <1>1 DEF clientVars, ClientTypes
<1>2. ASSUME NEW t \in Users, NEW c \in Conds,
             Consumes(t, c) \/ Produces(t, c) \/ Notifies(t, c)
      PROVE  ClientTypes'
  <2>1. flag' = flag \/ \E b \in BOOLEAN : flag' = [flag EXCEPT ![c] = b]
    BY <1>2 DEF Consumes, Produces, Notifies
  <2>2. \/ owes' = owes
        \/ owes' = [owes EXCEPT ![t] = owes[t] \cup {c}]
        \/ owes' = [owes EXCEPT ![t] = owes[t] \ {c}]
    BY <1>2 DEF Consumes, Produces, Notifies
  <2> QED
    BY <2>1, <2>2 DEF ClientTypes
<1> QED
  BY <1>1, <1>2
     DEF HandshakeNext, allVars, Interrupts, IsrNotifies, ClientStep, Locks, Drops, Leaves,
         Returns, Relocks, WaitsForFlag

\* The variables of Condvar and its client keep their types; a Blocked task is in one
\* place of one list, of a mutex or of a condition variable, and no other task is in
\* any; and no list of a mutex is left without an owner.
THEOREM WaitMovesTasksSafely == HandshakeSpec => []HandshakeConsistent
<1>1. HandshakeInit => ClientTypes
  BY DEF HandshakeInit, ClientTypes
<1>2. ClientTypes /\ [HandshakeNext]_allVars => ClientTypes'
  BY NextClientTypes
<1>3. CondInv /\ ClientTypes => HandshakeConsistent
  <2>1. CondInv => InOneList
    BY ListedOnce
  <2>2. CondInv => \A m \in Mutexes : waiters[m] # <<>> => owner[m] # NoTask
    BY DEF CondInv, LockInv, ListsAreLinked
  <2> QED
    BY <2>1, <2>2 DEF CondInv, ClientTypes, HandshakeConsistent, HandshakeTypeOK
<1> QED
  BY <1>1, <1>2, <1>3, CondInvHolds, PTL DEF HandshakeSpec

\* No two tasks have a guard of one mutex, however wait and unlock pass it on.
THEOREM WaitKeepsExclusion == HandshakeSpec => []MutualExclusion
<1>1. CondInv => MutualExclusion
  BY DEF CondInv, LockInv, TypeOK, GuardsAreOwners, MutualExclusion
<1> QED
  BY <1>1, CondInvHolds, PTL

-----------------------------------------------------------------------------
(***************************************************************************)
(* Lost wake-ups.                                                          *)
(***************************************************************************)

\* What NoLostWakeUp says of one condition variable.
WakeUpComes(c) ==
    flag[c] /\ parked[c] # <<>>
        => \/ \E t \in Producers : c \in owes[t]
           \/ \E t \in Consumers : OnItsWay(t, c)

\* The mutexes t has, waits for, or is about to lock.
Claims(t) == relock[t] \cup locking[t] \cup held[t]

\* A step that neither sets a flag nor pays what is owed, and in which no task stops
\* being on its way.
LEMMA WakeUpStillComes ==
    ASSUME NEW c \in Conds, WakeUpComes(c),
           flag'[c] => flag[c],
           parked'[c] # <<>> => parked[c] # <<>>,
           Parked(c)' \subseteq Parked(c),
           \A t \in Producers : c \in owes[t] => c \in owes'[t],
           \A t \in Consumers : MutexOf[c] \in Claims(t) => MutexOf[c] \in Claims(t)'
    PROVE  WakeUpComes(c)'
BY DEF WakeUpComes, OnItsWay, Claims

\* Until it unlocks, a task keeps every claim it has: it becomes one of another kind.
LEMMA LockingKeepsClaims ==
    ASSUME CondInv, NEW t \in Users, NEW m \in Mutexes,
           Acquire(t, m) \/ LockBlocks(t, m),
           \/ relock' = relock
           \/ m \in relock[t] /\ relock' = [relock EXCEPT ![t] = {}]
    PROVE  \A u \in Users : Claims(u) \subseteq Claims(u)'
<1>1. locking[t] = {}
  BY CallerIsFree DEF Acquire, LockBlocks, MayAcquire, CondInv
<1>2. \A u \in Users \ {t} : Claims(u)' = Claims(u)
  BY DEF Acquire, LockBlocks, CondInv, CondvarTypeOK, LockInv, TypeOK, Claims
<1>3. held[t] \subseteq held'[t] /\ m \in held'[t] \cup locking'[t]
  BY DEF Acquire, LockBlocks, CondInv, LockInv, TypeOK
<1>4. relock[t] \subseteq relock'[t] \cup {m}
  BY DEF CondInv, OneWaitUnderWay
<1> QED
  BY <1>1, <1>2, <1>3, <1>4 DEF Claims

LEMMA ReturnsKeepsClaims ==
    ASSUME CondInv, NEW t \in Users, CallReturns(t), relock' = relock
    PROVE  \A u \in Users : Claims(u) \subseteq Claims(u)'
BY DEF CallReturns, CondInv, LockInv, TypeOK, Claims

\* A task that drops a guard keeps its claims on other mutexes.
LEMMA DropKeepsClaims ==
    ASSUME CondInv, NEW t \in Users, NEW m \in Mutexes,
           DropsGuard(t, m), locking' = locking,
           \/ relock' = relock
           \/ relock[t] = {} /\ relock' = [relock EXCEPT ![t] = {m}]
    PROVE  \A u \in Users : Claims(u) \ {m} \subseteq Claims(u)'
BY DEF DropsGuard, CondInv, CondvarTypeOK, LockInv, TypeOK, Claims

\* Tasks that leave the list of c are on their way.
LEMMA WakingBrings ==
    ASSUME CondInv, NEW c \in Conds, NEW woken, NEW w, Wakes(c, woken, w),
           woken # {},
           NEW d \in Conds, WakeUpComes(d),
           flag' = flag,
           d # c => \A t \in Producers : d \in owes[t] => d \in owes'[t]
    PROVE  WakeUpComes(d)'
<1>1. /\ parked'[c] = w /\ Parked(c)' = Parked(c) \ woken
      /\ \A e \in Conds \ {c} : parked'[e] = parked[e] /\ Parked(e)' = Parked(e)
      /\ relock' = relock /\ locking' = locking /\ held' = held
  BY DEF Wakes, CondInv, CondvarTypeOK, Parked, mutexVars
<1>2. CASE d # c
  <2>1. \A t \in Consumers : Claims(t)' = Claims(t)
    BY <1>1 DEF Claims
  <2> QED
    BY <1>1, <1>2, <2>1, WakeUpStillComes
<1>3. CASE d = c
  <2>1. PICK u \in woken : TRUE
    OBVIOUS
  <2>2. u \in Consumers /\ relock[u] = {MutexOf[c]}
    BY <2>1 DEF Wakes, CondInv, ParkedAreWaiting
  <2>3. OnItsWay(u, c)'
    BY <1>1, <2>1, <2>2 DEF OnItsWay
  <2> QED
    BY <1>3, <2>2, <2>3 DEF WakeUpComes
<1> QED
  BY <1>2, <1>3

LEMMA NotifiesBrings ==
    ASSUME CondInv, ClientTypes, NEW t \in Users, NEW c \in Conds, Notifies(t, c),
           NEW d \in Conds, WakeUpComes(d)
    PROVE  WakeUpComes(d)'
<1>1. /\ Notify(t, c) /\ flag' = flag
      /\ owes' = [owes EXCEPT ![t] = owes[t] \ {c}]
  BY DEF Notifies
<1>2. d # c => \A u \in Users : d \in owes[u] => d \in owes'[u]
  BY <1>1 DEF ClientTypes
<1>3. Producers \subseteq Users
  BY HandshakeAssumption, MutexAssumption
<1>4. CASE NotifyOne(t, c)
  <2>1. PICK u, w : Wakes(c, {u}, w)
    BY <1>4, NotifyOneWakes
  <2> QED
    BY <1>1, <1>2, <1>3, <2>1, WakingBrings
<1>5. CASE NotifyAll(t, c)
  <2>1. Wakes(c, Parked(c), <<>>)
    BY <1>5, NotifyAllWakes
  <2>2. Parked(c) # {}
    BY <1>5 DEF NotifyAll, Parked
  <2> QED
    BY <1>1, <1>2, <1>3, <2>1, <2>2, WakingBrings
<1>6. CASE NotifyNobody(t, c)
  <2>1. parked' = parked /\ parked[c] = <<>> /\ UNCHANGED <<relock, locking, held>>
    BY <1>6 DEF NotifyNobody, mutexVars, condVars
  <2>2. Parked(d)' = Parked(d) /\ \A u \in Consumers : Claims(u)' = Claims(u)
    BY <2>1 DEF Parked, Claims
  <2>3. CASE d = c
    BY <2>1, <2>3 DEF WakeUpComes
  <2>4. CASE d # c
    BY <1>1, <1>2, <1>3, <2>1, <2>2, <2>4, WakeUpStillComes
  <2> QED
    BY <2>3, <2>4
<1> QED
  BY <1>1, <1>4, <1>5, <1>6 DEF Notify

\* A guard dropped for no condition is one of a producer, or of another mutex.
LEMMA PlainDropsBring ==
    ASSUME CondInv, NEW t \in Users, NEW m \in Mutexes, Drops(t, m),
           NEW d \in Conds, WakeUpComes(d)
    PROVE  WakeUpComes(d)'
<1>1. /\ DropsGuard(t, m) /\ locking' = locking /\ relock' = relock
      /\ parked' = parked /\ UNCHANGED clientVars
  BY DEF Drops, Unlocks, UnlockFrees, UnlockGrants, condVars
<1>2. Consumers \subseteq Users
  BY HandshakeAssumption, MutexAssumption
<1>3. \A u \in Users : Claims(u) \ {m} \subseteq Claims(u)'
  BY <1>1, DropKeepsClaims
<1>4. \A u \in Users \ {t} : Claims(u)' = Claims(u)
  BY <1>1 DEF DropsGuard, CondInv, LockInv, TypeOK, Claims
<1>5. t \in Consumers => MutexOf[d] # m
  BY DEF Drops
<1>6. \A u \in Consumers : MutexOf[d] \in Claims(u) => MutexOf[d] \in Claims(u)'
  BY <1>2, <1>3, <1>4, <1>5
<1>7. flag' = flag /\ owes' = owes /\ Parked(d)' = Parked(d)
  BY <1>1 DEF clientVars, Parked
<1> QED
  BY <1>1, <1>6, <1>7, WakeUpStillComes

\* A client that gives up its guard has set the flag and owes a notification, has
\* cleared the flag, or has found it clear.
LEMMA DropsBring ==
    ASSUME CondInv, ClientTypes, NEW t \in Users, NEW c \in Conds,
           WaitsForFlag(t, c) \/ Consumes(t, c) \/ Produces(t, c),
           NEW d \in Conds, WakeUpComes(d)
    PROVE  WakeUpComes(d)'
<1> DEFINE m == MutexOf[c]
<1>1. m \in Mutexes /\ (d # c => MutexOf[d] # m)
  BY HandshakeAssumption
<1> HIDE DEF m
<1>2. /\ DropsGuard(t, m) /\ locking' = locking
      /\ relock' = relock \/ (relock[t] = {} /\ relock' = [relock EXCEPT ![t] = {m}])
      /\ parked' = parked \/ (WaitsForFlag(t, c) /\ parked' = [parked EXCEPT ![c] = Cons(t, parked[c])])
  BY DEF WaitsForFlag, Consumes, Produces, AtLeisure, Wait, WaitFrees, WaitGrants, Park,
         Unlocks, UnlockFrees, UnlockGrants, condVars, m
<1>3. Consumers \subseteq Users
  BY HandshakeAssumption, MutexAssumption
<1>4. CASE d # c
  <2>1. flag'[d] = flag[d] /\ \A u \in Users : d \in owes[u] => d \in owes'[u]
    BY <1>4 DEF WaitsForFlag, Consumes, Produces, clientVars, ClientTypes
  <2>2. parked'[d] = parked[d] /\ Parked(d)' = Parked(d)
    BY <1>2, <1>4 DEF CondInv, CondvarTypeOK, Parked
  <2>3. \A u \in Users : Claims(u) \ {m} \subseteq Claims(u)'
    BY <1>1, <1>2, DropKeepsClaims
  <2>4. \A u \in Consumers : MutexOf[d] \in Claims(u) => MutexOf[d] \in Claims(u)'
    BY <1>1, <1>3, <1>4, <2>3
  <2>5. Producers \subseteq Users
    BY HandshakeAssumption, MutexAssumption
  <2> QED
    BY <2>1, <2>2, <2>4, <2>5, WakeUpStillComes
<1>5. CASE d = c /\ WaitsForFlag(t, c)
  BY <1>5 DEF WaitsForFlag, clientVars, WakeUpComes
<1>6. CASE d = c /\ Consumes(t, c)
  BY <1>6 DEF Consumes, ClientTypes, WakeUpComes
<1>7. CASE d = c /\ Produces(t, c)
  BY <1>7 DEF Produces, ClientTypes, WakeUpComes
<1> QED
  BY <1>4, <1>5, <1>6, <1>7

LEMMA NextBrings ==
    ASSUME CondInv, ClientTypes, NEW c \in Conds, WakeUpComes(c), [HandshakeNext]_allVars
    PROVE  WakeUpComes(c)'
<1>0. Consumers \subseteq Users /\ Producers \subseteq Users
  BY HandshakeAssumption, MutexAssumption
<1>1. CASE UNCHANGED <<mutexVars, condVars, clientVars>>
  BY <1>1 DEF mutexVars, condVars, clientVars, WakeUpComes, OnItsWay, Parked
<1>2. ASSUME UNCHANGED <<parked, clientVars>>,
             \A u \in Users : Claims(u) \subseteq Claims(u)'
      PROVE  WakeUpComes(c)'
  <2>1. flag' = flag /\ owes' = owes /\ Parked(c)' = Parked(c)
    BY <1>2 DEF clientVars, Parked
  <2>2. \A u \in Consumers : MutexOf[c] \in Claims(u) => MutexOf[c] \in Claims(u)'
    BY <1>0, <1>2
  <2> QED
    BY <1>2, <2>1, <2>2, WakeUpStillComes
<1>3. ASSUME NEW t \in Users, NEW m \in Mutexes, Locks(t, m)
      PROVE  WakeUpComes(c)'
  <2>1. UNCHANGED <<parked, clientVars>> /\ \A u \in Users : Claims(u) \subseteq Claims(u)'
    BY <1>3, LockingKeepsClaims DEF Locks, condVars
  <2> QED
    BY <1>2, <2>1
<1>4. ASSUME NEW t \in Users, Relocks(t)
      PROVE  WakeUpComes(c)'
  <2>1. PICK m \in Mutexes : Relock(t, m) /\ UNCHANGED clientVars
    BY <1>4 DEF Relocks
  <2>2. UNCHANGED <<parked, clientVars>> /\ \A u \in Users : Claims(u) \subseteq Claims(u)'
    BY <2>1, LockingKeepsClaims DEF Relock
  <2> QED
    BY <1>2, <2>2
<1>5. ASSUME NEW t \in Users, Returns(t)
      PROVE  WakeUpComes(c)'
  <2>1. UNCHANGED <<parked, clientVars>> /\ \A u \in Users : Claims(u) \subseteq Claims(u)'
    BY <1>5, ReturnsKeepsClaims DEF Returns, condVars
  <2> QED
    BY <1>2, <2>1
<1>6. ASSUME NEW t \in Users, NEW d \in Conds,
             WaitsForFlag(t, d) \/ Consumes(t, d) \/ Produces(t, d)
      PROVE  WakeUpComes(c)'
  BY <1>6, DropsBring
<1>10. ASSUME NEW t \in Users, NEW m \in Mutexes, Drops(t, m)
       PROVE  WakeUpComes(c)'
  BY <1>10, PlainDropsBring
<1>11. \A t \in Users : Leaves(t) => UNCHANGED <<mutexVars, condVars, clientVars>>
  BY DEF Leaves, TaskExits
<1>7. ASSUME NEW t \in Users, NEW d \in Conds, Notifies(t, d)
      PROVE  WakeUpComes(c)'
  BY <1>7, NotifiesBrings
<1>8. ASSUME NEW d \in Conds, IsrNotifies(d)
      PROVE  WakeUpComes(c)'
  <2>1. PICK u, w : Wakes(d, {u}, w)
    BY <1>8, IsrNotifyOneWakes DEF IsrNotifies
  <2>2. flag' = flag /\ owes' = owes
    BY <1>8 DEF IsrNotifies, clientVars
  <2> QED
    BY <2>1, <2>2, WakingBrings
<1>9. Interrupts \/ UNCHANGED allVars => UNCHANGED <<mutexVars, condVars, clientVars>>
  BY DEF Interrupts, allVars
<1> QED
  BY <1>1, <1>3, <1>4, <1>5, <1>6, <1>7, <1>8, <1>9, <1>10, <1>11 DEF HandshakeNext, ClientStep

\* No wake-up is lost: tasks stay in the list of a condition variable whose flag is
\* set only while a producer has yet to notify or a consumer that left the list is on
\* its way to the flag; whatever else has been notified, and however many locks and
\* switches lie between the test of the flag, the wait, and the notification.
THEOREM WakeUpsAreNotLost == HandshakeSpec => []NoLostWakeUp
<1> DEFINE Wake == \A c \in Conds : WakeUpComes(c)
<1>1. HandshakeInit => ClientTypes /\ Wake
  BY DEF HandshakeInit, ClientTypes, WakeUpComes
<1>2. CondInv /\ ClientTypes /\ Wake /\ [HandshakeNext]_allVars => ClientTypes' /\ Wake'
  BY NextClientTypes, NextBrings
<1>3. Wake => NoLostWakeUp
  BY DEF WakeUpComes, NoLostWakeUp
<1> HIDE DEF Wake
<1> QED
  BY <1>1, <1>2, <1>3, CondInvHolds, PTL DEF HandshakeSpec

-----------------------------------------------------------------------------
(***************************************************************************)
(* The lock that Mutex promises, with the guards that wait gives up and    *)
(* locks again.                                                            *)
(***************************************************************************)
LEMMA HandshakeNextIsMutexStep ==
    ASSUME CondInv, [HandshakeNext]_allVars
    PROVE  MutexStep
<1>0. LockInv
  BY DEF CondInv
<1>1. CASE UNCHANGED <<priority, mutexVars>>
  BY <1>1 DEF mutexVars, MutexStep
<1>2. CASE KernelStep /\ UNCHANGED mutexVars
  BY <1>1, <1>2, KernelStepKeepsPriorities
<1>3. ASSUME NEW t \in Users, CallReturns(t)
      PROVE  MutexStep
  BY <1>0, <1>3, NextIsMutexStep DEF Next, TaskStep
<1>4. ASSUME NEW t \in Users, NEW m \in Mutexes,
             Acquire(t, m) \/ LockBlocks(t, m) \/ Unlocks(t, m)
      PROVE  MutexStep
  BY <1>0, <1>4, NextIsMutexStep DEF Next, TaskStep, Unlocks
<1>5. ASSUME NEW t \in Users, NEW c \in Conds, NEW m \in Mutexes, Wait(t, c, m)
      PROVE  MutexStep
  <2>1. Frees(t, m) \/ \E next \in Users : HandsOver(t, m, next)
    BY <1>0, <1>5, WaitUnlocks
  <2> QED
    BY <2>1 DEF MutexStep
<1>6. ASSUME NEW t \in Users, NEW c \in Conds, Notify(t, c)
      PROVE  MutexStep
  BY <1>1, <1>6 DEF Notify, NotifyOne, NotifyAll, NotifyNobody, kernelVars
<1>7. ASSUME NEW c \in Conds, IsrNotifyOne(c)
      PROVE  MutexStep
  BY <1>1, <1>7 DEF IsrNotifyOne
<1>8. \A c \in Conds : MutexOf[c] \in Mutexes
  BY HandshakeAssumption
<1>9. UNCHANGED allVars => UNCHANGED <<priority, mutexVars>>
  BY DEF allVars, kernelVars
<1>11. \A t \in Users : Leaves(t) => UNCHANGED <<priority, mutexVars>>
  BY DEF Leaves, TaskExits, Exit
<1>10. ASSUME NEW t \in Users, ClientStep(t)
       PROVE  MutexStep
  BY <1>1, <1>3, <1>4, <1>5, <1>6, <1>8, <1>10, <1>11
     DEF ClientStep, Locks, Drops, Returns, Relocks, Relock, WaitsForFlag, Consumes, Produces,
         Notifies
<1> QED
  BY <1>1, <1>2, <1>7, <1>9, <1>10 DEF HandshakeNext, Interrupts, IsrNotifies

LEMMA WaitInheritHolds ==
    ASSUME MaxHeld = 1
    PROVE  HandshakeSpec => [](CondInv /\ ClaimInv /\ BoostInv)
<1>1. HandshakeInit => ClaimInv /\ BoostInv
  BY InitInherits DEF HandshakeInit, CondvarInit
<1>2. CondInv /\ ClaimInv /\ BoostInv /\ [HandshakeNext]_allVars => ClaimInv' /\ BoostInv'
  BY HandshakeNextIsMutexStep, MutexStepInherits DEF CondInv
<1> QED
  BY <1>1, <1>2, CondInvHolds, PTL DEF HandshakeSpec

\* With one guard at a time there is no priority inversion with condition variables
\* either: a wait drops the boost with the guard, and what it wakes or locks again
\* inherits as any other waiter does.
THEOREM WaitKeepsInheritance ==
    ASSUME MaxHeld = 1
    PROVE  HandshakeSpec => []PriorityInheritance
<1>1. BoostInv => PriorityInheritance
  BY DEF BoostInv
<1> QED
  BY <1>1, WaitInheritHolds, PTL

\* Nor does a boost outlive its cause: wait drops it with the guard.
THEOREM WaitDropsBoosts ==
    ASSUME MaxHeld = 1
    PROVE  HandshakeSpec => []BoostHasACause
<1>1. BoostInv => BoostHasACause
  BY DEF BoostInv
<1> QED
  BY <1>1, WaitInheritHolds, PTL

\* A mutex is a lock handed over by base priority, also to and from the tasks that
\* give it up in wait and lock it again.
THEOREM WaitImplementsPriorityLock ==
    ASSUME MaxHeld = 1
    PROVE  HandshakeSpec => ImplementsPriorityLock
<1>1. HandshakeInit => Lock!Init
  BY DEF HandshakeInit, CondvarInit, Init, Lock!Init, Waiting, ToSet
<1>2. CondInv /\ ClaimInv /\ BoostInv /\ [HandshakeNext]_allVars => [Lock!Next]_(Lock!vars)
  BY HandshakeNextIsMutexStep, MutexStepImplementsLock DEF CondInv
<1> QED
  BY <1>1, <1>2, WaitInheritHolds, PTL
     DEF HandshakeSpec, ImplementsPriorityLock, Lock!Spec

-----------------------------------------------------------------------------
(***************************************************************************)
(* Preemptions, with handlers that notify.                                 *)
(***************************************************************************)

LEMMA NotifyPreempts ==
    ASSUME CondInv, PreemptionPending, NEW c \in Conds,
           IsrNotifyOne(c) \/ \E t \in Users : Notify(t, c)
    PROVE  PreemptionPending'
<1>1. KernelInv
  BY DEF CondInv, LockInv, TypeOK, KernelInv
<1>2. CASE IsrNotifyOne(c)
  <2>1. PICK u \in Users : IsrWakes(u)
    BY <1>2 DEF IsrNotifyOne, WakesOne, IsrWakes
  <2> QED
    BY <1>1, <2>1, WakingPreempts
<1>3. ASSUME NEW t \in Users, NotifyOne(t, c)
      PROVE  PreemptionPending'
  <2>1. PICK u \in Users : TaskWakes(t, u)
    BY <1>3 DEF NotifyOne, WakesOne, TaskWakes
  <2> QED
    BY <1>1, <2>1, WakingPreempts
<1>4. ASSUME NEW t \in Users, NotifyAll(t, c)
      PROVE  PreemptionPending'
  <2>1. Parked(c) \in SUBSET Users
    BY ParkedTasks
  <2>2. /\ WakeAll(Parked(c))
        /\ Calls(t)
        /\ pc' = IF \E u \in Parked(c) : Outranks(u, t)
                 THEN [pc EXCEPT ![t] = "trigger"] ELSE pc
        /\ UNCHANGED <<current, left, priority, pendsv, seen>>
    BY <1>4 DEF NotifyAll, WakeAll, Parked
  <2> QED
    BY <1>1, <2>1, <2>2, WakingAllPreempts
<1>5. ASSUME NEW t \in Users, NotifyNobody(t, c)
      PROVE  PreemptionPending'
  BY <1>1, <1>5, QuietCallPreempts DEF NotifyNobody
<1> QED
  BY <1>2, <1>3, <1>4, <1>5 DEF Notify

\* A wait ends before its trigger_pendsv(), whoever gets the mutex.
LEMMA WaitPreempts ==
    ASSUME CondInv, NEW t \in Users, NEW c \in Conds, NEW m \in Mutexes, Wait(t, c, m)
    PROVE  PreemptionPending'
<1>1. current = t /\ current' = t /\ pc' = [pc EXCEPT ![t] = "trigger"]
  BY DEF Wait, WaitFrees, WaitGrants, Park, DropsGuard, Calls, Thread
<1>2. pc'[t] = "trigger"
  BY <1>1, KernelConstants DEF CondInv, LockInv, TypeOK, KernelTypeOK
<1> QED
  BY <1>1, <1>2 DEF PreemptionPending, SwitchUnderWay

LEMMA ClientStepPreempts ==
    ASSUME CondInv, ClaimInv, BoostInv, PreemptionPending, NEW t \in Users, ClientStep(t)
    PROVE  PreemptionPending'
<1>1. LockInv
  BY DEF CondInv
<1>2. \A c \in Conds : MutexOf[c] \in Mutexes
  BY HandshakeAssumption
<1>3. CASE Returns(t) \/ Leaves(t)
  BY <1>3, ExitReturnPreempts
     DEF Returns, CallReturns, Leaves, TaskExits, CondInv, LockInv, TypeOK
<1>4. ASSUME NEW m \in Mutexes, Acquire(t, m) \/ LockBlocks(t, m) \/ Unlocks(t, m)
      PROVE  PreemptionPending'
  BY <1>1, <1>4, MutexCallPreempts DEF Unlocks
<1>5. ASSUME NEW c \in Conds, WaitsForFlag(t, c)
      PROVE  PreemptionPending'
  BY <1>2, <1>5, WaitPreempts DEF WaitsForFlag
<1>6. ASSUME NEW c \in Conds, Notifies(t, c)
      PROVE  PreemptionPending'
  BY <1>6, NotifyPreempts DEF Notifies
<1> QED
  BY <1>2, <1>3, <1>4, <1>5, <1>6
     DEF ClientStep, Locks, Drops, Relocks, Relock, Consumes, Produces

LEMMA HandshakeKeepsPreemptions ==
    ASSUME CondInv, ClaimInv, BoostInv, [HandshakeNext]_allVars, PreemptionPending,
           ~(PendSVSwitch /\ seen # ReadyIn(state))
    PROVE  PreemptionPending'
<1>1. CASE UNCHANGED allVars
  BY <1>1 DEF allVars, kernelVars, PreemptionPending, SwitchUnderWay, Outranks
<1>2. CASE Interrupts
  BY <1>2, KernelStepPreempts DEF Interrupts, CondInv, LockInv, TypeOK
<1> QED
  BY <1>1, <1>2, ClientStepPreempts, NotifyPreempts DEF HandshakeNext, IsrNotifies

\* With one guard at a time, neither a wait, which drops a boost, nor a notification,
\* by a task or by a handler, forgets a preemption: only a PendSV that a handler
\* preempted does, until the next tick that finds a task running.
THEOREM WaitKeepsPreemptions ==
    ASSUME MaxHeld = 1
    PROVE  HandshakeSpec => PreemptionsKept
<1>1. ASSUME CondInv, ClaimInv, BoostInv, [HandshakeNext]_allVars
      PROVE  [ /\ PreemptionPending /\ ~PreemptionPending'
                     => PendSVSwitch /\ seen # ReadyIn(state)
               /\ TickRunning => PreemptionPending' ]_kernelVars
  BY <1>1, HandshakeKeepsPreemptions, TickPreempts
<1> QED
  BY <1>1, WaitInheritHolds, PTL DEF HandshakeSpec, PreemptionsKept
=============================================================================
