-------------------------- MODULE SemaphoreProofs --------------------------
(***************************************************************************)
(* Semaphore, for every number of tasks and semaphores, every maximum and  *)
(* every workload of tasks and interrupt handlers.                         *)
(***************************************************************************)
EXTENDS Semaphore, KernelProofs

\* A task waits in one take() at a time, and is inside that call.
OneTakeUnderWay ==
    \A t \in Users :
        /\ \A r, s \in taking[t] : r = s
        /\ taking[t] # {} => pc[t] \in {"trigger", "return"}

\* The inductive invariant behind every theorem of this module.
SemInv ==
    /\ KernelInv
    /\ TypeOK
    /\ BlockedExactlyWaiting
    /\ NoTokenWhileWaiting
    /\ OneTakeUnderWay

LEMMA InitSem == ASSUME Init PROVE SemInv
<1>1. KernelInv /\ TypeOK
  BY KernelInitInv, SemaphoreAssumption DEF Init, TypeOK, KernelInv
<1>2. BlockedExactlyWaiting /\ NoTokenWhileWaiting /\ OneTakeUnderWay
  BY KernelConstants
     DEF Init, KernelInit, BlockedExactlyWaiting, Waiting, ToSet, IsInjective,
         NoTokenWhileWaiting, OneTakeUnderWay
<1> QED
  BY <1>1, <1>2 DEF SemInv

\* Steps that change no semaphore and no Blocked task.
LEMMA QuietStepSem ==
    ASSUME SemInv, KernelInv', UNCHANGED semVars,
           \A t \in Users :
              /\ state'[t] = "Blocked" <=> state[t] = "Blocked"
              /\ pc[t] \in {"trigger", "return"} => pc'[t] \in {"trigger", "return"}
    PROVE  SemInv'
BY DEF SemInv, KernelInv, TypeOK, BlockedExactlyWaiting, Waiting, NoTokenWhileWaiting,
       OneTakeUnderWay, semVars

\* A task in its own code that can make a call is Running and inside no take().
LEMMA CallerIsFree ==
    ASSUME SemInv, NEW t \in Users, Calls(t)
    PROVE  /\ t \in Tasks
           /\ state[t] = "Running"
           /\ taking[t] = {}
           /\ \A s \in Sems : t \notin Waiting(s)
BY KernelConstants, ThreadRuns
   DEF SemInv, KernelInv, Calls, OneTakeUnderWay, BlockedExactlyWaiting

LEMMA TokenTakenSem ==
    ASSUME SemInv, NEW s \in Sems, TokenTaken(s)
    PROVE  SemInv'
<1>1. KernelInv'
  BY StutterInv DEF SemInv, TokenTaken
<1>2. TypeOK'
  BY <1>1 DEF TokenTaken, SemInv, TypeOK, KernelInv
<1>3. NoTokenWhileWaiting'
  BY DEF TokenTaken, SemInv, TypeOK, NoTokenWhileWaiting
<1>4. BlockedExactlyWaiting' /\ OneTakeUnderWay'
  BY DEF TokenTaken, SemInv, BlockedExactlyWaiting, Waiting, OneTakeUnderWay, kernelVars
<1> QED
  BY <1>1, <1>2, <1>3, <1>4 DEF SemInv

LEMMA GiveCountsSem ==
    ASSUME SemInv, NEW s \in Sems, GiveCounts(s)
    PROVE  SemInv'
<1>1. KernelInv'
  BY StutterInv DEF SemInv, GiveCounts
<1>2. Kept(s) \in 0 .. 255
  <2>1. count[s] \in 0 .. 255 /\ MaxCount[s] \in 0 .. 255
    BY SemaphoreAssumption DEF SemInv, TypeOK
  <2> QED
    BY <2>1 DEF Kept
<1>3. TypeOK'
  BY <1>1, <1>2 DEF GiveCounts, SemInv, TypeOK, KernelInv
<1>4. NoTokenWhileWaiting'
  BY DEF GiveCounts, SemInv, TypeOK, NoTokenWhileWaiting
<1>5. BlockedExactlyWaiting' /\ OneTakeUnderWay'
  BY DEF GiveCounts, SemInv, BlockedExactlyWaiting, Waiting, OneTakeUnderWay, kernelVars
<1> QED
  BY <1>1, <1>3, <1>4, <1>5 DEF SemInv

LEMMA TakeBlocksSem ==
    ASSUME SemInv, NEW t \in Users, NEW s \in Sems, TakeBlocks(t, s)
    PROVE  SemInv'
<1>1. /\ t \in Tasks
      /\ taking[t] = {}
      /\ \A r \in Sems : t \notin Waiting(r)
  BY CallerIsFree DEF TakeBlocks
<1>2. /\ KernelInv'
      /\ \A u \in Users : state'[u] = IF u = t THEN "Blocked" ELSE state[u]
      /\ \A u \in Users : pc'[u] = IF u = t THEN "trigger" ELSE pc[u]
  BY ParksInv, KernelConstants DEF TakeBlocks, Parks, SemInv
<1>3. /\ waiters' \in [Sems -> Seq(Users)]
      /\ \A r \in Sems \ {s} : waiters'[r] = waiters[r]
      /\ Waiting(s)' = Waiting(s) \cup {t}
      /\ IsInjective(waiters'[s])
  <2>1. waiters[s] \in Seq(Users) /\ IsInjective(waiters[s]) /\ t \notin ToSet(waiters[s])
    BY <1>1 DEF SemInv, TypeOK, BlockedExactlyWaiting, Waiting
  <2>2. /\ Cons(t, waiters[s]) \in Seq(Users)
        /\ ToSet(Cons(t, waiters[s])) = ToSet(waiters[s]) \cup {t}
        /\ IsInjective(Cons(t, waiters[s]))
    BY <2>1, PushedList
  <2>3. waiters' = [waiters EXCEPT ![s] = Cons(t, waiters[s])]
    BY DEF TakeBlocks
  <2> QED
    BY <2>2, <2>3 DEF SemInv, TypeOK, Waiting
<1>4. /\ taking' \in [Users -> SUBSET Sems]
      /\ \A u \in Users : taking'[u] = IF u = t THEN {s} ELSE taking[u]
      /\ count' = count /\ count[s] = 0
  BY DEF TakeBlocks, SemInv, TypeOK
<1>5. TypeOK'
  BY <1>2, <1>3, <1>4 DEF SemInv, TypeOK, KernelInv
<1>6. NoTokenWhileWaiting' /\ OneTakeUnderWay'
  <2>1. NoTokenWhileWaiting'
    BY <1>3, <1>4 DEF SemInv, NoTokenWhileWaiting
  <2>2. OneTakeUnderWay'
    BY <1>2, <1>4 DEF SemInv, OneTakeUnderWay
  <2> QED
    BY <2>1, <2>2
<1>7. BlockedExactlyWaiting'
  <2>1. ASSUME NEW u \in Users, NEW r \in Sems
        PROVE  (u \in Waiting(r) <=> state[u] = "Blocked" /\ r \in taking[u])'
    <3>1. (u \in Waiting(r))' <=> u \in Waiting(r) \/ (u = t /\ r = s)
      BY <1>3 DEF Waiting
    <3>2. u \in Waiting(r) <=> state[u] = "Blocked" /\ r \in taking[u]
      BY DEF SemInv, BlockedExactlyWaiting
    <3> QED
      BY <1>1, <1>2, <1>4, <3>1, <3>2
  <2>2. (\A u \in Users : state[u] = "Blocked" => taking[u] # {})'
    BY <1>2, <1>4 DEF SemInv, BlockedExactlyWaiting
  <2>3. (\A r \in Sems : IsInjective(waiters[r]))'
    BY <1>3 DEF SemInv, BlockedExactlyWaiting
  <2> QED
    BY <2>1, <2>2, <2>3 DEF BlockedExactlyWaiting
<1> QED
  BY <1>2, <1>5, <1>6, <1>7 DEF SemInv

\* What give does to the lists: u leaves the one of s, where it waited, and the
\* bag of s is empty.
LEMMA WokenTaker ==
    ASSUME SemInv, NEW s \in Sems, NEW u \in Users, Wakes(s, u)
    PROVE  /\ Unblock(u)
           /\ state[u] = "Blocked" /\ taking[u] = {s}
           /\ count[s] = 0
           /\ waiters' \in [Sems -> Seq(Users)]
           /\ \A r \in Sems \ {s} : waiters'[r] = waiters[r]
           /\ Waiting(s)' = Waiting(s) \ {u}
           /\ IsInjective(waiters'[s])
<1>1. PICK i \in DOMAIN waiters[s] :
         /\ u = waiters[s][i]
         /\ waiters' = [waiters EXCEPT ![s] = RemoveAt(waiters[s], i)]
         /\ Unblock(u)
  BY DEF Wakes, Popped
<1>2. waiters[s] \in Seq(Users) /\ IsInjective(waiters[s])
  BY DEF SemInv, TypeOK, BlockedExactlyWaiting
<1>3. u \in Waiting(s) /\ waiters[s] # <<>>
  BY <1>1, <1>2 DEF Waiting, ToSet
<1>4. state[u] = "Blocked" /\ taking[u] = {s} /\ count[s] = 0
  BY <1>3 DEF SemInv, TypeOK, BlockedExactlyWaiting, NoTokenWhileWaiting, OneTakeUnderWay
<1>5. /\ RemoveAt(waiters[s], i) \in Seq(Users)
      /\ ToSet(RemoveAt(waiters[s], i)) = Waiting(s) \ {u}
      /\ IsInjective(RemoveAt(waiters[s], i))
  BY <1>1, <1>2, PoppedList DEF Waiting
<1> QED
  BY <1>1, <1>4, <1>5 DEF SemInv, TypeOK, Waiting

LEMMA WakesSem ==
    ASSUME SemInv, NEW s \in Sems, NEW u \in Users, Wakes(s, u),
           UNCHANGED <<count, taking>>, KernelInv',
           \A t \in Users : taking[t] # {} => pc'[t] \in {"trigger", "return"}
    PROVE  SemInv'
<1>1. /\ Unblock(u)
      /\ state[u] = "Blocked" /\ taking[u] = {s}
      /\ waiters' \in [Sems -> Seq(Users)]
      /\ \A r \in Sems \ {s} : waiters'[r] = waiters[r]
      /\ Waiting(s)' = Waiting(s) \ {u}
      /\ IsInjective(waiters'[s])
      /\ count[s] = 0
  BY WokenTaker
<1>2. \A t \in Users : state'[t] = IF t = u THEN "Ready" ELSE state[t]
  BY <1>1, UnblockedStates, KernelConstants DEF SemInv
<1>3. TypeOK'
  BY <1>1 DEF SemInv, TypeOK, KernelInv
<1>4. NoTokenWhileWaiting' /\ OneTakeUnderWay'
  BY <1>1 DEF SemInv, NoTokenWhileWaiting, OneTakeUnderWay
<1>5. BlockedExactlyWaiting'
  <2>1. ASSUME NEW t \in Users, NEW r \in Sems
        PROVE  (t \in Waiting(r) <=> state[t] = "Blocked" /\ r \in taking[t])'
    <3>1. (t \in Waiting(r))' <=> t \in Waiting(r) /\ ~(t = u /\ r = s)
      BY <1>1 DEF Waiting
    <3>2. t \in Waiting(r) <=> state[t] = "Blocked" /\ r \in taking[t]
      BY DEF SemInv, BlockedExactlyWaiting
    <3> QED
      BY <1>1, <1>2, <3>1, <3>2
  <2>2. (\A t \in Users : state[t] = "Blocked" => taking[t] # {})'
    BY <1>2 DEF SemInv, BlockedExactlyWaiting
  <2>3. (\A r \in Sems : IsInjective(waiters[r]))'
    BY <1>1 DEF SemInv, BlockedExactlyWaiting
  <2> QED
    BY <2>1, <2>2, <2>3 DEF BlockedExactlyWaiting
<1> QED
  BY <1>3, <1>4, <1>5 DEF SemInv

LEMMA GiveSem ==
    ASSUME SemInv, NEW t \in Users, NEW s \in Sems, Give(t, s)
    PROVE  SemInv'
<1>1. CASE GiveCounts(s)
  BY <1>1, GiveCountsSem
<1>2. ASSUME NEW u \in Users, Wakes(s, u), PreemptFor(t, u, priority[t]),
             UNCHANGED <<current, left, priority, pendsv, seen, count, taking>>
      PROVE  SemInv'
  <2>1. TaskWakes(t, u) /\ state[u] = "Blocked" /\ taking[t] = {}
    BY <1>2, WokenTaker, CallerIsFree DEF Give, TaskWakes
  <2>2. KernelInv' /\ \A v \in Users : v # t => pc'[v] = pc[v]
    BY <2>1, TaskWakesInv, KernelConstants DEF SemInv
  <2> QED
    BY <1>2, <2>1, <2>2, WakesSem DEF SemInv, OneTakeUnderWay
<1> QED
  BY <1>1, <1>2 DEF Give

LEMMA IsrGiveSem ==
    ASSUME SemInv, NEW s \in Sems, IsrGive(s)
    PROVE  SemInv'
<1>1. CASE GiveCounts(s)
  BY <1>1, GiveCountsSem
<1>2. ASSUME NEW u \in Users, Wakes(s, u), pendsv' = (pendsv \/ Outranks(u, current)),
             UNCHANGED <<current, left, priority, seen, pc, count, taking>>
      PROVE  SemInv'
  <2>1. IsrWakes(u) /\ state[u] = "Blocked"
    BY <1>2, WokenTaker DEF IsrWakes
  <2>2. KernelInv'
    BY <2>1, IsrWakesInv DEF SemInv
  <2> QED
    BY <1>2, <2>2, WakesSem DEF SemInv, OneTakeUnderWay
<1> QED
  BY <1>1, <1>2 DEF IsrGive

LEMMA CallReturnsSem ==
    ASSUME SemInv, NEW t \in Users, CallReturns(t)
    PROVE  SemInv'
<1>1. t \in Tasks /\ state[t] = "Running"
  BY KernelConstants, ThreadRuns DEF SemInv, KernelInv, CallReturns, Return
<1>2. KernelInv'
  BY ExitReturnInv DEF SemInv, CallReturns
<1>3. TypeOK'
  BY <1>2 DEF CallReturns, SemInv, TypeOK, KernelInv
<1>4. NoTokenWhileWaiting' /\ OneTakeUnderWay'
  BY <1>1 DEF CallReturns, Return, SemInv, TypeOK, KernelTypeOK, NoTokenWhileWaiting,
              OneTakeUnderWay
<1>5. BlockedExactlyWaiting'
  BY <1>1 DEF CallReturns, Return, SemInv, TypeOK, BlockedExactlyWaiting, Waiting
<1> QED
  BY <1>2, <1>3, <1>4, <1>5 DEF SemInv

LEMMA NextSem ==
    ASSUME SemInv, [Next]_vars
    PROVE  SemInv'
<1>1. CASE UNCHANGED vars
  BY <1>1, QuietStepSem, StutterInv DEF vars, kernelVars, SemInv
<1>2. CASE KernelStep /\ UNCHANGED semVars
  BY <1>2, KernelStepInv, KernelStepKeepsBlocked, QuietStepSem DEF SemInv, KernelInv
<1>3. ASSUME NEW t \in Users, TaskExits(t)
      PROVE  SemInv'
  <2>1. state[t] = "Running" /\ t \in Tasks
    BY <1>3, CallerIsFree DEF TaskExits, Exit
  <2>2. /\ state' = [state EXCEPT ![t] = "Dead"]
        /\ pc' = [pc EXCEPT ![t] = "trigger"]
    BY <1>3 DEF TaskExits, Exit, LeaveRunning
  <2>3. \A u \in Users :
           /\ state'[u] = "Blocked" <=> state[u] = "Blocked"
           /\ pc[u] \in {"trigger", "return"} => pc'[u] \in {"trigger", "return"}
    BY <2>1, <2>2, KernelConstants DEF SemInv, KernelInv, KernelTypeOK
  <2> QED
    BY <1>3, <2>3, ExitReturnInv, QuietStepSem DEF TaskExits, SemInv
<1>4. ASSUME NEW t \in Users, NEW s \in Sems, TakeNow(t, s) \/ TakeBlocks(t, s) \/ Give(t, s)
      PROVE  SemInv'
  BY <1>4, TokenTakenSem, TakeBlocksSem, GiveSem DEF TakeNow
<1>5. ASSUME NEW s \in Sems, IsrGive(s) \/ IsrTryTake(s)
      PROVE  SemInv'
  BY <1>5, IsrGiveSem, TokenTakenSem DEF IsrTryTake
<1> QED
  BY <1>1, <1>2, <1>3, <1>4, <1>5, CallReturnsSem DEF Next, TaskStep

LEMMA SemInvHolds == Spec => []SemInv
<1>1. Init => SemInv
  BY InitSem
<1>2. SemInv /\ [Next]_vars => SemInv'
  BY NextSem
<1> QED
  BY <1>1, <1>2, PTL DEF Spec

\* Types, and no taker is lost: however tasks and handlers give and take, a task is
\* Blocked exactly while it is in the list of the semaphore it takes, once.
THEOREM NoTakerIsLost == Spec => []Consistent
<1>1. SemInv => Consistent
  BY DEF SemInv, Consistent
<1> QED
  BY <1>1, SemInvHolds, PTL

\* No task ever waits beside a token.
THEOREM TokensAreHandedOver == Spec => []NoTokenWhileWaiting
<1>1. SemInv => NoTokenWhileWaiting
  BY DEF SemInv
<1> QED
  BY <1>1, SemInvHolds, PTL

-----------------------------------------------------------------------------
(***************************************************************************)
(* Preemptions.                                                            *)
(***************************************************************************)

LEMMA StepKeepsPreemptions ==
    ASSUME SemInv, [Next]_vars, PreemptionPending,
           ~(PendSVSwitch /\ seen # ReadyIn(state))
    PROVE  PreemptionPending'
<1>1. CASE UNCHANGED kernelVars
  BY <1>1 DEF kernelVars, PreemptionPending, SwitchUnderWay, Outranks
<1>2. CASE KernelStep
  BY <1>2, KernelStepPreempts DEF SemInv, KernelInv
<1>3. ASSUME NEW t \in Users, TaskExits(t) \/ CallReturns(t)
      PROVE  PreemptionPending'
  BY <1>3, ExitReturnPreempts DEF TaskExits, CallReturns, SemInv, KernelInv
<1>4. ASSUME NEW t \in Users, NEW s \in Sems, TakeBlocks(t, s)
      PROVE  PreemptionPending'
  BY <1>4, ParksPreempts DEF TakeBlocks, Parks, SemInv
<1>5. ASSUME NEW t \in Users, NEW s \in Sems, NEW u \in Users, Wakes(s, u), Calls(t),
             PreemptFor(t, u, priority[t]),
             UNCHANGED <<current, left, priority, pendsv, seen, count, taking>>
      PROVE  PreemptionPending'
  <2>1. TaskWakes(t, u)
    BY <1>5, WokenTaker DEF TaskWakes
  <2> QED
    BY <2>1, WakingPreempts DEF SemInv
<1>6. ASSUME NEW s \in Sems, NEW u \in Users, Wakes(s, u),
             pendsv' = (pendsv \/ Outranks(u, current)),
             UNCHANGED <<current, left, priority, seen, pc, count, taking>>
      PROVE  PreemptionPending'
  <2>1. IsrWakes(u)
    BY <1>6, WokenTaker DEF IsrWakes
  <2> QED
    BY <2>1, WakingPreempts DEF SemInv
<1>7. \A s \in Sems : TokenTaken(s) \/ GiveCounts(s) => UNCHANGED kernelVars
  BY DEF TokenTaken, GiveCounts
<1> QED
  BY <1>1, <1>2, <1>3, <1>4, <1>5, <1>6, <1>7
     DEF Next, TaskStep, TakeNow, Give, IsrGive, IsrTryTake, vars

\* With interrupt handlers that wake tasks, a preemption is forgotten only by a
\* PendSV such a handler preempted, until the next tick that finds a task running.
THEOREM PreemptionsAreKept == Spec => PreemptionsKept
<1>1. ASSUME SemInv, [Next]_vars
      PROVE  [ /\ PreemptionPending /\ ~PreemptionPending'
                     => PendSVSwitch /\ seen # ReadyIn(state)
               /\ TickRunning => PreemptionPending' ]_kernelVars
  BY <1>1, StepKeepsPreemptions, TickPreempts
<1> QED
  BY <1>1, SemInvHolds, PTL DEF Spec, PreemptionsKept

-----------------------------------------------------------------------------
(***************************************************************************)
(* Semaphore implements Tokens.  A waiter is promised a token when it is   *)
(* woken; the bag is empty then because of NoTokenWhileWaiting.            *)
(***************************************************************************)
Promised == [t \in Users |-> IF state[t] = "Blocked" THEN {} ELSE taking[t]]

LEMMA UnchangedBag ==
    ASSUME UNCHANGED <<count, Promised>>
    PROVE  UNCHANGED Bag!vars
BY DEF Bag!vars, Promised

LEMMA TokenTakenTokens ==
    ASSUME SemInv, NEW s \in Sems, TokenTaken(s)
    PROVE  Bag!Take(s)
BY DEF TokenTaken, Bag!Take, kernelVars

LEMMA GiveCountsTokens ==
    ASSUME SemInv, NEW s \in Sems, GiveCounts(s)
    PROVE  Bag!Give(s) \/ UNCHANGED Bag!vars
<1>1. Promised' = Promised
  BY DEF GiveCounts, Promised, kernelVars
<1>2. CASE count[s] < MaxCount[s]
  BY <1>2 DEF GiveCounts, Kept, Bag!Give, kernelVars
<1>3. CASE ~(count[s] < MaxCount[s])
  <2>1. count' = count
    BY <1>3 DEF GiveCounts, Kept, SemInv, TypeOK
  <2> QED
    BY <1>1, <2>1, UnchangedBag
<1> QED
  BY <1>2, <1>3

LEMMA WakesTokens ==
    ASSUME SemInv, NEW s \in Sems, NEW u \in Users, Wakes(s, u), UNCHANGED <<count, taking>>
    PROVE  Bag!Promise(u, s)
<1>1. Unblock(u) /\ state[u] = "Blocked" /\ taking[u] = {s} /\ count[s] = 0
  BY WokenTaker
<1>2. \A t \in Users : state'[t] = IF t = u THEN "Ready" ELSE state[t]
  BY <1>1, UnblockedStates, KernelConstants DEF SemInv
<1>3. Promised' = [Promised EXCEPT ![u] = {s}] /\ Promised[u] = {}
  BY <1>1, <1>2 DEF Promised
<1> QED
  BY <1>1, <1>3 DEF Bag!Promise, Promised

LEMMA StepImplementsTokens ==
    ASSUME SemInv, [Next]_vars
    PROVE  [Bag!Next]_(Bag!vars)
<1>1. CASE UNCHANGED vars
  BY <1>1, UnchangedBag DEF vars, kernelVars, semVars, Promised
<1>2. CASE KernelStep /\ UNCHANGED semVars
  <2>1. \A t \in Users : state'[t] = "Blocked" <=> state[t] = "Blocked"
    BY <1>2, KernelStepKeepsBlocked DEF SemInv, KernelInv
  <2> QED
    BY <1>2, <2>1, UnchangedBag DEF semVars, Promised
<1>3. ASSUME NEW t \in Users, TaskExits(t)
      PROVE  UNCHANGED Bag!vars
  <2>1. taking[t] = {}
    BY <1>3, CallerIsFree DEF TaskExits, Exit
  <2>2. \A u \in Users : u # t => state'[u] = state[u]
    BY <1>3, KernelConstants DEF TaskExits, Exit, LeaveRunning, SemInv, KernelInv, KernelTypeOK
  <2>3. count' = count /\ taking' = taking
    BY <1>3 DEF TaskExits, semVars
  <2> QED
    BY <2>1, <2>2, <2>3, UnchangedBag DEF Promised
<1>4. ASSUME NEW t \in Users, NEW s \in Sems, TakeBlocks(t, s)
      PROVE  UNCHANGED Bag!vars
  <2>1. taking[t] = {} /\ t \in Tasks
    BY <1>4, CallerIsFree DEF TakeBlocks
  <2>2. \A u \in Users : state'[u] = IF u = t THEN "Blocked" ELSE state[u]
    BY <1>4, KernelConstants DEF TakeBlocks, LeaveRunning, SemInv, KernelInv, KernelTypeOK
  <2>3. count' = count /\ \A u \in Users : u # t => taking'[u] = taking[u]
    BY <1>4 DEF TakeBlocks, SemInv, TypeOK
  <2> QED
    BY <2>1, <2>2, <2>3, UnchangedBag DEF Promised
<1>5. ASSUME NEW t \in Users, CallReturns(t)
      PROVE  Bag!Collect(t)
  <2>1. state' = state /\ count' = count /\ taking' = [taking EXCEPT ![t] = {}]
    BY <1>5 DEF CallReturns, Return
  <2> QED
    BY <2>1 DEF Bag!Collect, SemInv, TypeOK
<1>6. ASSUME NEW s \in Sems, NEW u \in Users, Wakes(s, u), UNCHANGED <<count, taking>>
      PROVE  Bag!Promise(u, s)
  BY <1>6, WakesTokens
<1> QED
  BY <1>1, <1>2, <1>3, <1>4, <1>5, <1>6, TokenTakenTokens, GiveCountsTokens
     DEF Next, TaskStep, TakeNow, Give, IsrGive, IsrTryTake, Bag!Next

\* A semaphore is a bounded bag of tokens, and one on its way to a task that was
\* woken is nobody else's.
THEOREM SemaphoreImplementsTokens == Spec => ImplementsTokens
<1>1. Init => Bag!Init
  BY DEF Init, Bag!Init
<1>2. SemInv /\ [Next]_vars => [Bag!Next]_(Bag!vars)
  BY StepImplementsTokens
<1> QED
  BY <1>1, <1>2, SemInvHolds, PTL DEF Spec, ImplementsTokens, Bag!Spec
=============================================================================
