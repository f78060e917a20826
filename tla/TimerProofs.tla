---------------------------- MODULE TimerProofs ----------------------------
(***************************************************************************)
(* Timer, for every number of tasks, every modulus and horizon, and all    *)
(* durations and periods.                                                  *)
(***************************************************************************)
EXTENDS Timer, KernelProofs

\* While a task sleeps, or is about to, left is the distance of its deadline.
LeftIsAhead ==
    \A t \in Users :
        pc[t] = "sleep_until" \/ state[t] = "Sleeping" => left[t] = Ahead(deadline[t])

\* What a timer, and a call, stands for is its word, unless that has wrapped.
NextIsDue == \A t \in Users : due[t] < Modulus => next[t] = due[t]

DeadlineIsDue ==
    \A t \in Users : call[t] # NoCall /\ call[t].due < Modulus => deadline[t] = call[t].due

\* A task is in a call exactly while it is not in its own code; and it is on its
\* way to sleep, asleep, or its deadline has come since it called.
CallPhases ==
    \A t \in Users :
        /\ pc[t] = "user" <=> call[t] = NoCall
        /\ state[t] = "Sleeping" => pc[t] \in {"trigger", "return"}
        /\ call[t] # NoCall => call[t].since <= tick
        /\ pc[t] \in {"trigger", "return"} /\ state[t] # "Sleeping"
              => tick > call[t].since /\ tick >= deadline[t]

\* The inductive invariant behind every theorem of this module.
TimerInv ==
    /\ TypeOK
    /\ RunsOnlyWhenRunning
    /\ LeftIsAhead
    /\ NextIsDue
    /\ DeadlineIsDue
    /\ CallPhases

\* Wrapping, as far as the proofs need it.
LEMMA WrappedWords ==
    ASSUME NEW n \in Nat
    PROVE  /\ Wrapped(n) \in 0 .. Modulus - 1
           /\ n < Modulus => Wrapped(n) = n
<1>1. Modulus \in Nat \ {0}
  BY TimerAssumption
<1> QED
  BY <1>1, SMT DEF Wrapped

LEMMA InitTimer == ASSUME Init PROVE TimerInv
<1>1. KernelTypeOK /\ RunsOnlyWhenRunning
  BY KernelInitType DEF Init, KernelInit, RunsOnlyWhenRunning
<1>2. TypeOK
  <2>1. 0 \in 0 .. Horizon /\ 0 \in 0 .. Modulus - 1 /\ Modulus \in 0 .. Modulus
    BY TimerAssumption
  <2> QED
    BY <1>1, <2>1 DEF Init, TypeOK, OneShot, NoCall
<1>3. LeftIsAhead /\ NextIsDue /\ DeadlineIsDue /\ CallPhases
  BY KernelConstants
     DEF Init, KernelInit, LeftIsAhead, NextIsDue, DeadlineIsDue, CallPhases, NoCall
<1> QED
  BY <1>1, <1>2, <1>3 DEF TimerInv

-----------------------------------------------------------------------------
LEMMA TickTimer == ASSUME TimerInv, Tick PROVE TimerInv'
<1> USE KernelConstants
<1>1. KernelTypeOK' /\ RunsOnlyWhenRunning'
  BY KernelStepType, KernelStepRuns DEF Tick, KernelStep, TimerInv, TypeOK
<1>2. /\ tick' = tick + 1 /\ tick < Horizon /\ tick \in Nat /\ tick' \in 0 .. Horizon
      /\ UNCHANGED <<deadline, next, period, due, call>>
  BY TimerAssumption DEF Tick, TimerInv, TypeOK
<1>3. TypeOK'
  BY <1>1, <1>2 DEF TimerInv, TypeOK
<1>4. /\ pc' = pc
      /\ \A t \in Users : left'[t] = IF left[t] > 0 THEN left[t] - 1 ELSE 0
      /\ \A t \in Users :
            state'[t] = state[t] \/ (state[t] = "Sleeping" /\ left'[t] = 0)
  BY DEF Tick, SysTick, TickIgnored, TickRunning, Elapsed, WithWoken, DueNow
<1>5. \A t \in Users : deadline[t] \in Nat /\ left[t] \in Nat
  BY TimerAssumption DEF TimerInv, TypeOK, KernelTypeOK
<1>6. LeftIsAhead'
  <2> SUFFICES ASSUME NEW t \in Users, pc'[t] = "sleep_until" \/ state'[t] = "Sleeping"
               PROVE  left'[t] = Ahead(deadline[t])'
    BY DEF LeftIsAhead
  <2>1. pc[t] = "sleep_until" \/ state[t] = "Sleeping"
    BY <1>4
  <2>2. left[t] = Ahead(deadline[t])
    BY <2>1 DEF TimerInv, LeftIsAhead
  <2> QED
    BY <1>2, <1>4, <1>5, <2>2 DEF Ahead
<1>7. NextIsDue' /\ DeadlineIsDue'
  BY <1>2 DEF TimerInv, NextIsDue, DeadlineIsDue
<1>8. CallPhases'
  <2> SUFFICES ASSUME NEW t \in Users
               PROVE  (/\ pc[t] = "user" <=> call[t] = NoCall
                       /\ state[t] = "Sleeping" => pc[t] \in {"trigger", "return"}
                       /\ call[t] # NoCall => call[t].since <= tick
                       /\ pc[t] \in {"trigger", "return"} /\ state[t] # "Sleeping"
                             => tick > call[t].since /\ tick >= deadline[t])'
    BY DEF CallPhases
  <2>1. /\ pc[t] = "user" <=> call[t] = NoCall
        /\ state[t] = "Sleeping" => pc[t] \in {"trigger", "return"}
        /\ call[t] # NoCall => call[t].since <= tick
        /\ pc[t] \in {"trigger", "return"} /\ state[t] # "Sleeping"
              => tick > call[t].since /\ tick >= deadline[t]
    BY DEF TimerInv, CallPhases
  <2>2. call[t].since \in Nat
    BY DEF TimerInv, TypeOK
  <2>3. CASE state[t] = "Sleeping" /\ left'[t] = 0
    <3>1. left'[t] = IF deadline[t] > tick THEN deadline[t] - tick - 1 ELSE 0
      BY <1>2, <1>4, <1>5, <2>3 DEF TimerInv, LeftIsAhead, Ahead
    <3>2. tick' >= deadline[t]
      BY <1>2, <1>5, <2>3, <3>1
    <3> QED
      BY <1>2, <1>4, <2>1, <2>2, <2>3, <3>2
  <2>4. CASE state'[t] = state[t]
    BY <1>2, <1>4, <1>5, <2>1, <2>2, <2>4
  <2> QED
    BY <1>4, <2>3, <2>4
<1> QED
  BY <1>1, <1>3, <1>6, <1>7, <1>8 DEF TimerInv

\* Steps of the kernel that take no time, SleepUntil among them.
LEMMA TimelessTimer ==
    ASSUME TimerInv, UNCHANGED timeVars,
           Launch \/ PendSV \/ \E t \in Users : SleepUntil(t) \/ Trigger(t)
    PROVE  TimerInv'
<1> USE KernelConstants
<1>1. KernelTypeOK' /\ RunsOnlyWhenRunning'
  BY KernelStepType, KernelStepRuns DEF KernelStep, TimerInv, TypeOK
<1>2. TypeOK'
  BY <1>1 DEF TimerInv, TypeOK, timeVars
<1>3. NextIsDue' /\ DeadlineIsDue'
  BY DEF TimerInv, NextIsDue, DeadlineIsDue, timeVars
<1>4. CASE Launch \/ PendSV
  <2>1. /\ pc' = pc /\ left' = left
        /\ \A t \in Users : state'[t] = "Sleeping" <=> state[t] = "Sleeping"
    BY <1>4
       DEF Launch, IsFirst, PendSV, PendSVEnter, PendSVSwitch, SwitchedOut, IsNext, ReadyIn,
           TimerInv, TypeOK, KernelTypeOK
  <2> QED
    BY <1>1, <1>2, <1>3, <2>1 DEF TimerInv, LeftIsAhead, Ahead, CallPhases, timeVars
<1>5. ASSUME NEW t \in Users, SleepUntil(t)
      PROVE  TimerInv'
  <2>1. /\ pc[t] = "sleep_until" /\ left' = left
        /\ \A u \in Users : state'[u] = IF u = t THEN "Sleeping" ELSE state[u]
        /\ \A u \in Users : pc'[u] = IF u = t THEN "trigger" ELSE pc[u]
    BY <1>5 DEF SleepUntil, LeaveRunning, TimerInv, TypeOK, KernelTypeOK
  <2> QED
    BY <1>1, <1>2, <1>3, <2>1 DEF TimerInv, LeftIsAhead, Ahead, CallPhases, timeVars
<1>6. ASSUME NEW t \in Users, Trigger(t)
      PROVE  TimerInv'
  <2>1. /\ pc[t] = "trigger" /\ left' = left /\ state' = state
        /\ \A u \in Users : pc'[u] = IF u = t THEN "return" ELSE pc[u]
    BY <1>6 DEF Trigger, TimerInv, TypeOK, KernelTypeOK
  <2> QED
    BY <1>1, <1>2, <1>3, <2>1 DEF TimerInv, LeftIsAhead, Ahead, CallPhases, timeVars
<1> QED
  BY <1>4, <1>5, <1>6

\* What sleep and wait have in common: t aims at a word that stands for `when'.
LEMMA AimsTimer ==
    ASSUME TimerInv, NEW t \in Users, NEW what \in {"sleep", "wait"},
           NEW at \in 0 .. Modulus - 1, NEW when \in Nat,
           when < Modulus => at = when,
           Calls(t), Aims(t, what, at, when), KernelTypeOK', RunsOnlyWhenRunning',
           \A u \in Users : u # t => state'[u] = state[u] /\ pc'[u] = pc[u],
           \/ pc'[t] = "sleep_until" /\ state'[t] # "Sleeping"
           \/ pc'[t] = "trigger" /\ state'[t] = "Sleeping"
    PROVE  TimerInv'
<1> USE KernelConstants
<1>1. tick \in 0 .. Horizon /\ tick \in Nat
  BY TimerAssumption DEF TimerInv, TypeOK
<1>2. /\ UNCHANGED <<tick, next, period, due>>
      /\ \A u \in Users : u # t => /\ deadline'[u] = deadline[u]
                                   /\ left'[u] = left[u]
                                   /\ call'[u] = call[u]
      /\ deadline'[t] = at
      /\ left'[t] = Ahead(at)
      /\ call'[t] = [what |-> what, since |-> tick, due |-> when]
      /\ deadline' \in [Users -> 0 .. Modulus - 1]
      /\ call' \in [Users -> [what : {"none", "sleep", "wait"}, since : 0 .. Horizon, due : Nat]]
  BY <1>1 DEF Aims, TimerInv, TypeOK, KernelTypeOK
<1>3. call'[t] # NoCall /\ call'[t].since = tick /\ call'[t].due = when
  BY <1>2 DEF NoCall
<1>4. TypeOK'
  BY <1>2 DEF TimerInv, TypeOK
<1>5. LeftIsAhead'
  BY <1>2 DEF TimerInv, LeftIsAhead, Ahead
<1>6. NextIsDue' /\ DeadlineIsDue'
  BY <1>2, <1>3 DEF TimerInv, NextIsDue, DeadlineIsDue
<1>7. CallPhases'
  BY <1>1, <1>2, <1>3 DEF TimerInv, CallPhases
<1> QED
  BY <1>4, <1>5, <1>6, <1>7 DEF TimerInv

LEMMA SleepForTimer ==
    ASSUME TimerInv, NEW t \in Users, NEW d \in Delays, SleepFor(t, d)
    PROVE  TimerInv'
<1> USE KernelConstants
<1>1. tick + d \in Nat
  BY TimerAssumption DEF TimerInv, TypeOK
<1>2. /\ Wrapped(tick + d) \in 0 .. Modulus - 1
      /\ tick + d < Modulus => Wrapped(tick + d) = tick + d
  BY <1>1, WrappedWords
<1>3. state[t] = "Running"
  BY ThreadRuns DEF SleepFor, Calls, TimerInv
<1>4. /\ pc' \in [Tasks -> Points]
      /\ \A u \in Tasks : pc'[u] = IF u = t THEN "sleep_until" ELSE pc[u]
      /\ UNCHANGED <<current, state, slice, priority, pendsv, seen>>
      /\ current = t
  BY DEF SleepFor, Calls, Thread, TimerInv, TypeOK, KernelTypeOK, Points
<1>5. left' \in [Tasks -> Nat]
  <2>1. Ahead(Wrapped(tick + d)) \in Nat
    BY <1>2, TimerAssumption DEF Ahead, TimerInv, TypeOK
  <2>2. left' = [left EXCEPT ![t] = Ahead(Wrapped(tick + d))]
    BY DEF SleepFor, Aims
  <2> QED
    BY <2>1, <2>2 DEF TimerInv, TypeOK, KernelTypeOK
<1>6. KernelTypeOK' /\ RunsOnlyWhenRunning'
  BY <1>3, <1>4, <1>5 DEF TimerInv, TypeOK, KernelTypeOK, RunsOnlyWhenRunning
<1> QED
  BY <1>1, <1>2, <1>3, <1>4, <1>6, AimsTimer DEF SleepFor

LEMMA WaitTimer ==
    ASSUME TimerInv, NEW t \in Users, Wait(t)
    PROVE  TimerInv'
<1> USE KernelConstants
<1>1. /\ next[t] \in 0 .. Modulus - 1 /\ due[t] \in Nat
      /\ due[t] < Modulus => next[t] = due[t]
  BY DEF TimerInv, TypeOK, NextIsDue
<1>3. state[t] = "Running" /\ current = t
  BY ThreadRuns DEF Wait, Calls, Thread, TimerInv
<1>4. /\ pc' \in [Tasks -> Points]
      /\ state' \in [Tasks -> TaskStates]
      /\ slice' \in [Tasks -> 0 .. 255]
      /\ \A u \in Tasks : pc'[u] = IF u = t THEN "trigger" ELSE pc[u]
      /\ \A u \in Tasks : state'[u] = IF u = t THEN "Sleeping" ELSE state[u]
      /\ UNCHANGED <<current, priority, pendsv, seen>>
  BY DEF Wait, LeaveRunning, TimerInv, TypeOK, KernelTypeOK, Points, TaskStates
<1>5. left' \in [Tasks -> Nat]
  <2>1. Ahead(next[t]) \in Nat
    BY <1>1, TimerAssumption DEF Ahead, TimerInv, TypeOK
  <2>2. left' = [left EXCEPT ![t] = Ahead(next[t])]
    BY DEF Wait, Aims
  <2> QED
    BY <2>1, <2>2 DEF TimerInv, TypeOK, KernelTypeOK
<1>6. KernelTypeOK'
  BY <1>3, <1>4, <1>5 DEF TimerInv, TypeOK, KernelTypeOK
<1>7. RunsOnlyWhenRunning'
  BY <1>3, <1>4 DEF TimerInv, TypeOK, KernelTypeOK, RunsOnlyWhenRunning
<1> QED
  BY <1>1, <1>4, <1>6, <1>7, AimsTimer DEF Wait

LEMMA NewTimerTimer ==
    ASSUME TimerInv, NEW t \in Users, NEW d \in 0 .. Modulus - 1,
           NEW p \in 0 .. Modulus, NewTimer(t, d, p)
    PROVE  TimerInv'
<1>1. tick + d \in Nat
  BY TimerAssumption DEF TimerInv, TypeOK
<1>2. /\ Wrapped(tick + d) \in 0 .. Modulus - 1
      /\ tick + d < Modulus => Wrapped(tick + d) = tick + d
  BY <1>1, WrappedWords
<1>3. TypeOK' /\ RunsOnlyWhenRunning'
  BY <1>1, <1>2
     DEF NewTimer, kernelVars, TimerInv, TypeOK, KernelTypeOK, RunsOnlyWhenRunning
<1>4. NextIsDue'
  BY <1>2 DEF NewTimer, TimerInv, TypeOK, NextIsDue
<1>5. LeftIsAhead' /\ DeadlineIsDue' /\ CallPhases'
  BY DEF NewTimer, kernelVars, TimerInv, LeftIsAhead, Ahead, DeadlineIsDue, CallPhases
<1> QED
  BY <1>3, <1>4, <1>5 DEF TimerInv

LEMMA CallReturnsTimer ==
    ASSUME TimerInv, NEW t \in Users, CallReturns(t)
    PROVE  TimerInv'
<1> USE KernelConstants
<1>1. KernelTypeOK' /\ RunsOnlyWhenRunning'
  BY ReturnType, ExitReturnRuns DEF CallReturns, TimerInv, TypeOK
<1>2. next[t] + period[t] \in Nat /\ due[t] + period[t] \in Nat
  BY TimerAssumption DEF TimerInv, TypeOK
<1>3. /\ Advanced(t) \in 0 .. Modulus - 1
      /\ next[t] + period[t] < Modulus => Advanced(t) = next[t] + period[t]
  BY <1>2, WrappedWords DEF Advanced
<1>4. TypeOK' /\ NextIsDue'
  <2>1. CASE next' = [next EXCEPT ![t] = Advanced(t)] /\ due' = [due EXCEPT ![t] = @ + period[t]]
    <3>1. TypeOK'
      BY <1>1, <1>2, <1>3, <2>1, TimerAssumption DEF CallReturns, TimerInv, TypeOK, NoCall
    <3>2. due[t] \in Nat /\ period[t] \in Nat
      BY TimerAssumption DEF TimerInv, TypeOK
    <3>3. due'[t] < Modulus => next'[t] = due'[t]
      BY <1>3, <2>1, <3>2, TimerAssumption DEF TimerInv, TypeOK, NextIsDue
    <3> QED
      BY <2>1, <3>1, <3>3 DEF TimerInv, TypeOK, NextIsDue
  <2>2. CASE UNCHANGED <<next, due>>
    BY <1>1, <2>2, TimerAssumption DEF CallReturns, TimerInv, TypeOK, NoCall, NextIsDue
  <2> QED
    BY <2>1, <2>2 DEF CallReturns
<1>5. /\ UNCHANGED <<tick, deadline, state, left>>
      /\ \A u \in Users : call'[u] = IF u = t THEN NoCall ELSE call[u]
      /\ \A u \in Users : pc'[u] = IF u = t THEN "user" ELSE pc[u]
      /\ state[t] = "Running"
  BY ThreadRuns DEF CallReturns, Return, TimerInv, TypeOK, KernelTypeOK
<1>6. LeftIsAhead' /\ DeadlineIsDue' /\ CallPhases'
  BY <1>5 DEF TimerInv, LeftIsAhead, Ahead, DeadlineIsDue, CallPhases
<1> QED
  BY <1>1, <1>4, <1>6 DEF TimerInv

LEMMA NextTimer == ASSUME TimerInv, [Next]_vars PROVE TimerInv'
<1>1. CASE UNCHANGED vars
  BY <1>1 DEF vars, kernelVars, timeVars, TimerInv, TypeOK, KernelTypeOK, RunsOnlyWhenRunning,
              LeftIsAhead, Ahead, NextIsDue, DeadlineIsDue, CallPhases
<1>2. ASSUME NEW t \in Users, NEW d \in Delays, After(t, d)
      PROVE  TimerInv'
  BY <1>2, NewTimerTimer, TimerAssumption DEF After, OneShot
<1>3. ASSUME NEW t \in Users, NEW p \in Periods, Every(t, p)
      PROVE  TimerInv'
  BY <1>3, NewTimerTimer, TimerAssumption DEF Every
<1> QED
  BY <1>1, <1>2, <1>3, TickTimer, TimelessTimer, SleepForTimer, WaitTimer, CallReturnsTimer
     DEF Next

LEMMA TimerInvHolds == Spec => []TimerInv
<1>1. Init => TimerInv
  BY InitTimer
<1>2. TimerInv /\ [Next]_vars => TimerInv'
  BY NextTimer
<1> QED
  BY <1>1, <1>2, PTL DEF Spec

-----------------------------------------------------------------------------
\* Types, and the relative time of Kernel is the absolute time of the code: the two
\* tests whether a deadline has come agree at every point of every sleep.
THEOREM TimesAgree == Spec => []TimeAgrees
<1>1. ASSUME TimerInv
      PROVE  TimeAgrees
  <2>1. \A t \in Users : deadline[t] \in Nat /\ tick \in Nat
    BY <1>1, TimerAssumption DEF TimerInv, TypeOK
  <2> QED
    BY <1>1, <2>1 DEF TimerInv, LeftIsAhead, Ahead, TimeAgrees
<1> QED
  BY <1>1, TimerInvHolds, PTL

\* No sleep and no wait returns early, unless its deadline is beyond the range of
\* the counter, and no wait for a periodic timer returns in the tick of the call.
THEOREM NoReturnIsEarly == Spec => ReturnsWhenDue
<1>1. ASSUME TimerInv, [Next]_vars, NEW t \in Users, call[t] # NoCall, call'[t] = NoCall
      PROVE  /\ tick >= call[t].due \/ call[t].due >= Modulus
             /\ call[t].what = "wait" /\ period[t] # OneShot => tick > call[t].since
  <2>1. CallReturns(t)
    <3>1. \A u \in Users : CallReturns(u) => u = t
      BY <1>1 DEF CallReturns, TimerInv, TypeOK
    <3>2. ASSUME NEW u \in Users, NEW what \in {"sleep", "wait"}, NEW at, NEW when,
                 Aims(u, what, at, when)
          PROVE  FALSE
      <4>1. call'[t] = call[t] \/ call'[t] = [what |-> what, since |-> tick, due |-> when]
        BY <1>1, <3>2 DEF Aims, TimerInv, TypeOK
      <4>2. [what |-> what, since |-> tick, due |-> when] # NoCall
        BY DEF NoCall
      <4> QED
        BY <1>1, <4>1, <4>2
    <3>3. call' # call
      BY <1>1
    <3> QED
      BY <1>1, <3>1, <3>2, <3>3
         DEF Next, vars, timeVars, Tick, SleepFor, After, Every, NewTimer, Wait
  <2>2. pc[t] = "return" /\ state[t] = "Running"
    BY <1>1, <2>1, ThreadRuns DEF CallReturns, Return, TimerInv
  <2>3. tick > call[t].since /\ tick >= deadline[t]
    BY <1>1, <2>2 DEF TimerInv, CallPhases
  <2>4. call[t].due \in Nat /\ (call[t].due < Modulus => deadline[t] = call[t].due)
    BY <1>1 DEF TimerInv, TypeOK, DeadlineIsDue
  <2> QED
    BY <2>3, <2>4, TimerAssumption
<1>2. TimerInv /\ [Next]_vars =>
         [\A t \in Users :
             call[t] # NoCall /\ call'[t] = NoCall =>
                /\ tick >= call[t].due \/ call[t].due >= Modulus
                /\ call[t].what = "wait" /\ period[t] # OneShot => tick > call[t].since]_vars
  BY <1>1
<1> QED
  BY <1>2, TimerInvHolds, PTL DEF Spec, ReturnsWhenDue

\* A tick that finds a task running leaves nobody asleep past its deadline.
THEOREM NoSleeperIsForgotten == Spec => WakesWhenDue
<1>1. ASSUME TimerInv, [Next]_vars, TickRunning, NEW t \in Users, state'[t] = "Sleeping"
      PROVE  call[t].due > tick'
  <2>1. /\ state[t] = "Sleeping" /\ left'[t] = left[t] - 1 /\ left[t] > 1
        /\ pc' = pc /\ left[t] \in Nat
    BY <1>1, KernelConstants
       DEF TickRunning, WithWoken, DueNow, Elapsed, TimerInv, TypeOK, KernelTypeOK
  <2>2. tick' = tick + 1
    <3>1. left' # left /\ pc' = pc
      BY <2>1
    <3>3. ASSUME NEW u \in Users, NEW d \in Delays, SleepFor(u, d)
          PROVE  FALSE
      <4>1. pc[u] = "user" /\ pc' = [pc EXCEPT ![u] = "sleep_until"]
        BY <3>3 DEF SleepFor, Calls
      <4> QED
        BY <1>1, <3>1, <4>1, KernelConstants DEF TimerInv, TypeOK, KernelTypeOK
    <3>4. \A u \in Users : ~Wait(u)
      BY <1>1, <3>1, KernelConstants DEF Wait, LeaveRunning, Calls, TimerInv, TypeOK, KernelTypeOK
    <3> QED
      BY <1>1, <3>1, <3>3, <3>4
         DEF Next, vars, kernelVars, Tick, Launch, PendSV, PendSVEnter, PendSVSwitch, After, Every,
             NewTimer, SleepUntil, Trigger, CallReturns, Return
  <2>3. left[t] = Ahead(deadline[t]) /\ call[t] # NoCall
    BY <1>1, <2>1 DEF TimerInv, LeftIsAhead, CallPhases
  <2>4. /\ deadline[t] \in Nat /\ tick \in Nat /\ call[t].due \in Nat
        /\ call[t].due < Modulus => deadline[t] = call[t].due
        /\ tick < Modulus /\ Modulus \in Nat
    BY <1>1, <2>3, TimerAssumption DEF TimerInv, TypeOK, DeadlineIsDue
  <2>5. deadline[t] > tick + 1
    BY <2>1, <2>3, <2>4 DEF Ahead
  <2>6. tick + 1 < Modulus
    BY <1>1, <2>4, <2>5 DEF TimerInv, TypeOK
  <2> QED
    BY <2>2, <2>4, <2>5, <2>6
<1>2. TimerInv /\ [Next]_vars =>
         [TickRunning => \A t \in Users : state'[t] = "Sleeping" => call[t].due > tick']_vars
  BY <1>1
<1> QED
  BY <1>2, TimerInvHolds, PTL DEF Spec, WakesWhenDue
=============================================================================
