---------------------------- MODULE KernelProofs ----------------------------
(***************************************************************************)
(* What the steps of the kernel preserve: lemmas about Kernel, cited by    *)
(* the proofs of the modules that extend it; and, at the end, the theorems *)
(* about Scheduler, for every number of tasks, priorities, slices, and     *)
(* workload.                                                               *)
(***************************************************************************)
EXTENDS Scheduler, WellFoundedInduction, TLAPS

\* The constants as the provers need them, one at a time.
LEMMA KernelConstants ==
    /\ Users \subseteq Tasks
    /\ Tasks \subseteq Nat \ {NoTask}
    /\ Idle \in Tasks /\ Idle \notin Users
    /\ \A t \in Tasks : BasePrio[t] \in 0 .. MaxPrio /\ TimeSlice[t] \in 0 .. 255
    /\ Durations \subseteq Nat
BY KernelAssumption DEF Tasks, Users, Idle, NoTask

LEMMA KernelInitType == ASSUME KernelInit PROVE KernelTypeOK
<1>1. /\ current \in Tasks \cup {NoTask} /\ pendsv \in BOOLEAN /\ seen \subseteq Tasks
      /\ state[Idle] \in {"Ready", "Running"}
      /\ current = NoTask => ~pendsv /\ seen = {}
  BY KernelConstants DEF KernelInit
<1>2. slice \in [Tasks -> 0 .. 255] /\ priority \in [Tasks -> 0 .. MaxPrio]
  BY KernelAssumption DEF KernelInit
<1>3. /\ state \in [Tasks -> TaskStates]
      /\ left \in [Tasks -> Nat]
      /\ pc \in [Tasks -> Points]
  BY DEF KernelInit, TaskStates, Points
<1> QED
  BY <1>1, <1>2, <1>3 DEF KernelTypeOK

\* KernelTypeOK is preserved by the interrupts and the task calls.
LEMMA KernelStepType ==
    ASSUME KernelTypeOK, KernelStep
    PROVE  KernelTypeOK'
<1> USE KernelConstants DEF KernelTypeOK, TaskStates, Points
<1>1. CASE Launch
  BY <1>1 DEF Launch
<1>2. CASE TickIgnored
  BY <1>2 DEF TickIgnored, Elapsed
<1>3. CASE TickRunning
  <2>1. current \in Tasks
    BY <1>3 DEF TickRunning
  <2>2. ChargedSlice \in 0 .. 255
    BY <2>1 DEF ChargedSlice, SliceExpires
  <2>3. SlicesWithWoken \in [Tasks -> 0 .. 255]
    BY DEF SlicesWithWoken
  <2>4. slice' \in [Tasks -> 0 .. 255]
    <3>1. CASE slice' = SlicesWithWoken
      BY <3>1, <2>3
    <3>2. CASE slice' = [SlicesWithWoken EXCEPT ![current] = ChargedSlice]
      BY <3>2, <2>2, <2>3
    <3> QED
      BY <1>3, <3>1, <3>2 DEF TickRunning
  <2>5. state' \in [Tasks -> TaskStates] /\ left' \in [Tasks -> Nat]
    BY <1>3 DEF TickRunning, WithWoken, Elapsed
  <2>6. pendsv' \in BOOLEAN /\ state'[Idle] \in {"Ready", "Running"}
    BY <1>3 DEF TickRunning, WithWoken
  <2> QED
    BY <1>3, <2>4, <2>5, <2>6 DEF TickRunning
<1>4. CASE PendSV
  <2>1. CASE PendSVEnter
    BY <2>1 DEF PendSVEnter, SwitchedOut, ReadyIn
  <2>2. CASE PendSVSwitch
    BY <2>2 DEF PendSVSwitch
  <2> QED
    BY <1>4, <2>1, <2>2 DEF PendSV
<1>5. ASSUME NEW t \in Users, YieldNow(t)
      PROVE  KernelTypeOK'
  BY <1>5 DEF YieldNow
<1>6. ASSUME NEW t \in Users, NEW d \in Durations, Sleep(t, d)
      PROVE  KernelTypeOK'
  BY <1>6 DEF Sleep
<1>7. ASSUME NEW t \in Users, SleepUntil(t)
      PROVE  KernelTypeOK'
  BY <1>7 DEF SleepUntil, LeaveRunning
<1>8. ASSUME NEW t \in Users, Trigger(t)
      PROVE  KernelTypeOK'
  BY <1>8 DEF Trigger, Thread
<1> QED
  BY <1>1, <1>2, <1>3, <1>4, <1>5, <1>6, <1>7, <1>8 DEF KernelStep, SysTick

LEMMA ExitType ==
    ASSUME KernelTypeOK, NEW t \in Users, Exit(t)
    PROVE  KernelTypeOK'
BY KernelConstants DEF KernelTypeOK, TaskStates, Points, Exit, LeaveRunning

LEMMA ReturnType ==
    ASSUME KernelTypeOK, NEW t \in Users, Return(t)
    PROVE  KernelTypeOK'
BY KernelConstants DEF KernelTypeOK, TaskStates, Points, Return

-----------------------------------------------------------------------------
\* A task that can take a step outside trigger_pendsv() is Running.
LEMMA ThreadRuns ==
    ASSUME RunsOnlyWhenRunning, NEW t \in Users, Thread(t), pc[t] # "trigger"
    PROVE  state[t] = "Running"
BY KernelConstants DEF RunsOnlyWhenRunning, Thread

LEMMA KernelStepRuns ==
    ASSUME KernelTypeOK, RunsOnlyWhenRunning, KernelStep
    PROVE  RunsOnlyWhenRunning'
<1> USE KernelConstants DEF KernelTypeOK, RunsOnlyWhenRunning
<1>1. CASE Launch
  BY <1>1 DEF Launch
<1>2. CASE TickIgnored
  BY <1>2 DEF TickIgnored
<1>3. CASE TickRunning
  BY <1>3 DEF TickRunning, WithWoken, DueNow
<1>4. CASE PendSV
  <2>1. CASE PendSVEnter
    <3>1. \A t \in Tasks : SwitchedOut[t] # "Running"
      BY DEF SwitchedOut
    <3>2. SwitchedOut[Idle] = "Ready"
      BY <2>1 DEF SwitchedOut, PendSVEnter, TaskStates
    <3>3. state' = SwitchedOut /\ current' = current /\ seen' = ReadyIn(SwitchedOut)
      BY <2>1, Zenon DEF PendSVEnter
    <3>4. Idle \in seen'
      BY <3>2, <3>3 DEF ReadyIn
    <3>5. seen' # {} /\ \A t \in Tasks : state'[t] # "Running"
      BY <3>1, <3>3, <3>4
    <3> QED
      BY <3>5
  <2>2. CASE PendSVSwitch
    <3>1. PICK next \in Tasks : current' = next /\ state' = [state EXCEPT ![next] = "Running"]
      BY <2>2, Zenon DEF PendSVSwitch
    <3>2. seen # {} /\ seen' = {} /\ pc' = pc
      BY <2>2, Zenon DEF PendSVSwitch
    <3> QED
      BY <3>1, <3>2
  <2> QED
    BY <1>4, <2>1, <2>2 DEF PendSV
<1>5. ASSUME NEW t \in Users, YieldNow(t)
      PROVE  RunsOnlyWhenRunning'
  BY <1>5 DEF YieldNow, Calls, Thread
<1>6. ASSUME NEW t \in Users, NEW d \in Durations, Sleep(t, d)
      PROVE  RunsOnlyWhenRunning'
  BY <1>6 DEF Sleep, Calls, Thread
<1>7. ASSUME NEW t \in Users, SleepUntil(t)
      PROVE  RunsOnlyWhenRunning'
  BY <1>7 DEF SleepUntil, LeaveRunning, Thread
<1>8. ASSUME NEW t \in Users, Trigger(t)
      PROVE  RunsOnlyWhenRunning'
  BY <1>8 DEF Trigger
<1> QED
  BY <1>1, <1>2, <1>3, <1>4, <1>5, <1>6, <1>7, <1>8 DEF KernelStep, SysTick

LEMMA ExitReturnRuns ==
    ASSUME KernelTypeOK, RunsOnlyWhenRunning, NEW t \in Users, Exit(t) \/ Return(t)
    PROVE  RunsOnlyWhenRunning'
<1>1. CASE Exit(t)
  BY <1>1, KernelConstants
     DEF KernelTypeOK, RunsOnlyWhenRunning, Exit, LeaveRunning, Calls, Thread
<1>2. CASE Return(t)
  BY <1>2, KernelConstants DEF KernelTypeOK, RunsOnlyWhenRunning, Return, Thread
<1> QED
  BY <1>1, <1>2

-----------------------------------------------------------------------------
\* Nothing becomes Ready while PendSV executes: true of the modules in which no
\* interrupt handler of the application wakes tasks.
ScanIsComplete == seen # {} => seen = ReadyIn(state)

LEMMA KernelStepScans ==
    ASSUME KernelTypeOK, RunsOnlyWhenRunning, ScanIsComplete, KernelStep
    PROVE  ScanIsComplete'
<1> USE KernelConstants DEF KernelTypeOK, ScanIsComplete, ReadyIn
<1>1. CASE Launch
  BY <1>1 DEF Launch
<1>2. CASE SysTick
  BY <1>2 DEF SysTick, TickIgnored, TickRunning, RunsOnlyWhenRunning
<1>3. CASE PendSV
  BY <1>3 DEF PendSV, PendSVEnter, PendSVSwitch
<1>4. ASSUME NEW t \in Users, Thread(t), seen' = seen
      PROVE  ScanIsComplete'
  BY <1>4 DEF Thread
<1> QED
  BY <1>1, <1>2, <1>3, <1>4
     DEF KernelStep, YieldNow, Sleep, SleepUntil, Trigger, Calls

\* A preemption is only forgotten by a PendSV that does not see every Ready task.
LEMMA KernelStepPreempts ==
    ASSUME KernelTypeOK, RunsOnlyWhenRunning, PreemptionPending, KernelStep,
           PendSVSwitch => seen = ReadyIn(state)
    PROVE  PreemptionPending'
<1>0. \A t \in Tasks : priority[t] \in Int
  BY DEF KernelTypeOK, MaxPrio
<1> USE KernelConstants DEF KernelTypeOK, PreemptionPending, SwitchUnderWay, Outranks
<1>1. CASE Launch
  <2>1. PICK t \in Tasks : /\ IsFirst(t)
                           /\ current' = t
                           /\ state' = [state EXCEPT ![t] = "Running"]
                           /\ priority' = priority
    BY <1>1 DEF Launch
  <2>2. \A u \in Tasks : state[u] = "Ready" => ~(priority[u] < priority[t])
    BY <1>0, <2>1 DEF IsFirst
  <2> QED
    BY <2>1, <2>2
<1>2. CASE TickIgnored
  BY <1>2 DEF TickIgnored
<1>3. CASE TickRunning
  BY <1>3 DEF TickRunning, MustPreempt
<1>4. CASE PendSV
  <2>1. CASE PendSVEnter
    <3>1. SwitchedOut[Idle] = "Ready"
      BY <2>1 DEF SwitchedOut, PendSVEnter, TaskStates, RunsOnlyWhenRunning
    <3> QED
      BY <2>1, <3>1 DEF PendSVEnter, ReadyIn
  <2>2. CASE PendSVSwitch
    <3>1. PICK missed \in SUBSET (ReadyIn(state) \ seen), next \in Tasks :
              /\ IsNext(next, ReadyIn(state) \ missed)
              /\ current' = next
              /\ state' = [state EXCEPT ![next] = "Running"]
      BY <2>2 DEF PendSVSwitch
    <3>a. ReadyIn(state) \ missed = ReadyIn(state)
      BY <2>2
    <3>2. ASSUME NEW t \in Tasks, state[t] = "Ready"
          PROVE  ~(priority[t] < priority[next])
      <4>1. priority[next] < priority[t] \/ priority[next] = priority[t]
        BY <3>1, <3>a, <3>2 DEF IsNext, ReadyIn
      <4> QED
        BY <1>0, <4>1
    <3> QED
      BY <2>2, <3>1, <3>2 DEF PendSVSwitch
  <2> QED
    BY <1>4, <2>1, <2>2 DEF PendSV
<1>5. ASSUME NEW t \in Users, YieldNow(t)
      PROVE  PreemptionPending'
  BY <1>5 DEF YieldNow, Calls, Thread
<1>6. ASSUME NEW t \in Users, NEW d \in Durations, Sleep(t, d)
      PROVE  PreemptionPending'
  BY <1>6 DEF Sleep, Calls, Thread
<1>7. ASSUME NEW t \in Users, SleepUntil(t)
      PROVE  PreemptionPending'
  BY <1>7 DEF SleepUntil, LeaveRunning, Thread
<1>8. ASSUME NEW t \in Users, Trigger(t)
      PROVE  PreemptionPending'
  BY <1>8 DEF Trigger
<1> QED
  BY <1>1, <1>2, <1>3, <1>4, <1>5, <1>6, <1>7, <1>8 DEF KernelStep, SysTick

LEMMA ExitReturnPreempts ==
    ASSUME KernelTypeOK, PreemptionPending, NEW t \in Users, Exit(t) \/ Return(t)
    PROVE  PreemptionPending'
BY KernelConstants
   DEF KernelTypeOK, PreemptionPending, SwitchUnderWay, Outranks, Exit, LeaveRunning,
       Return, Calls, Thread

LEMMA ExitReturnScans ==
    ASSUME ScanIsComplete, NEW t \in Users, Exit(t) \/ Return(t)
    PROVE  ScanIsComplete'
BY DEF ScanIsComplete, Exit, LeaveRunning, Return, Calls, Thread

\* A step of the kernel neither blocks a task nor wakes one that is Blocked, and
\* takes no task out of a call.
LEMMA KernelStepKeepsBlocked ==
    ASSUME KernelTypeOK, RunsOnlyWhenRunning, KernelStep
    PROVE  \A t \in Users :
              /\ state'[t] = "Blocked" <=> state[t] = "Blocked"
              /\ pc[t] \in {"trigger", "return"} => pc'[t] \in {"trigger", "return"}
<1> USE KernelConstants DEF KernelTypeOK
<1>1. CASE Launch
  BY <1>1 DEF Launch, IsFirst
<1>2. CASE TickIgnored
  BY <1>2 DEF TickIgnored
<1>3. CASE TickRunning
  BY <1>3 DEF TickRunning, WithWoken, DueNow
<1>4. CASE PendSV
  BY <1>4 DEF PendSV, PendSVEnter, PendSVSwitch, SwitchedOut, IsNext, ReadyIn
<1>5. ASSUME NEW t \in Users, YieldNow(t)
      PROVE  state' = state /\ pc' = [pc EXCEPT ![t] = "trigger"]
  BY <1>5 DEF YieldNow
<1>6. ASSUME NEW t \in Users, NEW d \in Durations, Sleep(t, d)
      PROVE  state' = state /\ pc[t] = "user" /\ pc' = [pc EXCEPT ![t] = "sleep_until"]
  BY <1>6 DEF Sleep, Calls
<1>7. ASSUME NEW t \in Users, SleepUntil(t)
      PROVE  /\ state[t] = "Running"
             /\ state' = [state EXCEPT ![t] = "Sleeping"]
             /\ pc' = [pc EXCEPT ![t] = "trigger"]
  BY <1>7, ThreadRuns DEF SleepUntil, LeaveRunning
<1>8. ASSUME NEW t \in Users, Trigger(t)
      PROVE  state' = state /\ pc' = [pc EXCEPT ![t] = "return"]
  BY <1>8 DEF Trigger
<1> QED
  BY <1>1, <1>2, <1>3, <1>4, <1>5, <1>6, <1>7, <1>8 DEF KernelStep, SysTick

\* Only mutexes change effective priorities.
LEMMA KernelStepKeepsPriorities ==
    ASSUME KernelStep
    PROVE  priority' = priority
BY DEF KernelStep, Launch, SysTick, TickIgnored, TickRunning, PendSV, PendSVEnter,
       PendSVSwitch, YieldNow, Sleep, SleepUntil, Trigger

-----------------------------------------------------------------------------
(***************************************************************************)
(* What the modules whose interrupt handlers wake tasks rest on.           *)
(***************************************************************************)

\* Before the launch no task has executed anything.
NothingBeforeLaunch == current = NoTask => \A t \in Tasks : state[t] = "Ready"

KernelInv ==
    /\ KernelTypeOK
    /\ RunsOnlyWhenRunning
    /\ NothingBeforeLaunch

\* The step of a call that blocks, up to the end of its critical section.
Parks(t) ==
    /\ Calls(t)
    /\ LeaveRunning(t, "Blocked")
    /\ UNCHANGED <<current, left, priority, pendsv, seen>>

\* Task t, or a handler, wakes u.
TaskWakes(t, u) ==
    /\ Calls(t)
    /\ Unblock(u)
    /\ PreemptFor(t, u, priority[t])
    /\ UNCHANGED <<current, left, priority, pendsv, seen>>

IsrWakes(u) ==
    /\ Unblock(u)
    /\ pendsv' = (pendsv \/ Outranks(u, current))
    /\ UNCHANGED <<current, left, priority, seen, pc>>

LEMMA KernelInitInv == ASSUME KernelInit PROVE KernelInv
BY KernelInitType DEF KernelInit, KernelInv, RunsOnlyWhenRunning, NothingBeforeLaunch

LEMMA KernelStepInv == ASSUME KernelInv, KernelStep PROVE KernelInv'
<1>1. KernelTypeOK' /\ RunsOnlyWhenRunning'
  BY KernelStepType, KernelStepRuns DEF KernelInv
<1>2. NothingBeforeLaunch'
  <2>1. CASE Launch
    BY <2>1, KernelConstants DEF Launch, NothingBeforeLaunch
  <2>2. CASE TickIgnored
    BY <2>2 DEF TickIgnored, KernelInv, NothingBeforeLaunch
  <2>3. CASE TickRunning
    BY <2>3 DEF TickRunning, NothingBeforeLaunch
  <2>4. CASE PendSV
    BY <2>4, KernelConstants
       DEF PendSV, PendSVEnter, PendSVSwitch, KernelInv, KernelTypeOK, NothingBeforeLaunch
  <2>5. ASSUME NEW t \in Users, Thread(t), current' = current
        PROVE  NothingBeforeLaunch'
    BY <2>5, KernelConstants DEF Thread, NothingBeforeLaunch
  <2> QED
    BY <2>1, <2>2, <2>3, <2>4, <2>5
       DEF KernelStep, SysTick, YieldNow, Sleep, SleepUntil, Trigger, Calls
<1> QED
  BY <1>1, <1>2 DEF KernelInv

LEMMA ExitReturnInv ==
    ASSUME KernelInv, NEW t \in Users, Exit(t) \/ Return(t)
    PROVE  KernelInv'
<1>1. KernelTypeOK' /\ RunsOnlyWhenRunning'
  BY ExitType, ReturnType, ExitReturnRuns DEF KernelInv
<1>2. current = t /\ current' = current
  BY DEF Exit, Return, Calls, Thread
<1> QED
  BY <1>1, <1>2, KernelConstants DEF KernelInv, NothingBeforeLaunch

LEMMA ParksInv ==
    ASSUME KernelInv, NEW t \in Users, Parks(t)
    PROVE  /\ KernelInv'
           /\ state[t] = "Running" /\ pc[t] = "user"
           /\ state' = [state EXCEPT ![t] = "Blocked"]
           /\ pc' = [pc EXCEPT ![t] = "trigger"]
           /\ \A u \in Tasks : state'[u] = IF u = t THEN "Blocked" ELSE state[u]
           /\ \A u \in Tasks : pc'[u] = IF u = t THEN "trigger" ELSE pc[u]
<1> USE KernelConstants DEF Parks, Calls, Thread, LeaveRunning
<1>1. state[t] = "Running" /\ pc[t] = "user"
  BY ThreadRuns DEF KernelInv
<1>2. /\ \A u \in Tasks : state'[u] = IF u = t THEN "Blocked" ELSE state[u]
      /\ \A u \in Tasks : pc'[u] = IF u = t THEN "trigger" ELSE pc[u]
  BY DEF KernelInv, KernelTypeOK
<1>3. KernelTypeOK'
  BY DEF KernelInv, KernelTypeOK, TaskStates, Points
<1>4. RunsOnlyWhenRunning' /\ NothingBeforeLaunch'
  BY <1>2 DEF KernelInv, RunsOnlyWhenRunning, NothingBeforeLaunch
<1> QED
  BY <1>1, <1>2, <1>3, <1>4 DEF KernelInv

\* A blocked task u becomes Ready and nothing else happens to any state.
LEMMA UnblockedStates ==
    ASSUME KernelInv, NEW u \in Users, Unblock(u)
    PROVE  /\ \A t \in Tasks : state'[t] = IF t = u THEN "Ready" ELSE state[t]
           /\ state' \in [Tasks -> TaskStates]
           /\ slice' \in [Tasks -> 0 .. 255]
BY KernelConstants DEF Unblock, KernelInv, KernelTypeOK, TaskStates

LEMMA TaskWakesInv ==
    ASSUME KernelInv, NEW t \in Users, NEW u \in Users, TaskWakes(t, u),
           state[u] = "Blocked"
    PROVE  /\ KernelInv'
           /\ state[t] = "Running" /\ pc[t] = "user"
           /\ \A v \in Tasks : v # t => pc'[v] = pc[v]
           /\ pc'[t] \in {"user", "trigger"}
<1> USE KernelConstants DEF TaskWakes, Calls, Thread, PreemptFor
<1>1. state[t] = "Running" /\ pc[t] = "user"
  BY ThreadRuns DEF KernelInv
<1>2. /\ \A v \in Tasks : state'[v] = IF v = u THEN "Ready" ELSE state[v]
      /\ state' \in [Tasks -> TaskStates]
      /\ slice' \in [Tasks -> 0 .. 255]
  BY UnblockedStates
<1>3. /\ pc' \in [Tasks -> Points]
      /\ \A v \in Tasks : v # t => pc'[v] = pc[v]
      /\ pc'[t] \in {"user", "trigger"}
  BY <1>1 DEF KernelInv, KernelTypeOK, Points
<1>4. KernelTypeOK'
  BY <1>2, <1>3 DEF KernelInv, KernelTypeOK
<1>5. RunsOnlyWhenRunning' /\ NothingBeforeLaunch'
  BY <1>1, <1>2, <1>3 DEF KernelInv, RunsOnlyWhenRunning, NothingBeforeLaunch
<1> QED
  BY <1>1, <1>3, <1>4, <1>5 DEF KernelInv

LEMMA IsrWakesInv ==
    ASSUME KernelInv, NEW u \in Users, IsrWakes(u), state[u] = "Blocked"
    PROVE  KernelInv'
<1> USE KernelConstants DEF IsrWakes
<1>1. /\ \A v \in Tasks : state'[v] = IF v = u THEN "Ready" ELSE state[v]
      /\ state' \in [Tasks -> TaskStates]
      /\ slice' \in [Tasks -> 0 .. 255]
  BY UnblockedStates
<1>2. current # NoTask
  BY DEF KernelInv, NothingBeforeLaunch
<1>a. pendsv' \in BOOLEAN
  BY Zenon
<1>3. KernelTypeOK'
  <2> HIDE DEF IsrWakes
  <2>1. UNCHANGED <<current, left, priority, seen, pc>>
    BY DEF IsrWakes
  <2> QED
    BY <1>a, <1>1, <1>2, <2>1 DEF KernelInv, KernelTypeOK
<1>b. (~pendsv' => ~pendsv) /\ UNCHANGED <<current, seen, pc>>
  OBVIOUS
<1>4. RunsOnlyWhenRunning' /\ NothingBeforeLaunch'
  <2> HIDE DEF IsrWakes
  <2>1. current \in Tasks
    BY <1>2 DEF KernelInv, KernelTypeOK
  <2> QED
    BY <1>1, <1>2, <1>b, <2>1 DEF KernelInv, RunsOnlyWhenRunning, NothingBeforeLaunch
<1> QED
  BY <1>3, <1>4 DEF KernelInv

LEMMA StutterInv == ASSUME KernelInv, UNCHANGED kernelVars PROVE KernelInv'
BY DEF kernelVars, KernelInv, KernelTypeOK, RunsOnlyWhenRunning, NothingBeforeLaunch

-----------------------------------------------------------------------------
(***************************************************************************)
(* Preemptions where handlers wake tasks.                                  *)
(***************************************************************************)

\* A tick that finds a task running leaves no preemption forgotten, whatever
\* was forgotten before.
LEMMA TickPreempts ==
    ASSUME TickRunning
    PROVE  PreemptionPending'
<1>1. CASE MustPreempt
  BY <1>1 DEF TickRunning, PreemptionPending, SwitchUnderWay
<1>2. CASE ~MustPreempt
  BY <1>2 DEF TickRunning, MustPreempt, PreemptionPending, Outranks
<1> QED
  BY <1>1, <1>2

LEMMA WakingPreempts ==
    ASSUME KernelInv, PreemptionPending, NEW u \in Users,
           IsrWakes(u) \/ \E t \in Users : TaskWakes(t, u)
    PROVE  PreemptionPending'
<1>1. \A t \in Tasks : state'[t] = IF t = u THEN "Ready" ELSE state[t]
  BY UnblockedStates DEF IsrWakes, TaskWakes
<1>2. CASE IsrWakes(u)
  BY <1>1, <1>2 DEF IsrWakes, PreemptionPending, SwitchUnderWay, Outranks
<1>3. ASSUME NEW t \in Users, TaskWakes(t, u)
      PROVE  PreemptionPending'
  <2>1. current = t /\ current' = t /\ t \in Tasks /\ pc[t] = "user" /\ ~pendsv /\ seen = {}
    BY <1>3, KernelConstants DEF TaskWakes, Calls, Thread
  <2>2. \A v \in Tasks : state[v] = "Ready" => ~(priority[v] < priority[t])
    BY <2>1, KernelConstants DEF PreemptionPending, SwitchUnderWay, Outranks
  <2>3. priority[u] < priority[t] => pc'[t] = "trigger"
    BY <1>3, <2>1 DEF TaskWakes, PreemptFor, KernelInv, KernelTypeOK
  <2> QED
    BY <1>1, <1>3, <2>1, <2>2, <2>3
       DEF TaskWakes, PreemptionPending, SwitchUnderWay, Outranks
<1> QED
  BY <1>2, <1>3

LEMMA ParksPreempts ==
    ASSUME KernelInv, PreemptionPending, NEW t \in Users, Parks(t)
    PROVE  PreemptionPending'
<1>1. current = t /\ current' = t /\ pc'[t] = "trigger"
  BY ParksInv, KernelConstants DEF Parks, Calls, Thread
<1> QED
  BY <1>1 DEF PreemptionPending, SwitchUnderWay

\* Neither a call that the scheduler takes no part in nor one that blocks touches a
\* preemption.
LEMMA QuietCallPreempts ==
    ASSUME KernelInv, PreemptionPending,
           UNCHANGED kernelVars \/ \E t \in Users : Parks(t)
    PROVE  PreemptionPending'
<1>1. CASE UNCHANGED kernelVars
  BY <1>1 DEF kernelVars, PreemptionPending, SwitchUnderWay, Outranks
<1> QED
  BY <1>1, ParksPreempts

\* Tasks that were Blocked become Ready and nothing else happens to any state.
WakeAll(W) ==
    /\ state' = [t \in Tasks |-> IF t \in W THEN "Ready" ELSE state[t]]
    /\ slice' = [t \in Tasks |-> IF t \in W THEN TimeSlice[t] ELSE slice[t]]

LEMMA WokenStates ==
    ASSUME KernelInv, NEW W \in SUBSET Users, WakeAll(W)
    PROVE  /\ \A t \in Tasks : state'[t] = IF t \in W THEN "Ready" ELSE state[t]
           /\ state' \in [Tasks -> TaskStates]
           /\ slice' \in [Tasks -> 0 .. 255]
           /\ state'[Idle] = state[Idle]
BY KernelConstants DEF WakeAll, KernelInv, KernelTypeOK, TaskStates

\* A call that wakes all of W triggers a switch if one of them outranks the caller,
\* and a handler that does pends one if one of them outranks the task it interrupts.
LEMMA WakingAllPreempts ==
    ASSUME KernelInv, PreemptionPending, NEW W \in SUBSET Users, WakeAll(W),
           UNCHANGED <<current, left, priority, seen>>,
           \/ \E t \in Users :
                 /\ Calls(t)
                 /\ pc' = IF \E u \in W : Outranks(u, t)
                          THEN [pc EXCEPT ![t] = "trigger"] ELSE pc
                 /\ UNCHANGED pendsv
           \/ UNCHANGED pc /\ pendsv' = (pendsv \/ \E u \in W : Outranks(u, current))
    PROVE  PreemptionPending'
<1>1. \A t \in Tasks : state'[t] = IF t \in W THEN "Ready" ELSE state[t]
  BY WokenStates
<1>2. ASSUME NEW t \in Tasks, current' # NoTask, state'[t] = "Ready", Outranks(t, current)'
      PROVE  SwitchUnderWay'
  <2>1. Outranks(t, current) /\ current # NoTask
    BY <1>2 DEF Outranks
  <2>2. CASE t \notin W
    <3>1. SwitchUnderWay
      BY <1>1, <1>2, <2>1, <2>2 DEF PreemptionPending
    <3> QED
      BY <3>1 DEF SwitchUnderWay, Calls, Thread
  <2>3. CASE t \in W
    <3>1. ASSUME NEW c \in Users, Calls(c), pc' = [pc EXCEPT ![c] = "trigger"]
          PROVE  SwitchUnderWay'
      BY <3>1, KernelConstants DEF SwitchUnderWay, Calls, Thread, KernelInv, KernelTypeOK
    <3>2. \A c \in Users : Calls(c) => current = c
      BY DEF Calls, Thread
    <3> QED
      BY <2>1, <2>3, <3>1, <3>2 DEF SwitchUnderWay
  <2> QED
    BY <2>2, <2>3
<1> QED
  BY <1>2 DEF PreemptionPending

-----------------------------------------------------------------------------
\* A list after block_and_push: one more entry, at the head.
LEMMA PushedList ==
    ASSUME NEW S, NEW w \in Seq(S), NEW t \in S
    PROVE  /\ Cons(t, w) \in Seq(S)
           /\ Cons(t, w) # <<>>
           /\ ToSet(Cons(t, w)) = ToSet(w) \cup {t}
           /\ IsInjective(w) /\ t \notin ToSet(w) => IsInjective(Cons(t, w))
<1> DEFINE c == Cons(t, w)
<1>1. /\ c \in Seq(S)
      /\ Len(c) = Len(w) + 1
      /\ DOMAIN c = 1 .. Len(w) + 1
      /\ DOMAIN w = 1 .. Len(w)
      /\ Len(w) \in Nat
  BY DEF Cons
<1>2. \A i \in 1 .. Len(w) + 1 : c[i] = IF i = 1 THEN t ELSE w[i - 1]
  BY DEF Cons
<1> HIDE DEF c
<1>3. c # <<>>
  BY <1>1
<1>4. ToSet(c) = ToSet(w) \cup {t}
  <2>1. ASSUME NEW i \in 1 .. Len(w)
        PROVE  w[i] \in ToSet(c)
    BY <1>1, <1>2, i + 1 \in 1 .. Len(w) + 1, c[i + 1] = w[i] DEF ToSet
  <2>2. t \in ToSet(c)
    BY <1>1, <1>2, 1 \in 1 .. Len(w) + 1 DEF ToSet
  <2>3. \A i \in 1 .. Len(w) + 1 : i = 1 \/ i - 1 \in 1 .. Len(w)
    BY <1>1
  <2> QED
    BY <1>1, <1>2, <2>1, <2>2, <2>3 DEF ToSet
<1>5. ASSUME IsInjective(w), t \notin ToSet(w)
      PROVE  IsInjective(c)
  <2> SUFFICES ASSUME NEW i \in 1 .. Len(w) + 1, NEW j \in 1 .. Len(w) + 1,
                      c[i] = c[j]
               PROVE  i = j
    BY <1>1 DEF IsInjective
  <2>1. \A k \in 1 .. Len(w) : w[k] # t
    BY <1>1, <1>5 DEF ToSet
  <2>2. CASE i = 1 \/ j = 1
    BY <1>1, <1>2, <2>1, <2>2
  <2>3. CASE i # 1 /\ j # 1
    <3>1. i - 1 \in 1 .. Len(w) /\ j - 1 \in 1 .. Len(w)
      BY <1>1, <2>3
    <3>2. w[i - 1] = w[j - 1]
      BY <1>2, <2>3
    <3>3. i - 1 = j - 1
      BY <1>1, <1>5, <3>1, <3>2 DEF IsInjective
    <3> QED
      BY <1>1, <3>3
  <2> QED
    BY <2>2, <2>3
<1> QED
  BY <1>1, <1>3, <1>4, <1>5 DEF c

\* A list after wait_list_pop_highest has unlinked the entry at place i.
LEMMA PoppedList ==
    ASSUME NEW S, NEW w \in Seq(S), IsInjective(w), NEW i \in DOMAIN w
    PROVE  /\ RemoveAt(w, i) \in Seq(S)
           /\ ToSet(RemoveAt(w, i)) = ToSet(w) \ {w[i]}
           /\ IsInjective(RemoveAt(w, i))
<1> DEFINE r == RemoveAt(w, i)
           n == Len(w)
<1>1. n \in Nat /\ DOMAIN w = 1 .. n /\ i \in 1 .. n
  OBVIOUS
<1>2. /\ r \in Seq(S)
      /\ Len(r) = n - 1
      /\ DOMAIN r = 1 .. n - 1
      /\ \A k \in 1 .. n - 1 : r[k] = IF k < i THEN w[k] ELSE w[k + 1]
  <2> DEFINE a == SubSeq(w, 1, i - 1)
             b == SubSeq(w, i + 1, n)
  <2>1. /\ a \in Seq(S)
        /\ Len(a) = i - 1
        /\ \A k \in 1 .. i - 1 : a[k] = w[k]
    BY <1>1
  <2>2. /\ b \in Seq(S)
        /\ Len(b) = n - i
        /\ \A k \in 1 .. n - i : b[k] = w[k + i]
    BY <1>1
  <2>3. r = a \o b
    BY DEF RemoveAt
  <2> HIDE DEF r, n, a, b
  <2>4. /\ r \in Seq(S)
        /\ Len(r) = n - 1
        /\ \A k \in 1 .. n - 1 : r[k] = IF k < i THEN a[k] ELSE b[k - (i - 1)]
    BY <1>1, <2>1, <2>2, <2>3
  <2>5. ASSUME NEW k \in 1 .. n - 1
        PROVE  r[k] = IF k < i THEN w[k] ELSE w[k + 1]
    <3>1. CASE k < i
      BY <1>1, <2>1, <2>4, <3>1
    <3>2. CASE ~(k < i)
      <4>1. k - (i - 1) \in 1 .. n - i /\ k - (i - 1) + i = k + 1
        BY <1>1, <3>2
      <4> QED
        BY <2>2, <2>4, <3>2, <4>1
    <3> QED
      BY <3>1, <3>2
  <2> QED
    BY <2>4, <2>5
<1> HIDE DEF r, n
<1>3. \A j, k \in 1 .. n : w[j] = w[k] => j = k
  BY <1>1 DEF IsInjective
<1> DEFINE at(k) == IF k < i THEN k ELSE k + 1
<1>a. \A k \in 1 .. n - 1 : at(k) \in 1 .. n /\ at(k) # i /\ r[k] = w[at(k)]
  <2> SUFFICES ASSUME NEW k \in 1 .. n - 1
               PROVE  at(k) \in 1 .. n /\ at(k) # i /\ r[k] = w[at(k)]
    OBVIOUS
  <2>1. r[k] = IF k < i THEN w[k] ELSE w[k + 1]
    BY <1>2
  <2> QED
    BY <1>1, <2>1
<1>b. \A j, k \in 1 .. n - 1 : at(j) = at(k) => j = k
  BY <1>1
<1> HIDE DEF at
<1>4. IsInjective(r)
  <2> SUFFICES ASSUME NEW j \in 1 .. n - 1, NEW k \in 1 .. n - 1, r[j] = r[k]
               PROVE  j = k
    BY <1>2 DEF IsInjective
  <2>1. at(j) = at(k)
    BY <1>3, <1>a
  <2> QED
    BY <1>b, <2>1
<1>5. ToSet(r) \subseteq ToSet(w) \ {w[i]}
  <2> SUFFICES ASSUME NEW k \in 1 .. n - 1
               PROVE  r[k] \in ToSet(w) /\ r[k] # w[i]
    BY <1>2 DEF ToSet
  <2>1. at(k) \in 1 .. n /\ at(k) # i /\ r[k] = w[at(k)]
    BY <1>a
  <2> QED
    BY <1>1, <1>3, <2>1 DEF ToSet
<1>6. ASSUME NEW j \in 1 .. n, j # i
      PROVE  w[j] \in ToSet(r)
  <2>1. CASE j < i
    BY <1>1, <1>2, <2>1, j \in 1 .. n - 1 DEF ToSet
  <2>2. CASE j > i
    BY <1>1, <1>2, <2>2, j - 1 \in 1 .. n - 1, r[j - 1] = w[j] DEF ToSet
  <2> QED
    BY <1>1, <1>6, <2>1, <2>2
<1>7. ToSet(w) \ {w[i]} \subseteq ToSet(r)
  BY <1>1, <1>6 DEF ToSet
<1> QED
  BY <1>2, <1>4, <1>5, <1>7 DEF r

\* Without mutexes every task has the priority it was created with.
PrioritiesAreBase == priority = BasePrio

\* What wait_list_pop_highest takes from a list, and what it leaves.
LEMMA HighestPopped ==
    ASSUME PrioritiesAreBase, NEW w \in Seq(Users), IsInjective(w), NEW i, IsHighest(w, i)
    PROVE  /\ w[i] \in ToSet(w)
           /\ \A u \in ToSet(w) : BasePrio[w[i]] <= BasePrio[u]
           /\ Popped(w, i) \in Seq(Users)
           /\ ToSet(Popped(w, i)) = ToSet(w) \ {w[i]}
           /\ IsInjective(Popped(w, i))
<1>1. i \in DOMAIN w
  BY DEF IsHighest
<1>2. \A j \in DOMAIN w : w[j] \in Users
  OBVIOUS
<1>3. \A u \in Users : BasePrio[u] \in 0 .. MaxPrio /\ MaxPrio \in Nat
  BY KernelConstants DEF MaxPrio
<1>4. \A j \in DOMAIN w : BasePrio[w[i]] <= BasePrio[w[j]]
  BY <1>1, <1>2, <1>3 DEF IsHighest, Outranks, PrioritiesAreBase
<1> QED
  BY <1>1, <1>4, PoppedList DEF Popped, ToSet

-----------------------------------------------------------------------------
\* Induction over numbers, in the form every proof here needs it: what holds of some
\* number holds of a least one.
LEMMA LeastNumber ==
    ASSUME NEW S \in SUBSET Nat, S # {}
    PROVE  \E n \in S : \A m \in S : n <= m
<1> DEFINE R == {ss \in Nat \X Nat : ss[1] < ss[2]}
<1>1. IsWellFoundedOn(R, Nat)
  BY NatLessThanWellFounded, SMT DEF OpToRel
<1>2. \E n \in S : \A m \in S : <<m, n>> \notin R
  <2> HIDE DEF R
  <2> QED
    BY <1>1, WFMin
<1>3. \A m, n \in S : <<m, n>> \in R <=> m < n
  OBVIOUS
<1> HIDE DEF R
<1>4. \A m, n \in S : ~(m < n) => n <= m
  OBVIOUS
<1> QED
  BY <1>2, <1>3, <1>4

-----------------------------------------------------------------------------
(***************************************************************************)
(* The kernel alone: tasks that only yield, sleep and exit.                *)
(***************************************************************************)

\* What makes SleepsLongEnough inductive: past sleep_until, a deadline still
\* ahead means the task is Sleeping.
DeadlineAheadSleeps ==
    \A t \in Tasks :
        pc[t] \in {"trigger", "return"} /\ left[t] > 0 => state[t] = "Sleeping"

\* The invariants every other proof rests on.
SafeInv ==
    /\ KernelTypeOK
    /\ RunsOnlyWhenRunning
    /\ ScanIsComplete
    /\ PreemptionPending

SleepInv ==
    /\ SleepsLongEnough
    /\ DeadlineAheadSleeps

LEMMA KernelInitSafe == ASSUME KernelInit PROVE SafeInv
<1>1. KernelTypeOK
  BY KernelInitType
<1>2. RunsOnlyWhenRunning /\ ScanIsComplete /\ PreemptionPending
  BY DEF KernelInit, RunsOnlyWhenRunning, ScanIsComplete, PreemptionPending
<1> QED
  BY <1>1, <1>2 DEF SafeInv

LEMMA StepSafe ==
    ASSUME SafeInv, [SchedulerNext]_kernelVars
    PROVE  SafeInv'
<1> USE DEF SafeInv
<1>1. CASE KernelStep
  <2>1. PendSVSwitch => seen = ReadyIn(state)
    BY DEF PendSVSwitch, ScanIsComplete
  <2> QED
    BY <1>1, <2>1, KernelStepType, KernelStepRuns, KernelStepScans, KernelStepPreempts
<1>2. ASSUME NEW t \in Users, Exit(t)
      PROVE  SafeInv'
  BY <1>2, ExitType, ExitReturnRuns, ExitReturnScans, ExitReturnPreempts
<1>3. ASSUME NEW t \in Users, Return(t)
      PROVE  SafeInv'
  BY <1>3, ReturnType, ExitReturnRuns, ExitReturnScans, ExitReturnPreempts
<1>4. CASE UNCHANGED kernelVars
  BY <1>4 DEF kernelVars, KernelTypeOK, RunsOnlyWhenRunning, ScanIsComplete, ReadyIn,
              PreemptionPending, SwitchUnderWay, Outranks
<1> QED
  BY <1>1, <1>2, <1>3, <1>4 DEF SchedulerNext

LEMMA SchedulerSafe == SchedulerSpec => []SafeInv
<1>1. KernelInit => SafeInv
  BY KernelInitSafe
<1>2. SafeInv /\ [SchedulerNext]_kernelVars => SafeInv'
  BY StepSafe
<1> QED
  BY <1>1, <1>2, PTL DEF SchedulerSpec

\* The type invariant of the kernel.
THEOREM SchedulerTypeCorrect == SchedulerSpec => []KernelTypeOK
BY SchedulerSafe, PTL DEF SafeInv

\* No interleaving of SysTick, PendSV and the calls of the tasks runs the code of
\* a task that is not Running, or has two tasks Running.
THEOREM OnlyRunningTasksRun == SchedulerSpec => []RunsOnlyWhenRunning
BY SchedulerSafe, PTL DEF SafeInv

\* None leaves a task Ready above the one on the CPU with no switch on its way.
THEOREM NoMissedPreemption == SchedulerSpec => []PreemptionPending
BY SchedulerSafe, PTL DEF SafeInv

-----------------------------------------------------------------------------
LEMMA StepSleeps ==
    ASSUME SafeInv, SleepInv, [SchedulerNext]_kernelVars
    PROVE  SleepInv'
<1> USE KernelConstants DEF SleepInv, SleepsLongEnough, DeadlineAheadSleeps, SafeInv,
        KernelTypeOK
<1>1. CASE Launch
  BY <1>1 DEF Launch, IsFirst
<1>2. CASE TickIgnored
  BY <1>2 DEF TickIgnored, Elapsed
<1>3. CASE TickRunning
  BY <1>3 DEF TickRunning, WithWoken, DueNow, Elapsed
<1>4. CASE PendSV
  BY <1>4 DEF PendSV, PendSVEnter, PendSVSwitch, SwitchedOut, IsNext, ReadyIn
<1>5. ASSUME NEW t \in Users, YieldNow(t)
      PROVE  SleepInv'
  BY <1>5 DEF YieldNow, Calls
<1>6. ASSUME NEW t \in Users, NEW d \in Durations, Sleep(t, d)
      PROVE  SleepInv'
  BY <1>6 DEF Sleep, Calls
<1>7. ASSUME NEW t \in Users, SleepUntil(t)
      PROVE  SleepInv'
  BY <1>7 DEF SleepUntil, LeaveRunning
<1>8. ASSUME NEW t \in Users, Trigger(t)
      PROVE  SleepInv'
  BY <1>8 DEF Trigger
<1>9. ASSUME NEW t \in Users, Exit(t)
      PROVE  SleepInv'
  BY <1>9 DEF Exit, LeaveRunning, Calls
<1>10. ASSUME NEW t \in Users, Return(t)
       PROVE  SleepInv'
  <2>1. state[t] = "Running"
    BY <1>10, ThreadRuns DEF Return
  <2> QED
    BY <1>10, <2>1 DEF Return
<1>11. CASE UNCHANGED kernelVars
  BY <1>11 DEF kernelVars
<1> QED
  BY <1>1, <1>2, <1>3, <1>4, <1>5, <1>6, <1>7, <1>8, <1>9, <1>10, <1>11
     DEF SchedulerNext, KernelStep, SysTick

\* No sleep returns before its deadline, for any durations and any number of
\* ticks in any of its windows.
THEOREM NoSleepIsShort == SchedulerSpec => []SleepsLongEnough
<1>1. KernelInit => SleepInv
  BY DEF KernelInit, SleepInv, SleepsLongEnough, DeadlineAheadSleeps
<1>2. SafeInv /\ SleepInv /\ [SchedulerNext]_kernelVars => SleepInv'
  BY StepSleeps
<1>3. SleepInv => SleepsLongEnough
  BY DEF SleepInv
<1> QED
  BY <1>1, <1>2, <1>3, SchedulerSafe, PTL DEF SchedulerSpec
=============================================================================
