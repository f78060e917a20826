------------------------------- MODULE Kernel -------------------------------
(***************************************************************************)
(* The kangaroos kernel: task control blocks, the SysTick and PendSV       *)
(* handlers, the launch of the first task, and the task calls that need no *)
(* synchronisation object (yield_now, sleep, sleep_until, exit).  Modules  *)
(* of synchronisation primitives EXTEND this one and conjoin the actions   *)
(* below with what their own variables do.                                 *)
(*                                                                         *)
(* One core.  The code of `current' runs in Thread mode, one step of it    *)
(* between two points where an exception may be taken: a critical section  *)
(* (port::interrupt_free) is one step, the trigger_pendsv() after it is    *)
(* another.  SysTick may be taken between any two steps; a pending PendSV  *)
(* is taken before the next step of Thread mode.  PendSV has the lowest    *)
(* priority and masks nothing, so SysTick and the interrupt handlers of    *)
(* the application may preempt it: it is two steps.                        *)
(*                                                                         *)
(* Tasks are numbered by their position in the ALL_TASKS list, head first, *)
(* so all_next of task i is i + 1.  start() registers the idle task last   *)
(* and spawn_into prepends, which makes the idle task number 1.            *)
(***************************************************************************)
EXTENDS Naturals, FiniteSets, SequencesExt

CONSTANTS
    N,          \* number of tasks, the idle task included
    BasePrio,   \* base_priority of each task: 0 is the highest, u8
    TimeSlice,  \* time_slice of each task, in ticks, u8
    Yielders,   \* the tasks that call yield_now
    Sleepers,   \* the tasks that call sleep
    Durations,  \* the durations they sleep for, in ticks
    Exiters     \* the tasks that may call exit

MaxPrio == 255                      \* u8::MAX
Tasks == 1 .. N
Idle == 1
Users == Tasks \ {Idle}
NoTask == 0                         \* the null pointer

ASSUME KernelAssumption ==
    /\ N \in Nat \ {0}
    /\ BasePrio \in [Tasks -> 0 .. MaxPrio]
    /\ TimeSlice \in [Tasks -> 0 .. 255]
    /\ BasePrio[Idle] = MaxPrio /\ TimeSlice[Idle] = 1     \* idle::register
    /\ Yielders \subseteq Users
    /\ Sleepers \subseteq Users
    /\ Durations \subseteq Nat
    /\ Exiters \subseteq Users

\* svc_first_task_sp compares with u8::MAX strictly, so a kernel whose every
\* task has that priority has no first task: module Boot is about that case.
ASSUME SomeTaskAboveIdle == \E t \in Tasks : BasePrio[t] < MaxPrio

VARIABLES
    current,    \* CURRENT: the task on the CPU, NoTask before the launch
    state,      \* Tcb.state without its payload
    slice,      \* slice_remaining, the payload of Ready and Running (else 0)
    left,       \* deadline - TICK of the last sleep, 0 once it has passed
    priority,   \* Tcb.priority, the effective priority
    pendsv,     \* PENDSVSET in ICSR: a context switch is requested
    seen,       \* PendSV is executing: the tasks find_next will see Ready; else {}
    pc          \* where the code of each task is

kernelVars == <<current, state, slice, left, priority, pendsv, seen, pc>>

(***************************************************************************)
(* Where the code of a task is.  "user": in the task's own code, between   *)
(* two kernel calls.  "sleep_until": sleep() has computed a deadline and   *)
(* has not entered the critical section of sleep_until().  "trigger": past *)
(* the critical section of a call, about to execute trigger_pendsv().      *)
(* "return": past trigger_pendsv(), to return from the call when it next   *)
(* has the CPU.                                                            *)
(***************************************************************************)
Points == {"user", "sleep_until", "trigger", "return"}

TaskStates == {"Ready", "Running", "Blocked", "Sleeping", "Dead"}

KernelTypeOK ==
    /\ current \in Tasks \cup {NoTask}
    /\ state \in [Tasks -> TaskStates]
    /\ slice \in [Tasks -> 0 .. 255]
    /\ left \in [Tasks -> Nat]
    /\ priority \in [Tasks -> 0 .. MaxPrio]
    /\ pendsv \in BOOLEAN
    /\ seen \subseteq Tasks
    /\ pc \in [Tasks -> Points]
    /\ state[Idle] \in {"Ready", "Running"}            \* find_next finds a task
    /\ current = NoTask => ~pendsv /\ seen = {}        \* and CURRENT is not null

\* Every task has been spawned (Ready, a full slice) and none is running.
KernelInit ==
    /\ current = NoTask
    /\ state = [t \in Tasks |-> "Ready"]
    /\ slice = TimeSlice
    /\ left = [t \in Tasks |-> 0]
    /\ priority = BasePrio
    /\ pendsv = FALSE
    /\ seen = {}
    /\ pc = [t \in Tasks |-> "user"]

-----------------------------------------------------------------------------
(***************************************************************************)
(* The scheduler.                                                          *)
(***************************************************************************)

Outranks(t, u) == priority[t] < priority[u]

FromHead(t) == t                            \* mutant: no round-robin start

\* The place of t in the order find_next visits the list: it starts at the
\* task after CURRENT, wraps at the end, and reaches CURRENT last.
ScanPosition(t) == IF t > current THEN t - current ELSE t + N - current

\* find_next returns t when it sees the tasks in R able to run: the highest
\* priority among them, the first one visited among equals.
IsNext(t, R) ==
    /\ t \in R
    /\ \A u \in R :
          \/ Outranks(t, u)
          \/ priority[t] = priority[u] /\ ScanPosition(t) <= ScanPosition(u)

\* svc_first_task_sp: the first task of the highest priority, from the list
\* head, becomes CURRENT.
IsFirst(t) ==
    /\ state[t] = "Ready"
    /\ priority[t] < MaxPrio
    /\ \A u \in Tasks :
          state[u] = "Ready" => Outranks(t, u) \/ (priority[t] = priority[u] /\ t <= u)

Launch ==
    /\ current = NoTask
    /\ \E t \in Tasks :
          /\ IsFirst(t)
          /\ current' = t
          /\ state' = [state EXCEPT ![t] = "Running"]
    /\ UNCHANGED <<slice, left, priority, pendsv, seen, pc>>

\* mutants: Running is not taken back; and every outgoing task becomes Ready.
NotSwitchedOut == state
SwitchedOutAlways == [state EXCEPT ![current] = "Ready"]

\* The task states once PendSV has put the outgoing task back in the run queue.
\* A task that is Blocked, Sleeping or Dead stays so, and so does one that was
\* made Ready again before it could be switched out.
SwitchedOut ==
    IF state[current] = "Running" THEN [state EXCEPT ![current] = "Ready"] ELSE state

ReadyIn(st) == {t \in Tasks : st[t] = "Ready"}

(***************************************************************************)
(* The PendSV handler, pendsv_save_and_switch.  Entering it clears         *)
(* PENDSVSET; it puts the outgoing task back and starts to walk the list.  *)
(***************************************************************************)
PendSVEnter ==
    /\ pendsv
    /\ seen = {}
    /\ pendsv' = FALSE
    /\ state' = SwitchedOut
    /\ seen' = ReadyIn(SwitchedOut)
    /\ UNCHANGED <<current, slice, left, priority, pc>>

\* find_next may or may not see a task that an interrupt handler made Ready
\* meanwhile: it has walked past it already, or has not.
PendSVSwitch ==
    /\ seen # {}
    /\ \E missed \in SUBSET (ReadyIn(state) \ seen) : \E next \in Tasks :
          /\ IsNext(next, ReadyIn(state) \ missed)
          /\ current' = next
          /\ state' = [state EXCEPT ![next] = "Running"]
    /\ seen' = {}
    /\ UNCHANGED <<slice, left, priority, pendsv, pc>>

PendSV == PendSVEnter \/ PendSVSwitch

-----------------------------------------------------------------------------
(***************************************************************************)
(* The SysTick handler.  TICK is not a variable: left[t] is how far it is  *)
(* from the deadline of t, so a tick brings every deadline one closer.     *)
(***************************************************************************)

Elapsed == [t \in Tasks |-> IF left[t] > 0 THEN left[t] - 1 ELSE 0]

\* mutants: a tick early; and now == deadline instead of now >= deadline.
DueEarly(t) == t # current /\ state[t] = "Sleeping" /\ Elapsed[t] <= 1
DueExactly(t) == t # current /\ state[t] = "Sleeping" /\ left[t] = 1

\* The running task is not looked at, nor is a deadline still ahead.
DueNow(t) == t # current /\ state[t] = "Sleeping" /\ Elapsed[t] = 0

\* A tick that finds no task running: before the launch, or when the task on
\* the CPU has left the Running state and has not been switched out yet.  Only
\* TICK advances.
TickIgnored ==
    /\ current # NoTask => state[current] # "Running"
    /\ left' = Elapsed
    /\ UNCHANGED <<current, state, slice, priority, pendsv, seen, pc>>

WithWoken == [t \in Tasks |-> IF DueNow(t) THEN "Ready" ELSE state[t]]

SlicesWithWoken == [t \in Tasks |-> IF DueNow(t) THEN TimeSlice[t] ELSE slice[t]]

\* mutant: what this very tick wakes is not looked at.
PreemptForReady == \E t \in Tasks : state[t] = "Ready" /\ Outranks(t, current)

\* A task that can run at once outranks the running one.
MustPreempt == \E t \in Tasks : WithWoken[t] = "Ready" /\ Outranks(t, current)

SliceExpires == slice[current] <= 1

UnguardedCharge == slice[current] - 1       \* mutant: no test for zero, no reload

ChargedSlice == IF SliceExpires THEN TimeSlice[current] ELSE slice[current] - 1

PeerReady ==
    \E t \in Tasks \ {current} :
        WithWoken[t] = "Ready" /\ priority[t] = priority[current]

\* A tick that finds the task on the CPU running.  The slice of that task is
\* charged only when the tick does not preempt it.
TickRunning ==
    /\ current # NoTask
    /\ state[current] = "Running"
    /\ left' = Elapsed
    /\ state' = WithWoken
    /\ \/ /\ MustPreempt
          /\ pendsv' = TRUE
          /\ slice' = SlicesWithWoken
       \/ /\ ~MustPreempt
          /\ pendsv' = (pendsv \/ (SliceExpires /\ PeerReady))
          /\ slice' = [SlicesWithWoken EXCEPT ![current] = ChargedSlice]
    /\ UNCHANGED <<current, priority, seen, pc>>

SysTick == TickIgnored \/ TickRunning

-----------------------------------------------------------------------------
(***************************************************************************)
(* The code of a task, one step at a time.                                 *)
(***************************************************************************)

\* t executes its next step: it has the CPU and no exception is pending.  The
\* idle task only waits for interrupts.
Thread(t) == current = t /\ t # Idle /\ ~pendsv /\ seen = {}

\* t is in its own code and makes a kernel call.  Which calls a task makes is
\* up to the application; the constants limit it.
Calls(t) == Thread(t) /\ pc[t] = "user"

\* The critical section of a call that leaves the Running state: st is the
\* state entered.  trigger_pendsv() follows.
LeaveRunning(t, st) ==
    /\ state' = [state EXCEPT ![t] = st]
    /\ slice' = [slice EXCEPT ![t] = 0]
    /\ pc' = [pc EXCEPT ![t] = "trigger"]

\* yield_now: give up the rest of the slice, then request a switch.
YieldNow(t) ==
    /\ Calls(t)
    /\ t \in Yielders
    /\ slice' = [slice EXCEPT ![t] = 0]
    /\ pc' = [pc EXCEPT ![t] = "trigger"]
    /\ UNCHANGED <<current, state, left, priority, pendsv, seen>>

\* sleep, first critical section: the deadline is d ticks ahead.
Sleep(t, d) ==
    /\ Calls(t)
    /\ t \in Sleepers
    /\ left' = [left EXCEPT ![t] = d]
    /\ pc' = [pc EXCEPT ![t] = "sleep_until"]
    /\ UNCHANGED <<current, state, slice, priority, pendsv, seen>>

\* sleep_until: the deadline may have passed already; the task sleeps anyway.
SleepUntil(t) ==
    /\ Thread(t)
    /\ pc[t] = "sleep_until"
    /\ LeaveRunning(t, "Sleeping")
    /\ UNCHANGED <<current, left, priority, pendsv, seen>>

\* exit: the task is Dead and requests a switch it never comes back from.
Exit(t) ==
    /\ Calls(t)
    /\ t \in Exiters
    /\ LeaveRunning(t, "Dead")
    /\ UNCHANGED <<current, left, priority, pendsv, seen>>

\* trigger_pendsv(), outside any critical section.
Trigger(t) ==
    /\ Thread(t)
    /\ pc[t] = "trigger"
    /\ pendsv' = TRUE
    /\ pc' = [pc EXCEPT ![t] = "return"]
    /\ UNCHANGED <<current, state, slice, left, priority, seen>>

\* t has the CPU again after trigger_pendsv() and returns from the call.
Return(t) ==
    /\ Thread(t)
    /\ pc[t] = "return"
    /\ pc' = [pc EXCEPT ![t] = "user"]
    /\ UNCHANGED <<current, state, slice, left, priority, pendsv, seen>>

\* The interrupts, and the steps of a task that concern no other module.
KernelStep ==
    \/ Launch
    \/ SysTick
    \/ PendSV
    \/ \E t \in Users :
          \/ YieldNow(t)
          \/ \E d \in Durations : Sleep(t, d)
          \/ SleepUntil(t)
          \/ Trigger(t)

-----------------------------------------------------------------------------
(***************************************************************************)
(* What the synchronisation objects share: the intrusive list of the tasks *)
(* that wait for an object, head first, and the steps of block_and_push    *)
(* and unblock on the state of the kernel.                                 *)
(***************************************************************************)

IsHead(w, i) == w # <<>> /\ i = 1           \* mutant: the last to come, unranked

\* wait_list_pop_highest takes the entry at place i: none has a higher priority,
\* none nearer the head has the same.
IsHighest(w, i) ==
    /\ i \in DOMAIN w
    /\ \A j \in DOMAIN w :
          \/ Outranks(w[i], w[j])
          \/ priority[w[i]] = priority[w[j]] /\ i <= j

PoppedHead(w, i) == Tail(w)                 \* mutant: the head is unlinked

\* The list once wait_list_pop_highest has unlinked the entry at place i.
Popped(w, i) == RemoveAt(w, i)

\* unblock: u becomes Ready with a full slice.
Unblock(u) ==
    /\ state' = [state EXCEPT ![u] = "Ready"]
    /\ slice' = [slice EXCEPT ![u] = TimeSlice[u]]

\* mutant: u is not compared with anybody.
NoPreemptFor(t, u, p) == pc' = pc

\* The rest of a call by t that has unblocked u: trigger_pendsv() if u outranks
\* t, whose effective priority is now p.
PreemptFor(t, u, p) ==
    pc' = IF priority[u] < p THEN [pc EXCEPT ![t] = "trigger"] ELSE pc

-----------------------------------------------------------------------------
(***************************************************************************)
(* What every module that extends this one must keep true.                 *)
(***************************************************************************)

\* Code runs only on behalf of a task whose state is Running: wherever SysTick
\* and PendSV fall in a blocking call, a task that has the CPU with no switch
\* pending is Running unless it is between the critical section of a call and
\* its trigger_pendsv(); and no other task ever is Running, nor is any while
\* PendSV looks for the next one (tcb.rs, Running).
RunsOnlyWhenRunning ==
    /\ \A t \in Tasks : state[t] = "Running" => t = current /\ seen = {}
    /\ (current # NoTask /\ ~pendsv /\ seen = {} /\ pc[current] # "trigger")
          => state[current] = "Running"

\* A switch is on its way: PendSV is pending or executing, or the task on the
\* CPU is about to trigger it.
SwitchUnderWay == pendsv \/ seen # {} \/ pc[current] = "trigger"

\* A task that could run and has a higher effective priority than the one on
\* the CPU never waits unnoticed (README.md: "fixed-priority preemptive").
PreemptionPending ==
    \A t \in Tasks :
        (current # NoTask /\ state[t] = "Ready" /\ Outranks(t, current))
            => SwitchUnderWay

\* The same where interrupt handlers wake tasks: only a PendSV that such a handler
\* preempted forgets a preemption, and the next tick that finds a task running
\* makes up for it.
PreemptionsKept ==
    [][ /\ PreemptionPending /\ ~PreemptionPending'
              => PendSVSwitch /\ seen # ReadyIn(state)
        /\ TickRunning => PreemptionPending' ]_kernelVars

\* A task is back in its own code after sleep(d) no earlier than d ticks later,
\* wherever the ticks fall between the two critical sections of sleep, the
\* switch, the wake-up and the switch back (task.rs: "at least duration").
SleepsLongEnough == \A t \in Tasks : pc[t] = "user" => left[t] = 0
=============================================================================
