------------------------------- MODULE Timer --------------------------------
(***************************************************************************)
(* timer::Timer, and task::sleep, with absolute time on top of the kernel. *)
(* Kernel keeps only the distance of a deadline from TICK and lets it be   *)
(* as large as a duration is; here TICK is a variable and deadlines are    *)
(* words that wrap, as in the code.                                        *)
(***************************************************************************)
EXTENDS Kernel

CONSTANTS
    Modulus,    \* 2^64 in the code: deadlines wrap there
    Horizon,    \* bound of the model: the last tick
    Delays,     \* the durations tasks sleep and set one-shot timers for
    Periods,    \* the periods of periodic timers
    TimerUsers  \* the tasks that sleep and have a timer

\* The uptime itself stays below the modulus (Instant::checked_duration_since:
\* wrapping "cannot happen in any realistic uptime"); deadlines may not.
ASSUME TimerAssumption ==
    /\ Modulus \in Nat /\ Horizon \in Nat /\ Horizon < Modulus
    /\ Delays \subseteq 0 .. Modulus - 1
    /\ Periods \subseteq 0 .. Modulus - 1
    /\ TimerUsers \subseteq Users

OneShot == Modulus                                  \* period: None
NoCall == [what |-> "none", since |-> 0, due |-> 0]

VARIABLES
    tick,       \* TICK
    deadline,   \* the payload of Sleeping, and the local of sleep before it
    next,       \* Timer.next of each task's timer
    period,     \* Timer.period
    due,        \* what `next' stands for, counted without wrapping
    call        \* the sleep or wait a task is in: when it was called, and when
                \* it may return, counted without wrapping

timeVars == <<tick, deadline, next, period, due, call>>
vars == <<kernelVars, timeVars>>

TypeOK ==
    /\ KernelTypeOK
    /\ tick \in 0 .. Horizon
    /\ deadline \in [Users -> 0 .. Modulus - 1]
    /\ next \in [Users -> 0 .. Modulus - 1]
    /\ period \in [Users -> 0 .. Modulus]
    /\ due \in [Users -> Nat]
    /\ call \in [Users -> [what : {"none", "sleep", "wait"}, since : 0 .. Horizon, due : Nat]]

\* Every task has a one-shot timer for tick 0 until it creates another one.
Init ==
    /\ KernelInit
    /\ tick = 0
    /\ deadline = [t \in Users |-> 0]
    /\ next = [t \in Users |-> 0]
    /\ period = [t \in Users |-> OneShot]
    /\ due = [t \in Users |-> 0]
    /\ call = [t \in Users |-> NoCall]

-----------------------------------------------------------------------------
Wrapped(n) == n % Modulus

\* mutant: the distance is taken in wrapping arithmetic.
AheadWrapped(at) == (at + Modulus - tick) % Modulus

\* How far the deadline `at' is from TICK for a test with >=.
Ahead(at) == IF at > tick THEN at - tick ELSE 0

\* t goes to sleep, now or in the next step, until TICK reaches `at'.
Aims(t, what, at, when) ==
    /\ deadline' = [deadline EXCEPT ![t] = at]
    /\ left' = [left EXCEPT ![t] = Ahead(at)]
    /\ call' = [call EXCEPT ![t] = [what |-> what, since |-> tick, due |-> when]]
    /\ UNCHANGED <<tick, next, period, due>>

\* sleep, first critical section; SleepUntil of Kernel is the second.
SleepFor(t, d) ==
    /\ t \in TimerUsers
    /\ Calls(t)
    /\ Aims(t, "sleep", Wrapped(tick + d), tick + d)
    /\ pc' = [pc EXCEPT ![t] = "sleep_until"]
    /\ UNCHANGED <<current, state, slice, priority, pendsv, seen>>

\* Timer::after and Timer::every: t makes a new timer for d ticks from now.
NewTimer(t, d, p) ==
    /\ t \in TimerUsers
    /\ Calls(t)
    /\ next' = [next EXCEPT ![t] = Wrapped(tick + d)]
    /\ period' = [period EXCEPT ![t] = p]
    /\ due' = [due EXCEPT ![t] = tick + d]
    /\ UNCHANGED <<kernelVars, tick, deadline, call>>

After(t, d) == NewTimer(t, d, OneShot)

Every(t, p) == NewTimer(t, p, p)

\* wait sleeps until the deadline of the timer, past or ahead.
Wait(t) ==
    /\ t \in TimerUsers
    /\ Calls(t)
    /\ Aims(t, "wait", next[t], due[t])
    /\ LeaveRunning(t, "Sleeping")
    /\ UNCHANGED <<current, priority, pendsv, seen>>

\* mutant: the period is counted from the return and not from the deadline.
AdvancedFromNow(t) == Wrapped(tick + period[t])

Advanced(t) == Wrapped(next[t] + period[t])

\* sleep or wait returns; a periodic timer is set to its next deadline.
CallReturns(t) ==
    /\ Return(t)
    /\ \/ /\ call[t].what = "wait" /\ period[t] # OneShot
          /\ next' = [next EXCEPT ![t] = Advanced(t)]
          /\ due' = [due EXCEPT ![t] = @ + period[t]]
       \/ /\ call[t].what # "wait" \/ period[t] = OneShot
          /\ UNCHANGED <<next, due>>
    /\ call' = [call EXCEPT ![t] = NoCall]
    /\ UNCHANGED <<tick, deadline, period>>

Tick ==
    /\ tick < Horizon
    /\ SysTick
    /\ tick' = tick + 1
    /\ UNCHANGED <<deadline, next, period, due, call>>

Next ==
    \/ Tick
    \/ (Launch \/ PendSV) /\ UNCHANGED timeVars
    \/ \E t \in Users :
          \/ \E d \in Delays : SleepFor(t, d) \/ After(t, d)
          \/ \E p \in Periods : Every(t, p)
          \/ Wait(t)
          \/ (SleepUntil(t) \/ Trigger(t)) /\ UNCHANGED timeVars
          \/ CallReturns(t)

Spec == Init /\ [][Next]_vars

-----------------------------------------------------------------------------
\* The variables keep their types, and the test of tick() with absolute words,
\* TICK >= deadline, is the one Kernel makes with distances: at every point of a
\* sleep, after any number of ignored ticks, and for deadlines that have wrapped.
TimeAgrees ==
    /\ TypeOK
    /\ \A t \in Users :
          pc[t] = "sleep_until" \/ state[t] = "Sleeping"
             => (tick >= deadline[t] <=> left[t] = 0)

\* A sleep or wait returns at its deadline or later, unless that lies beyond the
\* range of the tick counter; and a periodic timer that is late does not return at
\* once, but catches up one period per tick at most, so that lower tasks run meanwhile.
ReturnsWhenDue ==
    [][\A t \in Users :
          call[t] # NoCall /\ call'[t] = NoCall =>
             /\ tick >= call[t].due \/ call[t].due >= Modulus
             /\ call[t].what = "wait" /\ period[t] # OneShot => tick > call[t].since]_vars

\* No drift: the deadlines of a periodic timer are whole periods after it was
\* made, however late its task was each time (timer/mod.rs: "drift-free periodic
\* intervals"), and no tick that finds a task running leaves one asleep past its
\* deadline, though earlier ticks may have been ignored.
WakesWhenDue ==
    [][TickRunning => \A t \in Users : state'[t] = "Sleeping" => call[t].due > tick']_vars
=============================================================================
