----------------------------- MODULE Scheduler -----------------------------
(***************************************************************************)
(* The scheduler with tasks that only yield, sleep and exit: what it       *)
(* promises without any synchronisation object.  The constants say which   *)
(* calls each task makes; a task may also make none and compute for ever.  *)
(***************************************************************************)
EXTENDS Kernel

SchedulerNext == KernelStep \/ \E t \in Users : Exit(t) \/ Return(t)

SchedulerSpec == KernelInit /\ [][SchedulerNext]_kernelVars

(***************************************************************************)
(* Fairness.  start() always launches; the hardware always raises SysTick  *)
(* and takes a pending PendSV; a task inside a kernel call that keeps      *)
(* getting the CPU gets on with the call.  SysTick has a period of 1 ms    *)
(* and the window in which a tick is ignored lasts a few instructions, so  *)
(* ticks do not fall in that window for ever: strong fairness of           *)
(* TickRunning.  Nothing obliges a task to make a call, or to end.         *)
(***************************************************************************)
SchedulerFairness ==
    /\ WF_kernelVars(Launch)
    /\ WF_kernelVars(SysTick)
    /\ SF_kernelVars(TickRunning)
    /\ WF_kernelVars(PendSV)
    /\ \A t \in Users : SF_kernelVars(SleepUntil(t) \/ Trigger(t) \/ Return(t))

SchedulerFairSpec == SchedulerSpec /\ SchedulerFairness

-----------------------------------------------------------------------------
(***************************************************************************)
(* Liveness.                                                               *)
(***************************************************************************)

\* Every sleep ends.
SleepersWake == \A t \in Users : state[t] = "Sleeping" ~> state[t] # "Sleeping"

\* A task no other one outranks gets the CPU whenever it is Ready: at once if it
\* has no peer, by round robin if it has, whatever its peers do with their slices.
TopTasksRun ==
    \A t \in Users :
        (\A u \in Tasks : BasePrio[t] <= BasePrio[u])
            => (state[t] = "Ready" ~> state[t] = "Running")

\* Round robin in every tier (README.md: "round-robin tiebreaking at equal
\* priorities"): if the CPU keeps coming back to the tasks of one priority, none
\* of them stays Ready for ever.
Peers(t) == {u \in Users : BasePrio[u] = BasePrio[t]}

PeersTakeTurns ==
    \A t \in Users :
        ([]<> \E u \in Peers(t) : state[u] = "Running") => []<>(state[t] # "Ready")
=============================================================================
