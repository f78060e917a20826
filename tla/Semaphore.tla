----------------------------- MODULE Semaphore -----------------------------
(***************************************************************************)
(* sync::Semaphore: counting semaphores on top of the kernel, given and    *)
(* tried by tasks and by interrupt handlers.  A handler runs between any   *)
(* two steps of Thread mode; its critical section and its trigger_pendsv() *)
(* are one step, for only SysTick may come between them and neither is     *)
(* seen by the other.                                                      *)
(***************************************************************************)
EXTENDS Kernel

CONSTANTS
    Sems,           \* the semaphores of the application
    InitialCount,   \* the initial count of each, u8
    MaxCount,       \* the max of each, u8
    Takers,         \* the tasks that call take and try_take
    Givers,         \* the tasks that call give
    IsrGiven,       \* the semaphores interrupt handlers give
    IsrTried        \* the semaphores interrupt handlers call try_take of

\* new() does not check its arguments: initial may be above max.
ASSUME SemaphoreAssumption ==
    /\ IsFiniteSet(Sems)
    /\ InitialCount \in [Sems -> 0 .. 255]
    /\ MaxCount \in [Sems -> 0 .. 255]
    /\ Takers \subseteq Users
    /\ Givers \subseteq Users
    /\ IsrGiven \subseteq Sems
    /\ IsrTried \subseteq Sems

VARIABLES
    count,      \* SemaphoreInner.count
    waiters,    \* the list at SemaphoreInner.wait_head
    taking      \* the semaphore whose take() a task has blocked in, as a set

semVars == <<count, waiters, taking>>
vars == <<kernelVars, semVars>>

TypeOK ==
    /\ KernelTypeOK
    /\ count \in [Sems -> 0 .. 255]
    /\ waiters \in [Sems -> Seq(Users)]
    /\ taking \in [Users -> SUBSET Sems]

Init ==
    /\ KernelInit
    /\ count = InitialCount
    /\ waiters = [s \in Sems |-> <<>>]
    /\ taking = [t \in Users |-> {}]

-----------------------------------------------------------------------------
\* A token is there, and whoever asks gets it: the fast path of take, and a
\* try_take that succeeds (one that fails changes nothing).
TokenTaken(s) ==
    /\ count[s] > 0
    /\ count' = [count EXCEPT ![s] = @ - 1]
    /\ UNCHANGED <<kernelVars, waiters, taking>>

TakeNow(t, s) ==
    /\ t \in Takers
    /\ Calls(t)
    /\ TokenTaken(s)

\* take without a token, up to the end of the critical section.
TakeBlocks(t, s) ==
    /\ t \in Takers
    /\ Calls(t)
    /\ count[s] = 0
    /\ LeaveRunning(t, "Blocked")
    /\ waiters' = [waiters EXCEPT ![s] = Cons(t, @)]
    /\ taking' = [taking EXCEPT ![t] = {s}]
    /\ UNCHANGED <<current, left, priority, pendsv, seen, count>>

\* A kernel call returns; if it is take(), with a token.
CallReturns(t) ==
    /\ Return(t)
    /\ taking' = [taking EXCEPT ![t] = {}]
    /\ UNCHANGED <<count, waiters>>

\* give without a waiter: the token is kept, or dropped when the semaphore is
\* full.
KeptAlways(s) == count[s] + 1               \* mutant: no test for max
Kept(s) == IF count[s] < MaxCount[s] THEN count[s] + 1 ELSE count[s]

\* mutant: the token is counted with tasks waiting for it.
GiveCountsFirst(s) ==
    /\ count' = [count EXCEPT ![s] = Kept(s)]
    /\ UNCHANGED <<kernelVars, waiters, taking>>

GiveCounts(s) ==
    /\ waiters[s] = <<>>
    /\ count' = [count EXCEPT ![s] = Kept(s)]
    /\ UNCHANGED <<kernelVars, waiters, taking>>

\* give with a waiter: the highest-priority one gets the token and can run.
Wakes(s, u) ==
    \E i \in DOMAIN waiters[s] :
        /\ u = waiters[s][i]
        /\ IsHighest(waiters[s], i)
        /\ waiters' = [waiters EXCEPT ![s] = Popped(@, i)]
        /\ Unblock(u)

\* give by a task.
Give(t, s) ==
    /\ t \in Givers
    /\ Calls(t)
    /\ \/ GiveCounts(s)
       \/ \E u \in Users :
             /\ Wakes(s, u)
             /\ PreemptFor(t, u, priority[t])
             /\ UNCHANGED <<current, left, priority, pendsv, seen, count, taking>>

\* give by an interrupt handler: the comparison is with the priority of the
\* interrupted task, whatever that task was doing.
IsrGive(s) ==
    /\ s \in IsrGiven
    /\ \/ GiveCounts(s)
       \/ \E u \in Users :
             /\ Wakes(s, u)
             /\ pendsv' = (pendsv \/ Outranks(u, current))
             /\ UNCHANGED <<current, left, priority, seen, pc, count, taking>>

IsrTryTake(s) == s \in IsrTried /\ TokenTaken(s)

TaskExits(t) == Exit(t) /\ UNCHANGED semVars

TaskStep(t) ==
    \/ \E s \in Sems : TakeNow(t, s) \/ TakeBlocks(t, s) \/ Give(t, s)
    \/ CallReturns(t)
    \/ TaskExits(t)

Next ==
    \/ KernelStep /\ UNCHANGED semVars
    \/ \E t \in Users : TaskStep(t)
    \/ \E s \in Sems : IsrGive(s) \/ IsrTryTake(s)

Spec == Init /\ [][Next]_vars

(***************************************************************************)
(* Fairness of the interrupts and of kernel calls under way as in module   *)
(* Scheduler.  Nothing obliges a task to give or take; an interrupt that   *)
(* signals a semaphore keeps doing so.                                     *)
(***************************************************************************)
Unchanging(A) == A /\ UNCHANGED semVars

Fairness ==
    /\ WF_vars(Unchanging(Launch))
    /\ WF_vars(Unchanging(SysTick))
    /\ SF_vars(Unchanging(TickRunning))
    /\ WF_vars(Unchanging(PendSV))
    /\ \A t \in Users :
          SF_vars(Unchanging(SleepUntil(t) \/ Trigger(t)) \/ CallReturns(t))
    /\ \A s \in Sems : WF_vars(IsrGive(s))

FairSpec == Spec /\ Fairness

-----------------------------------------------------------------------------
Waiting(s) == ToSet(waiters[s])

\* A task is Blocked exactly when it is in the list of the semaphore it takes,
\* and it is in it once.
BlockedExactlyWaiting ==
    /\ \A t \in Users : \A s \in Sems :
          t \in Waiting(s) <=> state[t] = "Blocked" /\ s \in taking[t]
    /\ \A t \in Users : state[t] = "Blocked" => taking[t] # {}
    /\ \A s \in Sems : IsInjective(waiters[s])

\* The variables keep their types, and no step loses a waiter from a list, leaves a
\* woken task in one, or blocks a task outside of one.
Consistent == TypeOK /\ BlockedExactlyWaiting

\* No task waits beside a token: give hands its token over before it counts it,
\* and take, try_take and give may come from tasks and interrupts in any order.
NoTokenWhileWaiting == \A s \in Sems : waiters[s] # <<>> => count[s] = 0

(***************************************************************************)
(* What the tasks and handlers see is a bounded bag of tokens: nobody gets *)
(* one that was not given, the count stays within max unless the semaphore *)
(* was created past it, and a token on its way to a task that was woken    *)
(* and has not returned from take() is nobody else's.                      *)
(***************************************************************************)
Bag == INSTANCE Tokens WITH
          tokens <- count,
          promised <- [t \in Users |-> IF state[t] = "Blocked" THEN {} ELSE taking[t]]

ImplementsTokens == Bag!Spec

\* A task that outranks every other one and blocks in take() of a semaphore that
\* interrupts keep giving returns from it with a token.
TopTaskTakes ==
    \A t \in Users : \A s \in IsrGiven :
        (\A u \in Tasks \ {t} : BasePrio[t] < BasePrio[u])
            => (s \in taking[t] ~> taking[t] = {})
=============================================================================
