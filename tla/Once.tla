-------------------------------- MODULE Once --------------------------------
(***************************************************************************)
(* sync::Once on top of the kernel: the first caller of call_once runs the *)
(* closure, outside any critical section, and the others wait for it.      *)
(* Like Condvar this module has no next-state relation of its own: what a  *)
(* closure does is the application's (see LazyPool).                       *)
(***************************************************************************)
EXTENDS Kernel

CONSTANTS
    Onces,      \* the Onces of the application
    CallersOf   \* the tasks that call call_once of each

ASSUME OnceAssumption ==
    /\ IsFiniteSet(Onces)
    /\ CallersOf \in [Onces -> SUBSET Users]

VARIABLES
    onceState,      \* OnceInner.state
    onceWaiters,    \* the list at OnceInner.wait_head
    initialising,   \* the Onces whose closure a task is in
    waitingFor      \* the Once whose call_once a task has blocked in, as a set

onceVars == <<onceState, onceWaiters, initialising, waitingFor>>

OnceTypeOK ==
    /\ onceState \in [Onces -> {"Unstarted", "Running", "Done"}]
    /\ onceWaiters \in [Onces -> Seq(Users)]
    /\ initialising \in [Users -> SUBSET Onces]
    /\ waitingFor \in [Users -> SUBSET Onces]

OnceInit ==
    /\ onceState = [o \in Onces |-> "Unstarted"]
    /\ onceWaiters = [o \in Onces |-> <<>>]
    /\ initialising = [t \in Users |-> {}]
    /\ waitingFor = [t \in Users |-> {}]

-----------------------------------------------------------------------------
\* A closure that calls a Once whose closure is running may wait for itself; the
\* application must not do that, and here closures call no Once.
CallsOnce(t, o) ==
    /\ t \in CallersOf[o]
    /\ Calls(t)
    /\ initialising[t] = {}

\* mutant: only a Once that is Done is left alone.
NotDone(o) == onceState[o] # "Done"

NotStarted(o) == onceState[o] = "Unstarted"

\* The first call: t is the initialiser and goes on into the closure.
CallRuns(t, o) ==
    /\ CallsOnce(t, o)
    /\ NotStarted(o)
    /\ onceState' = [onceState EXCEPT ![o] = "Running"]
    /\ initialising' = [initialising EXCEPT ![t] = {o}]
    /\ UNCHANGED <<kernelVars, onceWaiters, waitingFor>>

\* A call while the closure runs, up to the end of the critical section.  (One
\* after it has run changes nothing.)
CallBlocks(t, o) ==
    /\ CallsOnce(t, o)
    /\ onceState[o] = "Running"
    /\ LeaveRunning(t, "Blocked")
    /\ onceWaiters' = [onceWaiters EXCEPT ![o] = Cons(t, @)]
    /\ waitingFor' = [waitingFor EXCEPT ![t] = {o}]
    /\ UNCHANGED <<current, left, priority, pendsv, seen, onceState, initialising>>

\* mutant: the list is not drained, only its highest task is popped.
DrainsOne(o) ==
    LET w == onceWaiters[o]
        first == CHOOSE i \in DOMAIN w : IsHighest(w, i)
    IN  IF w = <<>> THEN [woken |-> {}, kept |-> w]
        ELSE [woken |-> {w[first]}, kept |-> Popped(w, first)]

\* The tasks that are woken when the closure has run, and the list they leave.
Drained(o) == [woken |-> ToSet(onceWaiters[o]), kept |-> <<>>]

\* The closure has returned; the critical section after it.  The order in which
\* the list is popped does not show, for every task in it becomes Ready.
Finish(t, o) ==
    LET woken == Drained(o).woken IN
    /\ Calls(t)
    /\ o \in initialising[t]
    /\ onceState' = [onceState EXCEPT ![o] = "Done"]
    /\ initialising' = [initialising EXCEPT ![t] = {}]
    /\ onceWaiters' = [onceWaiters EXCEPT ![o] = Drained(o).kept]
    /\ state' = [u \in Tasks |-> IF u \in woken THEN "Ready" ELSE state[u]]
    /\ slice' = [u \in Tasks |-> IF u \in woken THEN TimeSlice[u] ELSE slice[u]]
    /\ pc' = IF \E u \in woken : Outranks(u, t) THEN [pc EXCEPT ![t] = "trigger"] ELSE pc
    /\ UNCHANGED <<current, left, priority, pendsv, seen, waitingFor>>

\* A kernel call returns, call_once among them.
OnceReturns(t) ==
    /\ waitingFor' = [waitingFor EXCEPT ![t] = {}]
    /\ UNCHANGED <<onceState, onceWaiters, initialising>>

-----------------------------------------------------------------------------
\* A closure is executed by one task, exactly while the Once is Running; tasks
\* wait only then, and a caller that is past its wait, however it came to run
\* again, finds the initialisation complete (once.rs: "call f at most once across
\* all concurrent callers").
OnceRunsOnce ==
    \A o \in Onces :
        /\ Cardinality({t \in Users : o \in initialising[t]})
              = (IF onceState[o] = "Running" THEN 1 ELSE 0)
        /\ onceWaiters[o] # <<>> => onceState[o] = "Running"
        /\ \A t \in Users :
              o \in waitingFor[t] /\ state[t] # "Blocked" => onceState[o] = "Done"
=============================================================================
