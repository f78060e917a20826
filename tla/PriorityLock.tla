---------------------------- MODULE PriorityLock ----------------------------
(***************************************************************************)
(* What a Mutex promises its users: a lock that, when it is released with  *)
(* tasks waiting for it, goes to one of the highest base priority among    *)
(* them, and is never free for another task to slip in.                    *)
(***************************************************************************)
EXTENDS Naturals

CONSTANTS
    Users,      \* the tasks
    NoTask,     \* not one of them
    BasePrio,   \* the base priority of each task, 0 is the highest
    Mutexes     \* the locks

VARIABLES
    holder,     \* the task that has each lock, or NoTask
    queue       \* the tasks that wait for it

vars == <<holder, queue>>

Init ==
    /\ holder = [m \in Mutexes |-> NoTask]
    /\ queue = [m \in Mutexes |-> {}]

Enter(t, m) ==
    /\ holder[m] = NoTask
    /\ queue[m] = {}
    /\ holder' = [holder EXCEPT ![m] = t]
    /\ UNCHANGED queue

Wait(t, m) ==
    /\ holder[m] \notin {NoTask, t}
    /\ t \notin queue[m]
    /\ queue' = [queue EXCEPT ![m] = @ \cup {t}]
    /\ UNCHANGED holder

Leave(t, m) ==
    /\ holder[m] = t
    /\ queue[m] = {}
    /\ holder' = [holder EXCEPT ![m] = NoTask]
    /\ UNCHANGED queue

HandOver(t, m, u) ==
    /\ holder[m] = t
    /\ u \in queue[m]
    /\ \A v \in queue[m] : BasePrio[u] <= BasePrio[v]
    /\ holder' = [holder EXCEPT ![m] = u]
    /\ queue' = [queue EXCEPT ![m] = @ \ {u}]

Next ==
    \E t \in Users, m \in Mutexes :
        \/ Enter(t, m)
        \/ Wait(t, m)
        \/ Leave(t, m)
        \/ \E u \in Users : HandOver(t, m, u)

Spec == Init /\ [][Next]_vars
=============================================================================
