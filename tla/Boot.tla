-------------------------------- MODULE Boot --------------------------------
(***************************************************************************)
(* From reset to the first task: main spawns tasks, start() registers the  *)
(* idle task, and the SVC handler walks ALL_TASKS for the first task.      *)
(* Kernel takes the list this module builds for granted and numbers the    *)
(* tasks by their place in it.                                             *)
(***************************************************************************)
EXTENDS Naturals, FiniteSets, Functions

CONSTANTS
    UserTcbs,    \* the TCBs in the TaskStorage of each #[task] function
    IdleTcb,     \* the TCB in IDLE_STORAGE
    Null,        \* the null pointer
    Priorities   \* the priorities tasks are spawned with

MaxPrio == 255      \* u8::MAX

Tcbs == UserTcbs \cup {IdleTcb}

\* What the theorems about this module assume of the constants.
BootAssumption ==
    /\ IsFiniteSet(UserTcbs)
    /\ IdleTcb \notin UserTcbs
    /\ Null \notin Tcbs
    /\ Priorities \subseteq 0 .. MaxPrio

VARIABLES
    phase,      \* "main", "svc", "run", or "fault": a null TCB was dereferenced
    allTasks,   \* ALL_TASKS
    allNext,    \* Tcb.all_next
    state,      \* Tcb.state
    priority,   \* Tcb.priority
    current,    \* CURRENT
    cursor,     \* svc_first_task_sp: t
    best,       \* svc_first_task_sp: best
    bestPrio    \* svc_first_task_sp: best_prio

vars == <<phase, allTasks, allNext, state, priority, current, cursor, best, bestPrio>>

TypeOK ==
    /\ phase \in {"main", "svc", "run", "fault"}
    /\ allTasks \in Tcbs \cup {Null}
    /\ allNext \in [Tcbs -> Tcbs \cup {Null}]
    /\ state \in [Tcbs -> {"Uninit", "Ready", "Running"}]
    /\ priority \in [Tcbs -> 0 .. MaxPrio]
    /\ current \in Tcbs \cup {Null}
    /\ cursor \in Tcbs \cup {Null}
    /\ best \in Tcbs \cup {Null}
    /\ bestPrio \in 0 .. MaxPrio

\* Tcb::zeroed in every TaskStorage.
Init ==
    /\ phase = "main"
    /\ allTasks = Null
    /\ allNext = [b \in Tcbs |-> Null]
    /\ state = [b \in Tcbs |-> "Uninit"]
    /\ priority = [b \in Tcbs |-> 0]
    /\ current = Null
    /\ cursor = Null
    /\ best = Null
    /\ bestPrio = MaxPrio

-----------------------------------------------------------------------------
\* spawn_into: fill the TCB and prepend it to ALL_TASKS.
SpawnInto(b, p) ==
    /\ state' = [state EXCEPT ![b] = "Ready"]
    /\ priority' = [priority EXCEPT ![b] = p]
    /\ allNext' = [allNext EXCEPT ![b] = allTasks]
    /\ allTasks' = b

\* main spawns a task.  The factory #[task] generates makes a token for the same
\* TCB every time it is called and nothing checks that the task is new: spawning
\* a task once is up to the application.
Spawn(b, p) ==
    /\ phase = "main"
    /\ state[b] = "Uninit"
    /\ SpawnInto(b, p)
    /\ UNCHANGED <<phase, current, cursor, best, bestPrio>>

\* start: register the idle task, then SVC; svc_first_task_sp begins its walk.
Start ==
    /\ phase = "main"
    /\ SpawnInto(IdleTcb, MaxPrio)
    /\ phase' = "svc"
    /\ cursor' = IdleTcb
    /\ best' = Null
    /\ bestPrio' = MaxPrio
    /\ UNCHANGED current

\* One turn of the loop of svc_first_task_sp.
IsBetter(b) == state[b] = "Ready" /\ priority[b] < bestPrio

Visit ==
    /\ phase = "svc"
    /\ cursor # Null
    /\ best' = IF IsBetter(cursor) THEN cursor ELSE best
    /\ bestPrio' = IF IsBetter(cursor) THEN priority[cursor] ELSE bestPrio
    /\ cursor' = allNext[cursor]
    /\ UNCHANGED <<phase, allTasks, allNext, state, priority, current>>

\* The walk is over: the best task becomes CURRENT and Running.
Launch ==
    /\ phase = "svc"
    /\ cursor = Null
    /\ current' = best
    /\ \/ /\ best # Null
          /\ state' = [state EXCEPT ![best] = "Running"]
          /\ phase' = "run"
       \/ /\ best = Null
          /\ phase' = "fault"
          /\ UNCHANGED state
    /\ UNCHANGED <<allTasks, allNext, priority, cursor, best, bestPrio>>

Next ==
    \/ \E b \in UserTcbs, p \in Priorities : Spawn(b, p)
    \/ Start
    \/ Visit
    \/ Launch

Spec == Init /\ [][Next]_vars

-----------------------------------------------------------------------------
Spawned == {b \in Tcbs : state[b] # "Uninit"}

\* The variables keep their types and ALL_TASKS is a list: it starts somewhere,
\* goes through every spawned TCB once, and ends.  Every walk of the kernel relies
\* on it to end and to see every task.
ListIsChain ==
    LET n == Cardinality(Spawned)
    IN  /\ TypeOK
        /\ IF n = 0
           THEN allTasks = Null
           ELSE \E at \in Bijection(1 .. n, Spawned) :
                   /\ allTasks = at[1]
                   /\ \A i \in 1 .. n - 1 : allNext[at[i]] = at[i + 1]
                   /\ allNext[at[n]] = Null

\* What the walk is for: the task it starts is one that no spawned task outranks, in
\* whatever order they were spawned, and it finds none only if none is above the idle
\* task.
FirstIsHighest ==
    /\ phase = "run" => \A b \in Spawned : priority[current] <= priority[b]
    /\ phase = "fault" => \A b \in Spawned : priority[b] = MaxPrio
=============================================================================
