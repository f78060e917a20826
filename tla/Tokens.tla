------------------------------- MODULE Tokens -------------------------------
(***************************************************************************)
(* What a counting semaphore promises its users: a bounded bag of tokens.  *)
(* A token given while the bag is empty may be promised to one task, which *)
(* collects it later and nobody else can take; other tokens go into the    *)
(* bag, and are dropped when it is full.                                   *)
(***************************************************************************)
EXTENDS Naturals

CONSTANTS
    Users,          \* the tasks
    Sems,           \* the semaphores
    InitialCount,   \* how many tokens each starts with
    MaxCount        \* how many it keeps at most

VARIABLES
    tokens,     \* how many tokens there are in each bag
    promised    \* the semaphore each task has been promised a token of, as a set

vars == <<tokens, promised>>

Init ==
    /\ tokens = InitialCount
    /\ promised = [t \in Users |-> {}]

Give(s) ==
    /\ tokens[s] < MaxCount[s]
    /\ tokens' = [tokens EXCEPT ![s] = @ + 1]
    /\ UNCHANGED promised

Promise(t, s) ==
    /\ tokens[s] = 0
    /\ promised[t] = {}
    /\ promised' = [promised EXCEPT ![t] = {s}]
    /\ UNCHANGED tokens

Take(s) ==
    /\ tokens[s] > 0
    /\ tokens' = [tokens EXCEPT ![s] = @ - 1]
    /\ UNCHANGED promised

Collect(t) ==
    /\ promised' = [promised EXCEPT ![t] = {}]
    /\ UNCHANGED tokens

Next ==
    \/ \E s \in Sems : Give(s) \/ Take(s) \/ \E t \in Users : Promise(t, s)
    \/ \E t \in Users : Collect(t)

Spec == Init /\ [][Next]_vars
=============================================================================
