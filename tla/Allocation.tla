----------------------------- MODULE Allocation -----------------------------
(***************************************************************************)
(* What a Pool promises its users: slots that are free or hold one value,  *)
(* and callers that wait for one only while none is free.  A slot whose    *)
(* value was destroyed goes to the waiting caller of the highest priority, *)
(* and holds the value of that caller at once.                             *)
(***************************************************************************)
EXTENDS Integers

CONSTANTS
    Users,      \* the tasks
    BasePrio,   \* the priority of each task, 0 is the highest
    Slots,      \* the slots
    Values,     \* what a slot may hold
    NoValue     \* not one of them

VARIABLES
    contents,   \* the value in each slot, or NoValue
    free,       \* the free slots
    boxed,      \* the slots whose box somebody has
    handed,     \* the slot each task is about to get a box of, as a set
    asks        \* the value each task waits to have stored, or NoValue

vars == <<contents, free, boxed, handed, asks>>

Asking == {t \in Users : asks[t] # NoValue}

\* The slots that are on their way back.
Emptied == Slots \ (free \cup boxed \cup UNION {handed[t] : t \in Users})

Init ==
    /\ contents = [s \in Slots |-> NoValue]
    /\ free = Slots
    /\ boxed = {}
    /\ handed = [t \in Users |-> {}]
    /\ asks = [t \in Users |-> NoValue]

Store(s, v) ==
    /\ s \in free
    /\ free' = free \ {s}
    /\ contents' = [contents EXCEPT ![s] = v]

\* A box of a free slot, at once or when the caller runs on.
Alloc(s, v) == Store(s, v) /\ boxed' = boxed \cup {s} /\ UNCHANGED <<handed, asks>>

Grant(t, s, v) ==
    /\ Store(s, v)
    /\ handed' = [handed EXCEPT ![t] = {s}]
    /\ UNCHANGED <<boxed, asks>>

Ask(t, v) ==
    /\ free = {}
    /\ asks' = [asks EXCEPT ![t] = v]
    /\ UNCHANGED <<contents, free, boxed, handed>>

\* t gets the box.
Receive(t) ==
    /\ handed[t] # {}
    /\ boxed' = boxed \cup handed[t]
    /\ handed' = [handed EXCEPT ![t] = {}]
    /\ UNCHANGED <<contents, free, asks>>

\* The value of a box is destroyed.
Destroy(s) ==
    /\ s \in boxed
    /\ boxed' = boxed \ {s}
    /\ contents' = [contents EXCEPT ![s] = NoValue]
    /\ UNCHANGED <<free, handed, asks>>

\* A slot comes back: `left' are the boxes and `cells' the contents without it.
ComesBack(s, left, cells) ==
    \/ /\ Asking = {}
       /\ free' = free \cup {s}
       /\ contents' = cells
       /\ boxed' = left
       /\ UNCHANGED <<handed, asks>>
    \/ \E u \in Asking :
          /\ \A t \in Asking : BasePrio[u] <= BasePrio[t]
          /\ contents' = [cells EXCEPT ![s] = asks[u]]
          /\ asks' = [asks EXCEPT ![u] = NoValue]
          /\ handed' = [handed EXCEPT ![u] = {s}]
          /\ boxed' = left
          /\ UNCHANGED free

GiveBack(s) == s \in Emptied /\ ComesBack(s, boxed, contents)

\* A handler destroys a value and gives the slot back in one go.
DestroyAndGiveBack(s) ==
    s \in boxed /\ ComesBack(s, boxed \ {s}, [contents EXCEPT ![s] = NoValue])

Next ==
    \/ \E s \in Slots, v \in Values :
          Alloc(s, v) \/ \E t \in Users : Grant(t, s, v)
    \/ \E t \in Users : Receive(t) \/ \E v \in Values : Ask(t, v)
    \/ \E s \in Slots : Destroy(s) \/ GiveBack(s) \/ DestroyAndGiveBack(s)

Spec == Init /\ [][Next]_vars
=============================================================================
