-------------------------------- MODULE Pool --------------------------------
(***************************************************************************)
(* mem::Pool on top of the kernel: a fixed number of slots, the free ones  *)
(* linked through an index array, allocated and dropped by tasks and by    *)
(* interrupt handlers.  A task that has to wait parks its value on its     *)
(* stack and the address in Tcb.wait_ptr; whoever drops a box moves the    *)
(* value and leaves the number of the slot in the same word.  Like Condvar *)
(* this module has no next-state relation of its own (see LazyPool).       *)
(***************************************************************************)
EXTENDS Kernel

CONSTANTS
    Capacity,   \* N of Pool<T, N>
    Values,     \* the values of T the application allocates
    NoValue,    \* an uninitialised, or moved-out, MaybeUninit<T>
    Stored,     \* the values each task allocates
    IsrStored,  \* the values interrupt handlers allocate
    PoolTriers, \* the tasks that call alloc
    Droppers,   \* the tasks that drop boxes
    IsrDrops    \* whether interrupt handlers drop boxes

\* new() asserts that N is at most 255.
ASSUME PoolAssumption ==
    /\ Capacity \in 0 .. 255
    /\ NoValue \notin Values
    /\ Stored \in [Users -> SUBSET Values]
    /\ IsrStored \subseteq Values
    /\ PoolTriers \subseteq Users
    /\ Droppers \subseteq Users
    /\ IsrDrops \in BOOLEAN

Slots == 0 .. Capacity - 1
Nil == 255                  \* 0xFF ends the free list
StackAddress == Nil + 1     \* wait_ptr while it points to a parked value

VARIABLES
    nodes, next, freeHead,  \* PoolInner
    allocWaiters,   \* the list at PoolInner.wait_head
    src,            \* src of a task parked in alloc_blocking
    waitPtr,        \* Tcb.wait_ptr
    allocating,     \* the tasks in alloc_blocking, past its critical section
    boxes,          \* how many PoolBoxes there are of each slot, whoever has them
    dropping        \* the slots a task has emptied and not given back yet

poolVars == <<nodes, next, freeHead, allocWaiters, src, waitPtr, allocating, boxes, dropping>>

PoolTypeOK ==
    /\ nodes \in [Slots -> Values \cup {NoValue}]
    /\ next \in [Slots -> Slots \cup {Nil}]
    /\ freeHead \in Slots \cup {Nil}
    /\ allocWaiters \in Seq(Users)
    /\ src \in [Users -> Values \cup {NoValue}]
    /\ waitPtr \in [Users -> Slots \cup {0, StackAddress}]
    /\ allocating \subseteq Users
    /\ boxes \in [Slots -> Nat]
    /\ dropping \in [Users -> SUBSET Slots]

PoolInit ==
    /\ nodes = [s \in Slots |-> NoValue]
    /\ next = [s \in Slots |-> IF s + 1 < Capacity THEN s + 1 ELSE Nil]
    /\ freeHead = IF Capacity = 0 THEN Nil ELSE 0
    /\ allocWaiters = <<>>
    /\ src = [t \in Users |-> NoValue]
    /\ waitPtr = [t \in Users |-> 0]
    /\ allocating = {}
    /\ boxes = [s \in Slots |-> 0]
    /\ dropping = [t \in Users |-> {}]

-----------------------------------------------------------------------------
(***************************************************************************)
(* Allocating.                                                             *)
(***************************************************************************)

\* The first free slot is s; it leaves the free list and holds v.
TakesFirst(s, v) ==
    /\ s \in Slots
    /\ s = freeHead
    /\ freeHead' = next[s]
    /\ nodes' = [nodes EXCEPT ![s] = v]
    /\ UNCHANGED <<next, allocWaiters, src, dropping>>

\* A box of slot s comes into being.
NewBox(s) == boxes' = [boxes EXCEPT ![s] = @ + 1]

\* alloc that succeeds (one that fails changes nothing).
Alloc(t, v) ==
    /\ t \in PoolTriers
    /\ Calls(t)
    /\ \E s \in Slots : TakesFirst(s, v) /\ NewBox(s)
    /\ UNCHANGED <<kernelVars, waitPtr, allocating>>

IsrAlloc(v) ==
    /\ \E s \in Slots : TakesFirst(s, v) /\ NewBox(s)
    /\ UNCHANGED <<kernelVars, waitPtr, allocating>>

\* alloc_blocking with a free slot: its number goes through wait_ptr all the
\* same, and is read there when the critical section is over.
AllocFast(t, v) ==
    /\ \E s \in Slots : TakesFirst(s, v) /\ waitPtr' = [waitPtr EXCEPT ![t] = s]
    /\ pc' = [pc EXCEPT ![t] = "return"]
    /\ UNCHANGED <<current, state, slice, left, priority, pendsv, seen, boxes>>

\* alloc_blocking without one, up to the end of the critical section.
AllocBlocks(t, v) ==
    /\ freeHead = Nil
    /\ src' = [src EXCEPT ![t] = v]
    /\ waitPtr' = [waitPtr EXCEPT ![t] = StackAddress]
    /\ allocWaiters' = Cons(t, allocWaiters)
    /\ LeaveRunning(t, "Blocked")
    /\ UNCHANGED <<current, left, priority, pendsv, seen, nodes, next, freeHead, boxes, dropping>>

AllocBlocking(t, v) ==
    /\ Calls(t)
    /\ AllocFast(t, v) \/ AllocBlocks(t, v)
    /\ allocating' = allocating \cup {t}

\* A kernel call returns; if it is alloc_blocking, with a box of the slot whose
\* number is in wait_ptr.
AllocReturns(t) ==
    /\ boxes' = IF t \in allocating THEN [boxes EXCEPT ![waitPtr[t]] = @ + 1] ELSE boxes
    /\ allocating' = allocating \ {t}
    /\ UNCHANGED <<nodes, next, freeHead, allocWaiters, src, waitPtr, dropping>>

-----------------------------------------------------------------------------
(***************************************************************************)
(* Dropping a box.  The value is destroyed outside the critical section,   *)
(* by T::drop, which may itself allocate, drop or block.                   *)
(***************************************************************************)

DropValue(t, s) ==
    /\ t \in Droppers
    /\ Calls(t)
    /\ boxes[s] > 0
    /\ boxes' = [boxes EXCEPT ![s] = @ - 1]
    /\ nodes' = [nodes EXCEPT ![s] = NoValue]
    /\ dropping' = [dropping EXCEPT ![t] = @ \cup {s}]
    /\ UNCHANGED <<kernelVars, next, freeHead, allocWaiters, src, waitPtr, allocating>>

\* mutant: free_head is set before it is linked.
LinkedLate(s) == [next EXCEPT ![s] = s]

\* The index array once slot s is in front of the free list.
Linked(s) == [next EXCEPT ![s] = freeHead]

\* mutant: nobody looks whether an allocator waits.
FreesFirst(s) ==
    /\ next' = Linked(s)
    /\ freeHead' = s
    /\ UNCHANGED <<nodes, allocWaiters, src, waitPtr>>

\* Nobody waits: slot s is the first of the free list.
Frees(s) ==
    /\ allocWaiters = <<>>
    /\ next' = Linked(s)
    /\ freeHead' = s
    /\ UNCHANGED <<nodes, allocWaiters, src, waitPtr>>

\* The highest-priority waiter u gets the slot, with its value in it, and can run.
HandsOver(s, u) ==
    /\ \E i \in DOMAIN allocWaiters :
          /\ u = allocWaiters[i]
          /\ IsHighest(allocWaiters, i)
          /\ allocWaiters' = Popped(allocWaiters, i)
    /\ nodes' = [nodes EXCEPT ![s] = src[u]]
    /\ src' = [src EXCEPT ![u] = NoValue]
    /\ waitPtr' = [waitPtr EXCEPT ![u] = s]
    /\ Unblock(u)
    /\ UNCHANGED <<next, freeHead>>

\* The critical section of drop by a task.
DropSlot(t, s) ==
    /\ Calls(t)
    /\ s \in dropping[t]
    /\ dropping' = [dropping EXCEPT ![t] = @ \ {s}]
    /\ \/ Frees(s) /\ UNCHANGED kernelVars
       \/ \E u \in Users :
             /\ HandsOver(s, u)
             /\ PreemptFor(t, u, priority[t])
             /\ UNCHANGED <<current, left, priority, pendsv, seen>>
    /\ UNCHANGED <<allocating, boxes>>

\* drop by an interrupt handler, with the destruction of the value.
IsrDrop(s) ==
    /\ IsrDrops
    /\ boxes[s] > 0
    /\ boxes' = [boxes EXCEPT ![s] = @ - 1]
    /\ \/ /\ allocWaiters = <<>>
          /\ nodes' = [nodes EXCEPT ![s] = NoValue]
          /\ next' = Linked(s)
          /\ freeHead' = s
          /\ UNCHANGED <<kernelVars, allocWaiters, src, waitPtr>>
       \/ \E u \in Users :
             /\ HandsOver(s, u)
             /\ pendsv' = (pendsv \/ Outranks(u, current))
             /\ UNCHANGED <<current, left, priority, seen, pc>>
    /\ UNCHANGED <<allocating, dropping>>

-----------------------------------------------------------------------------
\* The slot the walk of available() is at after n steps, or Nil.
WalkAt[n \in 0 .. Capacity] ==
    IF n = 0 THEN freeHead
    ELSE LET at == WalkAt[n - 1] IN IF at = Nil THEN Nil ELSE next[at]

FreeSlots == {WalkAt[n] : n \in 0 .. Capacity} \ {Nil}

\* The slot on its way to a task that is to return from alloc_blocking, as a set.
HandedTo(t) == IF t \in allocating /\ state[t] # "Blocked" THEN {waitPtr[t]} ELSE {}

\* Every slot has one owner, always: the free list, one box, one task that is
\* returning it, or one allocator that was handed it and has not run since.  The
\* free list ends, however allocations and drops of tasks, of handlers and from
\* inside T::drop interleave: no slot leaks and none is given twice.
SlotsHaveOneOwner ==
    /\ WalkAt[Capacity] = Nil
    /\ \A s \in Slots :
          LET Owners(who(_)) == Cardinality({t \in Users : s \in who(t)})
              returning(t) == dropping[t]
          IN  Cardinality(FreeSlots \cap {s}) + boxes[s] + Owners(returning) + Owners(HandedTo) = 1

(***************************************************************************)
(* What the users of a pool see: a value stays as it is from the call that *)
(* allocated it until its box is dropped, a blocked allocator gets a slot  *)
(* with its own value in it, the highest priority first, and nobody waits  *)
(* while a slot is free.                                                   *)
(***************************************************************************)
Allocator == INSTANCE Allocation WITH
                contents <- nodes,
                free <- FreeSlots,
                boxed <- {s \in Slots : boxes[s] > 0},
                handed <- [t \in Users |-> HandedTo(t)],
                asks <- [t \in Users |-> IF t \in ToSet(allocWaiters) THEN src[t] ELSE NoValue]

ImplementsAllocator == Allocator!Spec
=============================================================================
