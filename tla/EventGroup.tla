----------------------------- MODULE EventGroup -----------------------------
(***************************************************************************)
(* sync::EventGroup on top of the kernel: a word of event flags that tasks *)
(* wait for, any of a mask or all of it, set by tasks and by interrupt     *)
(* handlers.  Whoever a set() wakes consumes the flags it waited for.      *)
(* Unlike the other primitives, set() walks its lists in order, the last   *)
(* task to block first, whatever the priorities.                           *)
(***************************************************************************)
EXTENDS Kernel

CONSTANTS
    Flags,      \* the flags in use, of 32
    AnyMasks,   \* the masks each task calls wait_any with
    AllMasks,   \* the masks each task calls wait_all with
    Setters,    \* the tasks that call set and clear
    SetMasks,   \* the masks they call them with
    IsrSets     \* the masks set by interrupt handlers

\* wait_any of the empty mask never returns, and wait_all of it returns at once:
\* neither is of use.
ASSUME EventGroupAssumption ==
    /\ IsFiniteSet(Flags)
    /\ AnyMasks \in [Users -> SUBSET ((SUBSET Flags) \ {{}})]
    /\ AllMasks \in [Users -> SUBSET ((SUBSET Flags) \ {{}})]
    /\ Setters \subseteq Users
    /\ SetMasks \subseteq SUBSET Flags
    /\ IsrSets \subseteq SUBSET Flags

VARIABLES
    bits,       \* EventGroupInner.bits, as the set of the flags that are set
    anyList,    \* the list at wait_any_head
    allList,    \* the list at wait_all_head
    waitPtr,    \* Tcb.wait_ptr: the mask a task waits for, then what it matched
    waiting     \* the call a task has blocked in, <<which, mask>>, or NoCall

NoCall == <<"none", {}>>

eventVars == <<bits, anyList, allList, waitPtr, waiting>>
vars == <<kernelVars, eventVars>>

TypeOK ==
    /\ KernelTypeOK
    /\ bits \subseteq Flags
    /\ anyList \in Seq(Users)
    /\ allList \in Seq(Users)
    /\ waitPtr \in [Users -> SUBSET Flags]
    /\ waiting \in [Users -> ({"any", "all"} \X SUBSET Flags) \cup {NoCall}]

Init ==
    /\ KernelInit
    /\ bits = {}
    /\ anyList = <<>>
    /\ allList = <<>>
    /\ waitPtr = [t \in Users |-> {}]
    /\ waiting = [t \in Users |-> NoCall]

-----------------------------------------------------------------------------
(***************************************************************************)
(* The scans of set: what is left of the flags, the tasks that stay in the *)
(* list, and what each task was given.                                     *)
(***************************************************************************)
Unscanned(b) == [bits |-> b, stay |-> <<>>, given |-> [t \in Users |-> {}]]

\* mutant: unlinking a task loses the ones before it.
StaysAlone(scan, t) == [scan EXCEPT !.stay = <<t>>]

Stays(scan, t) == [scan EXCEPT !.stay = Append(@, t)]

\* mutant: what one task is given is left for the next one.
GivesToAll(scan, t, mask) == [scan EXCEPT !.given[t] = scan.bits \cap mask]

\* t consumes the flags of mask that are set.
Gives(scan, t, mask) ==
    [scan EXCEPT !.bits = @ \ mask, !.given[t] = scan.bits \cap mask]

\* Whether b has what t waits for.
Serves(which, b, t) ==
    IF which = "any" THEN waitPtr[t] \cap b # {} ELSE waitPtr[t] \subseteq b

Visit(which, scan, t) ==
    IF Serves(which, scan.bits, t) THEN Gives(scan, t, waitPtr[t]) ELSE Stays(scan, t)

\* mutant: the scan looks at the head only.
ScanHead(which, list, b) ==
    IF list = <<>> THEN Unscanned(b)
    ELSE LET head == Visit(which, Unscanned(b), list[1])
         IN  [head EXCEPT !.stay = @ \o Tail(list)]

\* One of the scans, from the head of its list to the end.
Scan(which, list, b) ==
    LET after[n \in 0 .. Len(list)] ==
            IF n = 0 THEN Unscanned(b) ELSE Visit(which, after[n - 1], list[n])
    IN  after[Len(list)]

ScanAny(b) == Scan("any", anyList, b)

ScanAll(b) == Scan("all", allList, b)

\* The tasks a set of mask wakes.
Woken(mask) ==
    LET any == ScanAny(bits \cup mask)
        all == ScanAll(any.bits)
    IN  {t \in Users : any.given[t] # {} \/ all.given[t] # {}}

\* The critical section of set: the wait_any list first.  Only a task that
\* waited for any of its mask is told what it got.
Sets(mask) ==
    LET any == ScanAny(bits \cup mask)
        all == ScanAll(any.bits)
        woken == Woken(mask)
    IN  /\ bits' = all.bits
        /\ anyList' = any.stay
        /\ allList' = all.stay
        /\ waitPtr' = [t \in Users |->
              IF any.given[t] # {} THEN any.given[t] ELSE waitPtr[t]]
        /\ state' = [t \in Tasks |-> IF t \in woken THEN "Ready" ELSE state[t]]
        /\ slice' = [t \in Tasks |-> IF t \in woken THEN TimeSlice[t] ELSE slice[t]]
        /\ UNCHANGED waiting

Set(t, mask) ==
    /\ t \in Setters
    /\ Calls(t)
    /\ Sets(mask)
    /\ pc' = IF \E u \in Woken(mask) : Outranks(u, t) THEN [pc EXCEPT ![t] = "trigger"] ELSE pc
    /\ UNCHANGED <<current, left, priority, pendsv, seen>>

\* set by an interrupt handler, or set_from_isr: it returns whether a switch is
\* due, and its caller requests it or ignores the answer.
IsrSet(mask) ==
    /\ Sets(mask)
    /\ \E obeyed \in BOOLEAN :
          pendsv' = (pendsv \/ (obeyed /\ \E u \in Woken(mask) : Outranks(u, current)))
    /\ UNCHANGED <<current, left, priority, seen, pc>>

\* clear wakes nobody.
Clear(t, mask) ==
    /\ t \in Setters
    /\ Calls(t)
    /\ bits' = bits \ mask
    /\ UNCHANGED <<kernelVars, anyList, allList, waitPtr, waiting>>

-----------------------------------------------------------------------------
(***************************************************************************)
(* Waiting.                                                                *)
(***************************************************************************)

\* wait_any with a flag of the mask set: it returns the ones that are.
AnyNow(t, mask) ==
    /\ Calls(t)
    /\ mask \cap bits # {}
    /\ bits' = bits \ mask
    /\ waitPtr' = [waitPtr EXCEPT ![t] = mask \cap bits]
    /\ UNCHANGED <<kernelVars, anyList, allList, waiting>>

AllNow(t, mask) ==
    /\ Calls(t)
    /\ mask \subseteq bits
    /\ bits' = bits \ mask
    /\ UNCHANGED <<kernelVars, anyList, allList, waitPtr, waiting>>

\* What wait_any and wait_all do when they block: t waits for mask.
Blocks(t, which, mask) ==
    /\ Calls(t)
    /\ LeaveRunning(t, "Blocked")
    /\ waitPtr' = [waitPtr EXCEPT ![t] = mask]
    /\ waiting' = [waiting EXCEPT ![t] = <<which, mask>>]
    /\ UNCHANGED <<current, left, priority, pendsv, seen, bits>>

AnyBlocks(t, mask) ==
    /\ mask \cap bits = {}
    /\ Blocks(t, "any", mask)
    /\ anyList' = Cons(t, anyList)
    /\ UNCHANGED allList

AllBlocks(t, mask) ==
    /\ ~(mask \subseteq bits)
    /\ Blocks(t, "all", mask)
    /\ allList' = Cons(t, allList)
    /\ UNCHANGED anyList

\* A kernel call returns; if it is wait_any, with what is in wait_ptr.
CallReturns(t) ==
    /\ Return(t)
    /\ waiting' = [waiting EXCEPT ![t] = NoCall]
    /\ UNCHANGED <<bits, anyList, allList, waitPtr>>

TaskExits(t) == Exit(t) /\ UNCHANGED eventVars

TaskStep(t) ==
    \/ \E mask \in AnyMasks[t] : AnyNow(t, mask) \/ AnyBlocks(t, mask)
    \/ \E mask \in AllMasks[t] : AllNow(t, mask) \/ AllBlocks(t, mask)
    \/ \E mask \in SetMasks : Set(t, mask) \/ Clear(t, mask)
    \/ CallReturns(t)
    \/ TaskExits(t)

Next ==
    \/ KernelStep /\ UNCHANGED eventVars
    \/ \E t \in Users : TaskStep(t)
    \/ \E mask \in IsrSets : IsrSet(mask)

Spec == Init /\ [][Next]_vars

(***************************************************************************)
(* Fairness of the interrupts and of kernel calls under way as in module   *)
(* Scheduler; an interrupt that sets flags keeps doing so.                 *)
(***************************************************************************)
Unchanging(A) == A /\ UNCHANGED eventVars

Fairness ==
    /\ WF_vars(Unchanging(Launch))
    /\ WF_vars(Unchanging(SysTick))
    /\ SF_vars(Unchanging(TickRunning))
    /\ WF_vars(Unchanging(PendSV))
    /\ \A t \in Users :
          SF_vars(Unchanging(SleepUntil(t) \/ Trigger(t)) \/ CallReturns(t))
    /\ \A mask \in IsrSets : WF_vars(IsrSet(mask))

FairSpec == Spec /\ Fairness

-----------------------------------------------------------------------------
\* A task is Blocked exactly while it is in the list of the call it blocked in,
\* once, with the mask of the call in wait_ptr: no set loses the rest of a list
\* it unlinks a task from.
BlockedExactlyWaiting ==
    /\ \A t \in Users :
          /\ t \in ToSet(anyList) <=> state[t] = "Blocked" /\ waiting[t] = <<"any", waitPtr[t]>>
          /\ t \in ToSet(allList) <=> state[t] = "Blocked" /\ waiting[t] = <<"all", waitPtr[t]>>
          /\ state[t] = "Blocked" => t \in ToSet(anyList) \cup ToSet(allList)
    /\ IsInjective(anyList)
    /\ IsInjective(allList)

\* The variables keep their types, and no step loses a waiter from a list, leaves a
\* woken task in one, or blocks a task outside of one.
Consistent == TypeOK /\ BlockedExactlyWaiting

\* Nobody waits for flags that are there, whichever of several waiters a set
\* satisfied and whatever they left.
NoSatisfiedWaiter ==
    /\ \A t \in ToSet(anyList) : waitPtr[t] \cap bits = {}
    /\ \A t \in ToSet(allList) : ~(waitPtr[t] \subseteq bits)

(***************************************************************************)
(* What the tasks and handlers see: every flag set goes to one task at     *)
(* most (event_group.rs: "preventing the same event from satisfying two    *)
(* callers"), and wait_any returns what it was given, however long after.  *)
(***************************************************************************)
Given(t) == IF waiting[t][1] = "any" THEN waitPtr[t] ELSE waiting[t][2]

Word == INSTANCE EventWord WITH
           flags <- bits,
           asked <- waiting,
           got <- [t \in Users |-> IF state[t] = "Blocked" THEN {} ELSE Given(t)]

ImplementsEventWord == Word!Spec

\* A task that outranks every other one and waits for any of some flags that
\* interrupts keep setting and no other task waits for returns from the wait, also
\* when handlers ignore that set_from_isr asks for a switch.
TopTaskReturns ==
    \A t \in Users : \A mask \in AnyMasks[t] :
        /\ \A u \in Tasks \ {t} : BasePrio[t] < BasePrio[u]
        /\ \E set \in IsrSets : set \cap mask # {}
        /\ \A u \in Users \ {t} : \A other \in AnyMasks[u] : other \cap mask = {}
        => (waiting[t] = <<"any", mask>> ~> waiting[t] = NoCall)
=============================================================================
