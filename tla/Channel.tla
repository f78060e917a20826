------------------------------ MODULE Channel ------------------------------
(***************************************************************************)
(* channel::Channel: a bounded MPMC channel on top of the kernel, sent to  *)
(* and received from by tasks and by interrupt handlers.  A task that has  *)
(* to wait parks a pointer to a cell of its own stack in Tcb.wait_ptr; the *)
(* other side reads or writes that cell and wakes the task.                *)
(***************************************************************************)
EXTENDS Kernel

CONSTANTS
    Capacity,   \* N of Channel<T, N>
    Messages,   \* the values of T the application sends
    NoMessage,  \* an uninitialised, or moved-out, MaybeUninit<T>
    Senders,    \* the tasks that call send
    Receivers,  \* the tasks that call recv
    Triers,     \* the tasks that call try_send and try_recv
    IsrSends,   \* whether interrupt handlers call try_send
    IsrReceives \* whether interrupt handlers call try_recv

\* A Channel<T, 0> has no room even for one message; it is not modelled.
ASSUME ChannelAssumption ==
    /\ Capacity \in Nat \ {0}
    /\ NoMessage \notin Messages
    /\ Senders \subseteq Users
    /\ Receivers \subseteq Users
    /\ Triers \subseteq Users
    /\ IsrSends \in BOOLEAN
    /\ IsrReceives \in BOOLEAN

VARIABLES
    buf, head, tail, count, \* ChannelInner
    senders,    \* the list at ChannelInner.send_head
    receivers,  \* the list at ChannelInner.recv_head
    src,        \* src of a task parked in send, where its wait_ptr points
    slot,       \* slot of a task's recv or try_recv: what it got last
    call        \* the call a task has blocked in

ringVars == <<buf, head, tail, count>>
chanVars == <<ringVars, senders, receivers, src, slot, call>>
vars == <<kernelVars, chanVars>>

Cells == Messages \cup {NoMessage}

TypeOK ==
    /\ KernelTypeOK
    /\ buf \in [0 .. Capacity - 1 -> Cells]
    /\ head \in 0 .. Capacity - 1
    /\ tail \in 0 .. Capacity - 1
    /\ count \in 0 .. Capacity
    /\ senders \in Seq(Users)
    /\ receivers \in Seq(Users)
    /\ src \in [Users -> Cells]
    /\ slot \in [Users -> Cells]
    /\ call \in [Users -> {"none", "send", "recv"}]

Init ==
    /\ KernelInit
    /\ buf = [i \in 0 .. Capacity - 1 |-> NoMessage]
    /\ head = 0
    /\ tail = 0
    /\ count = 0
    /\ senders = <<>>
    /\ receivers = <<>>
    /\ src = [t \in Users |-> NoMessage]
    /\ slot = [t \in Users |-> NoMessage]
    /\ call = [t \in Users |-> "none"]

-----------------------------------------------------------------------------
(***************************************************************************)
(* Sending.  What send and try_send share, whoever calls.                  *)
(***************************************************************************)

NextPlace(i) == (i + 1) % Capacity

\* The highest-priority receiver r gets v in its slot and can run.
HandOff(v, r) ==
    /\ \E i \in DOMAIN receivers :
          /\ r = receivers[i]
          /\ IsHighest(receivers, i)
          /\ receivers' = Popped(receivers, i)
    /\ slot' = [slot EXCEPT ![r] = v]
    /\ Unblock(r)
    /\ UNCHANGED <<current, left, priority, ringVars, senders, src, call>>

\* mutant: nobody looks whether a receiver waits.
EnqueueFirst(v) ==
    /\ count < Capacity
    /\ buf' = [buf EXCEPT ![tail] = v]
    /\ tail' = NextPlace(tail)
    /\ count' = count + 1
    /\ UNCHANGED <<kernelVars, head, senders, receivers, src, slot, call>>

\* No receiver waits and there is room.
Enqueue(v) ==
    /\ receivers = <<>>
    /\ count < Capacity
    /\ buf' = [buf EXCEPT ![tail] = v]
    /\ tail' = NextPlace(tail)
    /\ count' = count + 1
    /\ UNCHANGED <<kernelVars, head, senders, receivers, src, slot, call>>

\* send on a full channel, up to the end of the critical section.
SendBlocks(t, v) ==
    /\ receivers = <<>>
    /\ count = Capacity
    /\ src' = [src EXCEPT ![t] = v]
    /\ LeaveRunning(t, "Blocked")
    /\ senders' = Cons(t, senders)
    /\ call' = [call EXCEPT ![t] = "send"]
    /\ UNCHANGED <<current, left, priority, pendsv, seen, ringVars, receivers, slot>>

\* send, or a try_send that succeeds (one that fails changes nothing).
Send(t, v) ==
    /\ t \in Senders \cup Triers
    /\ Calls(t)
    /\ \/ Enqueue(v)
       \/ \E r \in Users :
             HandOff(v, r) /\ PreemptFor(t, r, priority[t]) /\ UNCHANGED <<pendsv, seen>>
       \/ t \in Senders /\ SendBlocks(t, v)

IsrSend(v) ==
    /\ IsrSends
    /\ \/ Enqueue(v)
       \/ \E r \in Users :
             /\ HandOff(v, r)
             /\ pendsv' = (pendsv \/ Outranks(r, current))
             /\ UNCHANGED <<seen, pc>>

-----------------------------------------------------------------------------
(***************************************************************************)
(* Receiving.  What recv and try_recv share, whoever calls: the message at *)
(* the head leaves, and a sender that waits for room is let in.            *)
(***************************************************************************)

\* No sender waits.
Dequeue ==
    /\ count > 0
    /\ senders = <<>>
    /\ head' = NextPlace(head)
    /\ count' = count - 1
    /\ UNCHANGED <<kernelVars, buf, tail, senders, src>>

\* mutant: the admitted message is written where the next one is read from.
AdmittedAtHead(v) == [buf EXCEPT ![NextPlace(head)] = v]

\* The buffer once the message of an admitted sender is in it.
Admitted(v) == [buf EXCEPT ![tail] = v]

\* The highest-priority sender u gets the freed place and can run.
DequeueAdmits(u) ==
    /\ count > 0
    /\ \E i \in DOMAIN senders :
          /\ u = senders[i]
          /\ IsHighest(senders, i)
          /\ senders' = Popped(senders, i)
    /\ head' = NextPlace(head)
    /\ buf' = Admitted(src[u])
    /\ src' = [src EXCEPT ![u] = NoMessage]
    /\ tail' = NextPlace(tail)
    /\ Unblock(u)
    /\ UNCHANGED <<current, left, priority, count>>

\* recv on an empty channel, up to the end of the critical section.
RecvBlocks(t) ==
    /\ count = 0
    /\ slot' = [slot EXCEPT ![t] = NoMessage]
    /\ LeaveRunning(t, "Blocked")
    /\ receivers' = Cons(t, receivers)
    /\ call' = [call EXCEPT ![t] = "recv"]
    /\ UNCHANGED <<current, left, priority, pendsv, seen, ringVars, senders, src>>

\* recv, or a try_recv that succeeds (one that fails changes nothing).
Recv(t) ==
    /\ t \in Receivers \cup Triers
    /\ Calls(t)
    /\ \/ /\ \/ Dequeue
             \/ \E u \in Users :
                   DequeueAdmits(u) /\ PreemptFor(t, u, priority[t]) /\ UNCHANGED <<pendsv, seen>>
          /\ slot' = [slot EXCEPT ![t] = buf[head]]
          /\ UNCHANGED <<receivers, call>>
       \/ t \in Receivers /\ RecvBlocks(t)

IsrRecv ==
    /\ IsrReceives
    /\ \/ Dequeue
       \/ \E u \in Users :
             /\ DequeueAdmits(u)
             /\ pendsv' = (pendsv \/ Outranks(u, current))
             /\ UNCHANGED <<seen, pc>>
    /\ UNCHANGED <<receivers, slot, call>>

-----------------------------------------------------------------------------
\* A kernel call returns; if it is recv(), with what is in the slot.
CallReturns(t) ==
    /\ Return(t)
    /\ call' = [call EXCEPT ![t] = "none"]
    /\ UNCHANGED <<ringVars, senders, receivers, src, slot>>

TaskExits(t) == Exit(t) /\ UNCHANGED chanVars

TaskStep(t) ==
    \/ \E v \in Messages : Send(t, v)
    \/ Recv(t)
    \/ CallReturns(t)
    \/ TaskExits(t)

Next ==
    \/ KernelStep /\ UNCHANGED chanVars
    \/ \E t \in Users : TaskStep(t)
    \/ \E v \in Messages : IsrSend(v)
    \/ IsrRecv

Spec == Init /\ [][Next]_vars

(***************************************************************************)
(* Fairness of the interrupts and of kernel calls under way as in module   *)
(* Scheduler; a device that sends from its interrupt handler keeps doing   *)
(* so.  Nothing obliges a task to send or to receive.                      *)
(***************************************************************************)
Unchanging(A) == A /\ UNCHANGED chanVars

Fairness ==
    /\ WF_vars(Unchanging(Launch))
    /\ WF_vars(Unchanging(SysTick))
    /\ SF_vars(Unchanging(TickRunning))
    /\ WF_vars(Unchanging(PendSV))
    /\ \A t \in Users :
          SF_vars(Unchanging(SleepUntil(t) \/ Trigger(t)) \/ CallReturns(t))
    /\ WF_vars(\E v \in Messages : IsrSend(v))

FairSpec == Spec /\ Fairness

-----------------------------------------------------------------------------
\* A task is Blocked exactly when it is in one of the two lists, once.
BlockedExactlyWaiting ==
    /\ \A t \in Users :
          state[t] = "Blocked" <=> t \in ToSet(senders) \cup ToSet(receivers)
    /\ IsInjective(senders \o receivers)

\* The variables keep their types, and no step loses a waiter from a list, leaves a
\* woken task in one, or blocks a task outside of one.
Consistent == TypeOK /\ BlockedExactlyWaiting

\* Senders wait only in front of a full buffer and receivers only in front of an
\* empty one (the invariants stated in ChannelInner): whatever tasks and handlers
\* do in between, nobody waits for something that is there.
WaitersHaveReason ==
    /\ senders # <<>> => count = Capacity
    /\ receivers # <<>> => count = 0

\* recv never returns an uninitialised slot: a receiver that is no longer Blocked,
\* however it came to run again, has been given a message.
RecvReturnsAMessage ==
    \A t \in Users :
        call[t] = "recv" /\ state[t] # "Blocked" => slot[t] # NoMessage

\* The channel is one FIFO queue, whichever way a message takes through it: the
\* ring, a direct hand-off to a receiver, or a sender admitted when a place frees.
Queue == INSTANCE Fifo WITH
            queue <- [i \in 1 .. count |-> buf[(head + i - 1) % Capacity]],
            offers <- [t \in Users |-> IF t \in ToSet(senders) THEN src[t] ELSE NoMessage],
            askers <- ToSet(receivers),
            got <- slot

ImplementsFifo == Queue!Spec

\* A task that outranks every other one and blocks in recv() gets a message, when
\* an interrupt handler keeps sending.
TopTaskReceives ==
    \A t \in Users :
        (IsrSends /\ \A u \in Tasks \ {t} : BasePrio[t] < BasePrio[u])
            => (call[t] = "recv" ~> call[t] = "none")
=============================================================================
