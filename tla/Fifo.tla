-------------------------------- MODULE Fifo --------------------------------
(***************************************************************************)
(* What a Channel promises its users: one bounded first-in first-out queue *)
(* of messages.  A sender that finds it full offers its message and the    *)
(* offers are taken, highest priority first, as messages leave; a receiver *)
(* that finds it empty asks, and the highest-priority one that asks gets   *)
(* the next message.                                                       *)
(***************************************************************************)
EXTENDS Naturals, Sequences

CONSTANTS
    Users,      \* the tasks
    BasePrio,   \* the priority of each task, 0 is the highest
    Messages,   \* the messages
    NoMessage,  \* not one of them
    Capacity    \* how many messages the queue holds

VARIABLES
    queue,      \* the messages sent and not received, the oldest first
    offers,     \* the message each task waits to have sent, or NoMessage
    askers,     \* the tasks that wait for a message
    got         \* the message each task last received, NoMessage once it asks

vars == <<queue, offers, askers, got>>

Offering == {t \in Users : offers[t] # NoMessage}

Top(t, S) == t \in S /\ \A u \in S : BasePrio[t] <= BasePrio[u]

Init ==
    /\ queue = <<>>
    /\ offers = [t \in Users |-> NoMessage]
    /\ askers = {}
    /\ got = [t \in Users |-> NoMessage]

Put(v) ==
    /\ askers = {}
    /\ Len(queue) < Capacity
    /\ queue' = Append(queue, v)
    /\ UNCHANGED <<offers, askers, got>>

\* The queue is empty when somebody asks: the message skips it.
HandOver(v) ==
    /\ \E u \in askers :
          /\ Top(u, askers)
          /\ got' = [got EXCEPT ![u] = v]
          /\ askers' = askers \ {u}
    /\ UNCHANGED <<queue, offers>>

Offer(t, v) ==
    /\ Len(queue) = Capacity
    /\ offers' = [offers EXCEPT ![t] = v]
    /\ UNCHANGED <<queue, askers, got>>

\* The oldest message leaves, and the top offer, if there is one, is taken.
Leaves ==
    /\ queue # <<>>
    /\ \/ /\ Offering = {}
          /\ queue' = Tail(queue)
          /\ UNCHANGED offers
       \/ \E u \in Offering :
             /\ Top(u, Offering)
             /\ queue' = Append(Tail(queue), offers[u])
             /\ offers' = [offers EXCEPT ![u] = NoMessage]

Get(t) ==
    /\ Leaves
    /\ got' = [got EXCEPT ![t] = Head(queue)]
    /\ UNCHANGED askers

Ask(t) ==
    /\ queue = <<>>
    /\ askers' = askers \cup {t}
    /\ got' = [got EXCEPT ![t] = NoMessage]
    /\ UNCHANGED <<queue, offers>>

Next ==
    \/ \E v \in Messages : Put(v) \/ HandOver(v) \/ \E t \in Users : Offer(t, v)
    \/ \E t \in Users : Get(t) \/ Ask(t)
    \/ Leaves /\ UNCHANGED <<askers, got>>      \* received by a handler

Spec == Init /\ [][Next]_vars
=============================================================================
