--------------------------- MODULE ChannelProofs ---------------------------
(***************************************************************************)
(* Channel, for every capacity, every number of tasks and every workload   *)
(* of tasks and interrupt handlers.                                        *)
(***************************************************************************)
EXTENDS Channel, KernelProofs

\* A task is Blocked exactly when it is in one of the lists, and no list twice.
\* That it is not in both follows from WaitersHaveReason.
WaitersAreBlocked ==
    /\ \A t \in Users :
          state[t] = "Blocked" <=> t \in ToSet(senders) \cup ToSet(receivers)
    /\ IsInjective(senders)
    /\ IsInjective(receivers)

\* What the other side finds behind the wait_ptr of a task it pops.
WaitersAreCallers ==
    /\ \A t \in ToSet(senders) : call[t] = "send" /\ src[t] \in Messages
    /\ \A t \in ToSet(receivers) : call[t] = "recv"
    /\ \A t \in Users : call[t] # "none" => pc[t] \in {"trigger", "return"}

Place(i) == (head + i) % Capacity

\* The places from head to tail, and no other one is read, hold messages.
RingHoldsMessages ==
    /\ tail = Place(count)
    /\ \A i \in 0 .. count - 1 : buf[Place(i)] \in Messages

\* The inductive invariant behind every theorem of this module.
ChanInv ==
    /\ KernelInv
    /\ TypeOK
    /\ PrioritiesAreBase
    /\ WaitersAreBlocked
    /\ WaitersAreCallers
    /\ WaitersHaveReason
    /\ RecvReturnsAMessage
    /\ RingHoldsMessages

-----------------------------------------------------------------------------
(***************************************************************************)
(* The ring and the lists.                                                 *)
(***************************************************************************)

\* An index runs over the end of the ring at most once.
LEMMA Wrapped ==
    ASSUME NEW n \in 0 .. 2 * Capacity - 1
    PROVE  /\ n % Capacity = IF n < Capacity THEN n ELSE n - Capacity
           /\ n % Capacity \in 0 .. Capacity - 1
<1>1. Capacity \in Nat \ {0}
  BY ChannelAssumption
<1> QED
  BY <1>1, SMT

\* The places of a ring are all different, and following one is following the other.
LEMMA RingPlaces ==
    ASSUME head \in 0 .. Capacity - 1
    PROVE  /\ Place(0) = head
           /\ \A i \in 0 .. Capacity : Place(i) \in 0 .. Capacity - 1
           /\ \A i \in 0 .. Capacity - 1 : NextPlace(Place(i)) = Place(i + 1)
           /\ \A i \in 0 .. Capacity - 1 : (NextPlace(head) + i) % Capacity = Place(i + 1)
           /\ \A i, j \in 0 .. Capacity - 1 : Place(i) = Place(j) => i = j
           /\ Place(Capacity) = head
           /\ NextPlace(head) \in 0 .. Capacity - 1
<1>1. Capacity \in Nat \ {0}
  BY ChannelAssumption
<1> DEFINE w(n) == IF n < Capacity THEN n ELSE n - Capacity
<1>2. \A n \in 0 .. 2 * Capacity - 1 : n % Capacity = w(n) /\ n % Capacity \in 0 .. Capacity - 1
  BY Wrapped
<1>3. \A i \in 0 .. Capacity : head + i \in 0 .. 2 * Capacity - 1
  BY <1>1
<1>4. \A i \in 0 .. Capacity : Place(i) = w(head + i) /\ Place(i) \in 0 .. Capacity - 1
  BY <1>2, <1>3 DEF Place
<1>5. \A p \in 0 .. Capacity - 1 : NextPlace(p) = w(p + 1) /\ NextPlace(p) \in 0 .. Capacity - 1
  <2>1. \A p \in 0 .. Capacity - 1 : p + 1 \in 0 .. 2 * Capacity - 1
    BY <1>1
  <2> QED
    BY <1>2, <2>1 DEF NextPlace
<1>6. ASSUME NEW i \in 0 .. Capacity - 1
      PROVE  NextPlace(Place(i)) = Place(i + 1)
  <2>1. i \in 0 .. Capacity /\ i + 1 \in 0 .. Capacity
    BY <1>1
  <2>2. NextPlace(Place(i)) = w(w(head + i) + 1)
    BY <1>4, <1>5, <2>1
  <2>3. w(w(head + i) + 1) = w(head + (i + 1))
    BY <1>1, <2>1
  <2> QED
    BY <1>4, <2>1, <2>2, <2>3
<1>7. ASSUME NEW i \in 0 .. Capacity - 1
      PROVE  (NextPlace(head) + i) % Capacity = Place(i + 1)
  <2>1. i \in 0 .. Capacity /\ i + 1 \in 0 .. Capacity
    BY <1>1
  <2>2. NextPlace(head) = w(head + 1) /\ NextPlace(head) \in 0 .. Capacity - 1
    BY <1>5
  <2>3. NextPlace(head) + i \in 0 .. 2 * Capacity - 1
    BY <1>1, <2>2
  <2>4. (NextPlace(head) + i) % Capacity = w(NextPlace(head) + i)
    BY <1>2, <2>3
  <2>5. w(w(head + 1) + i) = w(head + (i + 1))
    BY <1>1, <2>1
  <2> QED
    BY <1>4, <2>1, <2>2, <2>4, <2>5
<1>8. ASSUME NEW i \in 0 .. Capacity - 1, NEW j \in 0 .. Capacity - 1, Place(i) = Place(j)
      PROVE  i = j
  <2>1. w(head + i) = w(head + j)
    BY <1>1, <1>4, <1>8
  <2> QED
    BY <1>1, <2>1
<1>9. Place(0) = head /\ Place(Capacity) = head /\ NextPlace(head) \in 0 .. Capacity - 1
  BY <1>1, <1>4, <1>5
<1> QED
  BY <1>4, <1>6, <1>7, <1>8, <1>9

-----------------------------------------------------------------------------
(***************************************************************************)
(* The invariant.                                                          *)
(***************************************************************************)

LEMMA InitChan == ASSUME Init PROVE ChanInv
<1>1. Capacity \in Nat \ {0}
  BY ChannelAssumption
<1>2. KernelInv /\ TypeOK
  BY <1>1, KernelInitInv DEF Init, TypeOK, KernelInv, Cells
<1>3. /\ senders = <<>> /\ receivers = <<>> /\ priority = BasePrio
      /\ \A t \in Users : state[t] = "Ready" /\ call[t] = "none"
      /\ head = 0 /\ tail = 0 /\ count = 0
  BY KernelConstants DEF Init, KernelInit
<1>4. ToSet(senders) = {} /\ ToSet(receivers) = {}
      /\ IsInjective(senders) /\ IsInjective(receivers)
  BY <1>3 DEF ToSet, IsInjective
<1>5. RingHoldsMessages
  <2>1. Place(0) = 0
    BY <1>1, <1>3, RingPlaces
  <2> QED
    BY <1>3, <2>1 DEF RingHoldsMessages
<1> QED
  BY <1>2, <1>3, <1>4, <1>5
     DEF ChanInv, PrioritiesAreBase, WaitersAreBlocked, WaitersAreCallers,
         WaitersHaveReason, RecvReturnsAMessage

\* Steps that touch neither the channel nor a Blocked task.
LEMMA QuietStepChan ==
    ASSUME ChanInv, KernelInv', UNCHANGED <<chanVars, priority>>,
           \A t \in Users :
              /\ state'[t] = "Blocked" <=> state[t] = "Blocked"
              /\ pc[t] \in {"trigger", "return"} => pc'[t] \in {"trigger", "return"}
    PROVE  ChanInv'
BY DEF ChanInv, KernelInv, TypeOK, PrioritiesAreBase, WaitersAreBlocked, WaitersAreCallers,
       WaitersHaveReason, RecvReturnsAMessage, RingHoldsMessages, Place, chanVars, ringVars

\* A task in its own code that can make a call is Running and in no list.
LEMMA CallerIsFree ==
    ASSUME ChanInv, NEW t \in Users, Calls(t)
    PROVE  /\ t \in Tasks
           /\ state[t] = "Running"
           /\ call[t] = "none"
           /\ t \notin ToSet(senders) /\ t \notin ToSet(receivers)
BY KernelConstants, ThreadRuns
   DEF ChanInv, KernelInv, Calls, WaitersAreCallers, WaitersAreBlocked

\* A place is filled at the tail.
LEMMA RingFilled ==
    ASSUME ChanInv, count < Capacity, NEW v \in Messages,
           buf' = [buf EXCEPT ![tail] = v], tail' = NextPlace(tail), count' = count + 1,
           head' = head
    PROVE  RingHoldsMessages' /\ count' \in 0 .. Capacity /\ tail' \in 0 .. Capacity - 1
           /\ buf' \in [0 .. Capacity - 1 -> Cells]
<1>1. Capacity \in Nat \ {0} /\ head \in 0 .. Capacity - 1 /\ count \in 0 .. Capacity - 1
      /\ tail = Place(count) /\ tail \in 0 .. Capacity - 1
      /\ buf \in [0 .. Capacity - 1 -> Cells]
  BY ChannelAssumption DEF ChanInv, TypeOK, RingHoldsMessages
<1>2. /\ \A i \in 0 .. Capacity : Place(i) \in 0 .. Capacity - 1
      /\ \A i \in 0 .. Capacity - 1 : NextPlace(Place(i)) = Place(i + 1)
      /\ \A i, j \in 0 .. Capacity - 1 : Place(i) = Place(j) => i = j
  BY <1>1, RingPlaces
<1>3. \A i : Place(i)' = Place(i)
  BY DEF Place
<1>4. tail' = Place(count + 1) /\ tail' \in 0 .. Capacity - 1 /\ count' \in 0 .. Capacity
  <2>1. count + 1 \in 0 .. Capacity /\ count \in 0 .. Capacity - 1
    BY <1>1
  <2>2. tail' = Place(count + 1)
    BY <1>1, <1>2, <2>1
  <2> QED
    BY <1>2, <2>1, <2>2
<1>5. ASSUME NEW i \in 0 .. count' - 1
      PROVE  buf'[Place(i)] \in Messages
  <2>1. i \in 0 .. Capacity - 1 /\ i \in 0 .. count
    BY <1>1
  <2>2. CASE i = count
    BY <1>1, <2>2
  <2>3. CASE i # count
    <3>1. i \in 0 .. count - 1 /\ count \in 0 .. Capacity - 1
      BY <1>1, <2>1, <2>3
    <3>a. Place(i) # Place(count)
      BY <1>2, <2>1, <2>3, <3>1
    <3>2. Place(i) # tail /\ Place(i) \in 0 .. Capacity - 1
      BY <1>1, <1>2, <2>1, <3>a
    <3>3. buf[Place(i)] \in Messages
      BY <3>1 DEF ChanInv, RingHoldsMessages
    <3> QED
      BY <1>1, <3>2, <3>3
  <2> QED
    BY <2>2, <2>3
<1>6. buf' \in [0 .. Capacity - 1 -> Cells]
  BY <1>1 DEF Cells
<1>7. RingHoldsMessages'
  <2>1. tail' = Place(count)'
    BY <1>4 DEF Place
  <2>2. \A i \in 0 .. count' - 1 : buf'[Place(i)'] \in Messages
    BY <1>3, <1>5
  <2> QED
    BY <2>1, <2>2 DEF RingHoldsMessages
<1> QED
  BY <1>4, <1>6, <1>7

LEMMA EnqueueChan ==
    ASSUME ChanInv, NEW v \in Messages, Enqueue(v)
    PROVE  ChanInv'
<1>1. KernelInv'
  BY StutterInv DEF ChanInv, Enqueue
<1>2. /\ RingHoldsMessages' /\ count' \in 0 .. Capacity /\ tail' \in 0 .. Capacity - 1
      /\ buf' \in [0 .. Capacity - 1 -> Cells]
  BY RingFilled DEF Enqueue
<1>3. senders = <<>>
  BY DEF Enqueue, ChanInv, WaitersHaveReason, TypeOK
<1>4. TypeOK'
  BY <1>1, <1>2 DEF Enqueue, ChanInv, TypeOK, KernelInv
<1> QED
  BY <1>1, <1>2, <1>3, <1>4
     DEF Enqueue, ChanInv, PrioritiesAreBase, WaitersAreBlocked, WaitersAreCallers,
         WaitersHaveReason, RecvReturnsAMessage, kernelVars

\* What a hand-off does to the lists: r leaves the one of the receivers.
LEMMA ServedReceiver ==
    ASSUME ChanInv, NEW v \in Messages, NEW r \in Users, HandOff(v, r)
    PROVE  /\ Unblock(r)
           /\ state[r] = "Blocked" /\ call[r] = "recv"
           /\ senders = <<>> /\ count = 0
           /\ r \in ToSet(receivers)
           /\ \A u \in ToSet(receivers) : BasePrio[r] <= BasePrio[u]
           /\ receivers' \in Seq(Users)
           /\ ToSet(receivers') = ToSet(receivers) \ {r}
           /\ IsInjective(receivers')
<1>1. PICK i \in DOMAIN receivers :
         /\ r = receivers[i]
         /\ IsHighest(receivers, i)
         /\ receivers' = Popped(receivers, i)
  BY DEF HandOff
<1>2. Unblock(r)
  BY DEF HandOff
<1>3. receivers \in Seq(Users) /\ IsInjective(receivers) /\ PrioritiesAreBase
  BY DEF ChanInv, TypeOK, WaitersAreBlocked
<1>4. /\ r \in ToSet(receivers)
      /\ \A u \in ToSet(receivers) : BasePrio[r] <= BasePrio[u]
      /\ receivers' \in Seq(Users)
      /\ ToSet(receivers') = ToSet(receivers) \ {r}
      /\ IsInjective(receivers')
  BY <1>1, <1>3, HighestPopped
<1>5. receivers # <<>>
  BY <1>1
<1>6. count = 0 /\ senders = <<>>
  <2>1. count = 0
    BY <1>5 DEF ChanInv, WaitersHaveReason
  <2>2. Capacity # 0
    BY ChannelAssumption
  <2> QED
    BY <2>1, <2>2 DEF ChanInv, WaitersHaveReason
<1> QED
  BY <1>2, <1>4, <1>6 DEF ChanInv, WaitersAreBlocked, WaitersAreCallers

LEMMA HandOffChan ==
    ASSUME ChanInv, NEW v \in Messages, NEW r \in Users, HandOff(v, r), KernelInv',
           \A t \in Users : call[t] # "none" => pc'[t] \in {"trigger", "return"}
    PROVE  ChanInv'
<1>1. /\ Unblock(r)
      /\ state[r] = "Blocked" /\ call[r] = "recv"
      /\ count = 0 /\ senders = <<>>
      /\ receivers' \in Seq(Users)
      /\ ToSet(receivers') = ToSet(receivers) \ {r}
      /\ IsInjective(receivers')
  BY ServedReceiver
<1>2. \A t \in Users : state'[t] = IF t = r THEN "Ready" ELSE state[t]
  BY <1>1, UnblockedStates, KernelConstants DEF ChanInv
<1>3. /\ UNCHANGED <<priority, ringVars, senders, src, call>>
      /\ slot' = [slot EXCEPT ![r] = v]
  BY DEF HandOff
<1>4. TypeOK'
  BY <1>1, <1>3 DEF ChanInv, TypeOK, KernelInv, ringVars, Cells
<1>5. WaitersAreBlocked'
  <2>1. ToSet(senders) = {}
    BY <1>1 DEF ToSet
  <2> QED
    BY <1>1, <1>2, <1>3, <2>1 DEF ChanInv, WaitersAreBlocked
<1>6. WaitersAreCallers' /\ WaitersHaveReason'
  BY <1>1, <1>3 DEF ChanInv, WaitersAreCallers, WaitersHaveReason, ringVars
<1>7. RecvReturnsAMessage'
  <2>1. v # NoMessage
    BY ChannelAssumption
  <2>2. \A t \in Users : slot'[t] = IF t = r THEN v ELSE slot[t]
    BY <1>3 DEF ChanInv, TypeOK
  <2> QED
    BY <1>2, <1>3, <2>1, <2>2 DEF ChanInv, RecvReturnsAMessage
<1>8. RingHoldsMessages' /\ PrioritiesAreBase'
  BY <1>3 DEF ChanInv, RingHoldsMessages, Place, PrioritiesAreBase, ringVars
<1> QED
  BY <1>4, <1>5, <1>6, <1>7, <1>8 DEF ChanInv

\* t enters one of the lists, which its call has found reason to.
LEMMA ParkedSender ==
    ASSUME ChanInv, NEW t \in Users, NEW v \in Messages, Calls(t), SendBlocks(t, v)
    PROVE  /\ senders' \in Seq(Users)
           /\ ToSet(senders') = ToSet(senders) \cup {t}
           /\ IsInjective(senders')
<1>1. senders \in Seq(Users) /\ IsInjective(senders) /\ t \notin ToSet(senders)
  BY CallerIsFree DEF ChanInv, TypeOK, WaitersAreBlocked
<1>2. senders' = Cons(t, senders)
  BY DEF SendBlocks
<1>3. /\ Cons(t, senders) \in Seq(Users)
      /\ ToSet(Cons(t, senders)) = ToSet(senders) \cup {t}
      /\ IsInjective(Cons(t, senders))
  BY <1>1, PushedList
<1> QED
  BY <1>2, <1>3

LEMMA SendBlocksChan ==
    ASSUME ChanInv, NEW t \in Users, NEW v \in Messages, Calls(t), SendBlocks(t, v)
    PROVE  ChanInv'
<1>1. /\ t \in Tasks
      /\ t \notin ToSet(senders) /\ t \notin ToSet(receivers)
  BY CallerIsFree
<1>2. /\ KernelInv'
      /\ \A u \in Users : state'[u] = IF u = t THEN "Blocked" ELSE state[u]
      /\ \A u \in Users : pc'[u] = IF u = t THEN "trigger" ELSE pc[u]
  BY ParksInv, KernelConstants DEF SendBlocks, Parks, ChanInv
<1>3. /\ senders' \in Seq(Users)
      /\ ToSet(senders') = ToSet(senders) \cup {t}
      /\ IsInjective(senders')
  BY ParkedSender
<1>4. /\ \A u \in Users : src'[u] = IF u = t THEN v ELSE src[u]
      /\ \A u \in Users : call'[u] = IF u = t THEN "send" ELSE call[u]
      /\ src' \in [Users -> Cells]
      /\ call' \in [Users -> {"none", "send", "recv"}]
  BY DEF SendBlocks, ChanInv, TypeOK, Cells
<1>5. /\ UNCHANGED <<priority, ringVars, receivers, slot>>
      /\ count = Capacity /\ receivers = <<>>
  BY DEF SendBlocks
<1>6. TypeOK'
  BY <1>2, <1>3, <1>4, <1>5 DEF ChanInv, TypeOK, KernelInv, ringVars
<1>7. WaitersAreBlocked' /\ WaitersHaveReason'
  BY <1>2, <1>3, <1>5 DEF ChanInv, WaitersAreBlocked, WaitersHaveReason, ringVars
<1>8. WaitersAreCallers'
  <2>1. ToSet(senders) \subseteq Users /\ ToSet(receivers) = {}
    BY <1>5 DEF ChanInv, TypeOK, ToSet
  <2> QED
    BY <1>2, <1>3, <1>4, <1>5, <2>1 DEF ChanInv, WaitersAreCallers
<1>9. RecvReturnsAMessage' /\ RingHoldsMessages' /\ PrioritiesAreBase'
  BY <1>2, <1>4, <1>5
     DEF ChanInv, RecvReturnsAMessage, RingHoldsMessages, Place, PrioritiesAreBase, ringVars
<1> QED
  BY <1>2, <1>6, <1>7, <1>8, <1>9 DEF ChanInv

LEMMA RecvBlocksChan ==
    ASSUME ChanInv, NEW t \in Users, Calls(t), RecvBlocks(t)
    PROVE  ChanInv'
<1>1. /\ t \in Tasks
      /\ t \notin ToSet(senders) /\ t \notin ToSet(receivers)
  BY CallerIsFree
<1>2. /\ KernelInv'
      /\ \A u \in Users : state'[u] = IF u = t THEN "Blocked" ELSE state[u]
      /\ \A u \in Users : pc'[u] = IF u = t THEN "trigger" ELSE pc[u]
  BY ParksInv, KernelConstants DEF RecvBlocks, Parks, ChanInv
<1>3. /\ receivers' \in Seq(Users)
      /\ ToSet(receivers') = ToSet(receivers) \cup {t}
      /\ IsInjective(receivers')
  BY <1>1, PushedList DEF RecvBlocks, ChanInv, TypeOK, WaitersAreBlocked
<1>4. /\ \A u \in Users : slot'[u] = IF u = t THEN NoMessage ELSE slot[u]
      /\ \A u \in Users : call'[u] = IF u = t THEN "recv" ELSE call[u]
      /\ slot' \in [Users -> Cells]
      /\ call' \in [Users -> {"none", "send", "recv"}]
  BY DEF RecvBlocks, ChanInv, TypeOK, Cells
<1>5. /\ UNCHANGED <<priority, ringVars, senders, src>>
      /\ count = 0 /\ senders = <<>>
  BY ChannelAssumption DEF RecvBlocks, ChanInv, WaitersHaveReason
<1>6. TypeOK'
  BY <1>2, <1>3, <1>4, <1>5 DEF ChanInv, TypeOK, KernelInv, ringVars
<1>7. WaitersAreBlocked' /\ WaitersHaveReason'
  BY <1>2, <1>3, <1>5 DEF ChanInv, WaitersAreBlocked, WaitersHaveReason, ringVars
<1>8. WaitersAreCallers'
  <2>1. ToSet(receivers) \subseteq Users /\ ToSet(senders) = {}
    BY <1>5 DEF ChanInv, TypeOK, ToSet
  <2> QED
    BY <1>2, <1>3, <1>4, <1>5, <2>1 DEF ChanInv, WaitersAreCallers
<1>9. RecvReturnsAMessage' /\ RingHoldsMessages' /\ PrioritiesAreBase'
  BY <1>2, <1>4, <1>5
     DEF ChanInv, RecvReturnsAMessage, RingHoldsMessages, Place, PrioritiesAreBase, ringVars
<1> QED
  BY <1>2, <1>6, <1>7, <1>8, <1>9 DEF ChanInv

\* A message leaves at the head, and nobody wanted to send.
LEMMA DequeueRing ==
    ASSUME ChanInv, Dequeue
    PROVE  /\ RingHoldsMessages'
           /\ count' \in 0 .. Capacity - 1 /\ head' \in 0 .. Capacity - 1
<1>1. Capacity \in Nat \ {0} /\ head \in 0 .. Capacity - 1 /\ count \in 1 .. Capacity
      /\ tail = Place(count)
  BY ChannelAssumption DEF ChanInv, TypeOK, RingHoldsMessages, Dequeue
<1>2. head' = NextPlace(head) /\ count' = count - 1 /\ tail' = tail /\ buf' = buf
  BY DEF Dequeue
<1>3. \A i \in 0 .. Capacity - 1 : Place(i)' = Place(i + 1)
  BY <1>1, <1>2, RingPlaces DEF Place
<1>4. tail' = Place(count)'
  <2>1. count - 1 \in 0 .. Capacity - 1 /\ count - 1 + 1 = count
    BY <1>1
  <2>2. (head' + count') % Capacity = Place(count)
    BY <1>1, <1>2, <2>1, RingPlaces
  <2> QED
    BY <1>1, <1>2, <2>2 DEF Place
<1>5. ASSUME NEW i \in 0 .. count' - 1
      PROVE  buf'[Place(i)'] \in Messages
  <2>1. i \in 0 .. Capacity - 1 /\ i + 1 \in 0 .. count - 1
    BY <1>1, <1>2
  <2> QED
    BY <1>2, <1>3, <2>1 DEF ChanInv, RingHoldsMessages
<1>6. head' \in 0 .. Capacity - 1 /\ count' \in 0 .. Capacity - 1
  BY <1>1, <1>2, RingPlaces
<1> QED
  BY <1>4, <1>5, <1>6 DEF RingHoldsMessages

\* What admitting u does: u leaves the list of the senders and its message follows
\* the last one of a full ring.
LEMMA AdmittedSender ==
    ASSUME ChanInv, NEW u \in Users, DequeueAdmits(u)
    PROVE  /\ Unblock(u)
           /\ state[u] = "Blocked" /\ call[u] = "send" /\ src[u] \in Messages
           /\ receivers = <<>> /\ count = Capacity /\ tail = head
           /\ u \in ToSet(senders)
           /\ \A t \in ToSet(senders) : BasePrio[u] <= BasePrio[t]
           /\ senders' \in Seq(Users)
           /\ ToSet(senders') = ToSet(senders) \ {u}
           /\ IsInjective(senders')
<1>1. PICK i \in DOMAIN senders :
         /\ u = senders[i]
         /\ IsHighest(senders, i)
         /\ senders' = Popped(senders, i)
  BY DEF DequeueAdmits
<1>2. Unblock(u)
  BY DEF DequeueAdmits
<1>3. senders \in Seq(Users) /\ IsInjective(senders) /\ PrioritiesAreBase
  BY DEF ChanInv, TypeOK, WaitersAreBlocked
<1>4. /\ u \in ToSet(senders)
      /\ \A t \in ToSet(senders) : BasePrio[u] <= BasePrio[t]
      /\ senders' \in Seq(Users)
      /\ ToSet(senders') = ToSet(senders) \ {u}
      /\ IsInjective(senders')
  BY <1>1, <1>3, HighestPopped
<1>5. senders # <<>>
  BY <1>1
<1>6. count = Capacity /\ receivers = <<>>
  <2>1. count = Capacity
    BY <1>5 DEF ChanInv, WaitersHaveReason
  <2>2. Capacity # 0
    BY ChannelAssumption
  <2> QED
    BY <2>1, <2>2 DEF ChanInv, WaitersHaveReason
<1>7. tail = head
  BY <1>6, RingPlaces DEF ChanInv, TypeOK, RingHoldsMessages
<1> QED
  BY <1>2, <1>4, <1>6, <1>7 DEF ChanInv, WaitersAreBlocked, WaitersAreCallers

\* The place of the message that leaves is the one that is filled.
LEMMA AdmitsRing ==
    ASSUME ChanInv, NEW u \in Users, DequeueAdmits(u)
    PROVE  /\ RingHoldsMessages'
           /\ head' \in 0 .. Capacity - 1 /\ tail' \in 0 .. Capacity - 1
           /\ buf' \in [0 .. Capacity - 1 -> Cells]
<1>1. Capacity \in Nat \ {0} /\ head \in 0 .. Capacity - 1 /\ count = Capacity /\ tail = head
      /\ src[u] \in Messages
      /\ buf \in [0 .. Capacity - 1 -> Cells]
  BY ChannelAssumption, AdmittedSender DEF ChanInv, TypeOK
<1>2. head' = NextPlace(head) /\ count' = count /\ tail' = NextPlace(head)
      /\ buf' = [buf EXCEPT ![head] = src[u]]
  BY <1>1 DEF DequeueAdmits, Admitted
<1>3. head' \in 0 .. Capacity - 1
  BY <1>1, <1>2, RingPlaces
<1>4. \A i \in 0 .. Capacity - 1 : Place(i)' = Place(i + 1)
  BY <1>1, <1>2, RingPlaces DEF Place
<1>5. tail' = Place(count)'
  <2>1. ASSUME NEW h \in 0 .. Capacity - 1
        PROVE  (h + Capacity) % Capacity = h
    <3>1. h + Capacity \in 0 .. 2 * Capacity - 1
      BY <1>1
    <3>2. ~(h + Capacity < Capacity) /\ (h + Capacity) - Capacity = h
      BY <1>1
    <3> QED
      BY <3>1, <3>2, Wrapped
  <2>2. (head' + Capacity) % Capacity = head'
    BY <1>3, <2>1
  <2> QED
    BY <1>1, <1>2, <2>2 DEF Place
<1>6. ASSUME NEW i \in 0 .. count' - 1
      PROVE  buf'[Place(i)'] \in Messages
  <2>1. i \in 0 .. Capacity - 1 /\ i + 1 \in 0 .. Capacity
    BY <1>1, <1>2
  <2>2. CASE i + 1 = Capacity
    BY <1>1, <1>2, <1>4, <2>1, <2>2, RingPlaces
  <2>3. CASE i + 1 # Capacity
    <3>1. i + 1 \in 0 .. Capacity - 1 /\ 0 \in 0 .. Capacity - 1 /\ i + 1 # 0
      BY <1>1, <2>1, <2>3
    <3>2. Place(i + 1) \in 0 .. Capacity - 1 /\ Place(i + 1) # head
      BY <1>1, <2>1, <3>1, RingPlaces
    <3>3. buf[Place(i + 1)] \in Messages
      BY <1>1, <3>1 DEF ChanInv, RingHoldsMessages
    <3> QED
      BY <1>1, <1>2, <1>4, <2>1, <3>2, <3>3
  <2> QED
    BY <2>2, <2>3
<1>7. buf' \in [0 .. Capacity - 1 -> Cells]
  BY <1>1, <1>2 DEF Cells
<1> QED
  BY <1>2, <1>3, <1>5, <1>6, <1>7 DEF RingHoldsMessages

\* Whatever is received with, a slot of a task in its own code or none at all.
SlotGetsHead(t) == slot' = [slot EXCEPT ![t] = buf[head]]

LEMMA SlotGetsCell ==
    ASSUME ChanInv, NEW t \in Users, SlotGetsHead(t) \/ slot' = slot
    PROVE  slot' \in [Users -> Cells] /\ \A u \in Users : u # t => slot'[u] = slot[u]
<1>1. buf[head] \in Cells
  BY DEF ChanInv, TypeOK
<1> QED
  BY <1>1 DEF ChanInv, TypeOK, SlotGetsHead

LEMMA DequeueChan ==
    ASSUME ChanInv, Dequeue, UNCHANGED <<receivers, call>>,
           slot' = slot \/ \E t \in Users : Calls(t) /\ SlotGetsHead(t)
    PROVE  ChanInv'
<1>1. KernelInv'
  BY StutterInv DEF ChanInv, Dequeue
<1>2. /\ RingHoldsMessages'
      /\ count' \in 0 .. Capacity - 1 /\ head' \in 0 .. Capacity - 1
  BY DequeueRing
<1>3. Capacity \in Nat \ {0} /\ count' \in 0 .. Capacity
  BY <1>2, ChannelAssumption
<1>4. slot' \in [Users -> Cells] /\ \A u \in Users : call[u] # "none" => slot'[u] = slot[u]
  BY SlotGetsCell, CallerIsFree DEF ChanInv, TypeOK
<1>5. senders = <<>> /\ count # 0 /\ UNCHANGED <<kernelVars, buf, tail, senders, src>>
  BY DEF Dequeue, ChanInv, TypeOK
<1>6. TypeOK'
  BY <1>1, <1>2, <1>3, <1>4, <1>5 DEF ChanInv, TypeOK, KernelInv
<1>7. WaitersHaveReason'
  BY <1>5 DEF ChanInv, WaitersHaveReason
<1> QED
  BY <1>1, <1>2, <1>4, <1>5, <1>6, <1>7
     DEF ChanInv, PrioritiesAreBase, WaitersAreBlocked, WaitersAreCallers,
         RecvReturnsAMessage, kernelVars

LEMMA AdmitsChan ==
    ASSUME ChanInv, NEW u \in Users, DequeueAdmits(u), UNCHANGED <<receivers, call>>,
           KernelInv', \A t \in Users : call[t] # "none" => pc'[t] \in {"trigger", "return"},
           slot' = slot \/ \E t \in Users : Calls(t) /\ SlotGetsHead(t)
    PROVE  ChanInv'
<1>1. /\ Unblock(u)
      /\ state[u] = "Blocked" /\ call[u] = "send" /\ receivers = <<>> /\ count = Capacity
      /\ senders' \in Seq(Users)
      /\ ToSet(senders') = ToSet(senders) \ {u}
      /\ IsInjective(senders')
  BY AdmittedSender
<1>2. \A t \in Users : state'[t] = IF t = u THEN "Ready" ELSE state[t]
  BY <1>1, UnblockedStates, KernelConstants DEF ChanInv
<1>3. /\ RingHoldsMessages'
      /\ head' \in 0 .. Capacity - 1 /\ tail' \in 0 .. Capacity - 1
      /\ buf' \in [0 .. Capacity - 1 -> Cells]
  BY AdmitsRing
<1>4. slot' \in [Users -> Cells] /\ \A t \in Users : call[t] # "none" => slot'[t] = slot[t]
  BY SlotGetsCell, CallerIsFree DEF ChanInv, TypeOK
<1>5. /\ UNCHANGED <<priority, count>>
      /\ src' = [src EXCEPT ![u] = NoMessage]
      /\ src' \in [Users -> Cells]
      /\ \A t \in Users : t # u => src'[t] = src[t]
  BY DEF DequeueAdmits, ChanInv, TypeOK, Cells
<1>6. TypeOK'
  BY <1>1, <1>3, <1>4, <1>5 DEF ChanInv, TypeOK, KernelInv
<1>7. WaitersAreBlocked'
  <2>1. ToSet(receivers) = {}
    BY <1>1 DEF ToSet
  <2> QED
    BY <1>1, <1>2, <2>1 DEF ChanInv, WaitersAreBlocked
<1>8. WaitersAreCallers' /\ WaitersHaveReason'
  <2>1. ToSet(senders) \subseteq Users
    BY DEF ChanInv, TypeOK, ToSet
  <2> QED
    BY <1>1, <1>5, <2>1 DEF ChanInv, WaitersAreCallers, WaitersHaveReason
<1>9. RecvReturnsAMessage' /\ PrioritiesAreBase'
  BY <1>1, <1>2, <1>4, <1>5 DEF ChanInv, RecvReturnsAMessage, PrioritiesAreBase
<1> QED
  BY <1>3, <1>6, <1>7, <1>8, <1>9 DEF ChanInv

LEMMA SendChan ==
    ASSUME ChanInv, NEW t \in Users, NEW v \in Messages, Send(t, v)
    PROVE  ChanInv'
<1>1. ASSUME NEW r \in Users, HandOff(v, r), PreemptFor(t, r, priority[t]),
             UNCHANGED <<pendsv, seen>>
      PROVE  ChanInv'
  <2>1. TaskWakes(t, r) /\ state[r] = "Blocked" /\ call[t] = "none"
    BY <1>1, ServedReceiver, CallerIsFree DEF Send, HandOff, TaskWakes
  <2>2. KernelInv' /\ \A u \in Users : u # t => pc'[u] = pc[u]
    BY <2>1, TaskWakesInv, KernelConstants DEF ChanInv
  <2> QED
    BY <1>1, <2>1, <2>2, HandOffChan DEF ChanInv, WaitersAreCallers
<1> QED
  BY <1>1, EnqueueChan, SendBlocksChan DEF Send

LEMMA IsrSendChan ==
    ASSUME ChanInv, NEW v \in Messages, IsrSend(v)
    PROVE  ChanInv'
<1>1. ASSUME NEW r \in Users, HandOff(v, r), pendsv' = (pendsv \/ Outranks(r, current)),
             UNCHANGED <<seen, pc>>
      PROVE  ChanInv'
  <2>1. IsrWakes(r) /\ state[r] = "Blocked"
    BY <1>1, ServedReceiver DEF HandOff, IsrWakes
  <2>2. KernelInv'
    BY <2>1, IsrWakesInv DEF ChanInv
  <2> QED
    BY <1>1, <2>2, HandOffChan DEF ChanInv, WaitersAreCallers
<1> QED
  BY <1>1, EnqueueChan DEF IsrSend

LEMMA RecvChan ==
    ASSUME ChanInv, NEW t \in Users, Recv(t)
    PROVE  ChanInv'
<1>1. ASSUME NEW u \in Users, DequeueAdmits(u), PreemptFor(t, u, priority[t]),
             UNCHANGED <<pendsv, seen, receivers, call>>, SlotGetsHead(t)
      PROVE  ChanInv'
  <2>1. TaskWakes(t, u) /\ state[u] = "Blocked" /\ call[t] = "none" /\ Calls(t)
    BY <1>1, AdmittedSender, CallerIsFree DEF Recv, DequeueAdmits, TaskWakes
  <2>2. KernelInv' /\ \A v \in Users : v # t => pc'[v] = pc[v]
    BY <2>1, TaskWakesInv, KernelConstants DEF ChanInv
  <2> QED
    BY <1>1, <2>1, <2>2, AdmitsChan DEF ChanInv, WaitersAreCallers
<1> QED
  BY <1>1, DequeueChan, RecvBlocksChan DEF Recv, SlotGetsHead

LEMMA IsrRecvChan ==
    ASSUME ChanInv, IsrRecv
    PROVE  ChanInv'
<1>1. ASSUME NEW u \in Users, DequeueAdmits(u), pendsv' = (pendsv \/ Outranks(u, current)),
             UNCHANGED <<seen, pc, receivers, slot, call>>
      PROVE  ChanInv'
  <2>1. IsrWakes(u) /\ state[u] = "Blocked"
    BY <1>1, AdmittedSender DEF DequeueAdmits, IsrWakes
  <2>2. KernelInv'
    BY <2>1, IsrWakesInv DEF ChanInv
  <2> QED
    BY <1>1, <2>2, AdmitsChan DEF ChanInv, WaitersAreCallers
<1> QED
  BY <1>1, DequeueChan DEF IsrRecv

LEMMA CallReturnsChan ==
    ASSUME ChanInv, NEW t \in Users, CallReturns(t)
    PROVE  ChanInv'
<1>1. t \in Tasks /\ state[t] = "Running"
  BY KernelConstants, ThreadRuns DEF ChanInv, KernelInv, CallReturns, Return
<1>2. KernelInv'
  BY ExitReturnInv DEF ChanInv, CallReturns
<1>3. TypeOK' /\ RingHoldsMessages' /\ PrioritiesAreBase' /\ WaitersHaveReason'
  BY <1>2 DEF CallReturns, Return, ChanInv, TypeOK, KernelInv, RingHoldsMessages, Place,
              PrioritiesAreBase, WaitersHaveReason, ringVars
<1>4. WaitersAreBlocked'
  BY DEF CallReturns, Return, ChanInv, WaitersAreBlocked
<1>5. t \notin ToSet(senders) /\ t \notin ToSet(receivers)
  BY <1>1 DEF ChanInv, WaitersAreBlocked
<1>6. /\ \A u \in Users : call'[u] = IF u = t THEN "none" ELSE call[u]
      /\ \A u \in Tasks : u # t => pc'[u] = pc[u]
  BY DEF CallReturns, Return, ChanInv, TypeOK, KernelInv, KernelTypeOK
<1>7. WaitersAreCallers' /\ RecvReturnsAMessage'
  <2>1. ToSet(senders) \subseteq Users /\ ToSet(receivers) \subseteq Users
    BY DEF ChanInv, TypeOK, ToSet
  <2>2. UNCHANGED <<senders, receivers, src, slot, state>>
    BY DEF CallReturns, Return
  <2> QED
    BY <1>5, <1>6, <2>1, <2>2, KernelConstants
       DEF ChanInv, WaitersAreCallers, RecvReturnsAMessage
<1> QED
  BY <1>2, <1>3, <1>4, <1>7 DEF ChanInv

LEMMA NextChan ==
    ASSUME ChanInv, [Next]_vars
    PROVE  ChanInv'
<1>1. CASE UNCHANGED vars
  BY <1>1, QuietStepChan, StutterInv DEF vars, kernelVars, ChanInv
<1>2. CASE KernelStep /\ UNCHANGED chanVars
  <2>1. priority' = priority
    BY <1>2, KernelStepKeepsPriorities
  <2> QED
    BY <1>2, <2>1, KernelStepInv, KernelStepKeepsBlocked, QuietStepChan DEF ChanInv, KernelInv
<1>3. ASSUME NEW t \in Users, TaskExits(t)
      PROVE  ChanInv'
  <2>1. state[t] = "Running" /\ t \in Tasks
    BY <1>3, CallerIsFree DEF TaskExits, Exit
  <2>2. /\ state' = [state EXCEPT ![t] = "Dead"]
        /\ pc' = [pc EXCEPT ![t] = "trigger"]
        /\ priority' = priority
    BY <1>3 DEF TaskExits, Exit, LeaveRunning
  <2>3. \A u \in Users :
           /\ state'[u] = "Blocked" <=> state[u] = "Blocked"
           /\ pc[u] \in {"trigger", "return"} => pc'[u] \in {"trigger", "return"}
    BY <2>1, <2>2, KernelConstants DEF ChanInv, KernelInv, KernelTypeOK
  <2> QED
    BY <1>3, <2>2, <2>3, ExitReturnInv, QuietStepChan DEF TaskExits, ChanInv
<1> QED
  BY <1>1, <1>2, <1>3, SendChan, RecvChan, IsrSendChan, IsrRecvChan, CallReturnsChan
     DEF Next, TaskStep

LEMMA ChanInvHolds == Spec => []ChanInv
<1>1. Init => ChanInv
  BY InitChan
<1>2. ChanInv /\ [Next]_vars => ChanInv'
  BY NextChan
<1> QED
  BY <1>1, <1>2, PTL DEF Spec

\* Types, and no waiter is lost: however tasks and handlers send and receive, a task
\* is Blocked exactly while it is in one of the two lists, once.
THEOREM NoWaiterIsLost == Spec => []Consistent
<1>1. ChanInv => Consistent
  <2> SUFFICES ASSUME ChanInv PROVE IsInjective(senders \o receivers)
    BY DEF ChanInv, Consistent, BlockedExactlyWaiting, WaitersAreBlocked
  <2>1. senders \in Seq(Users) /\ receivers \in Seq(Users)
    BY DEF ChanInv, TypeOK
  <2>2. senders = <<>> \/ receivers = <<>>
    BY ChannelAssumption DEF ChanInv, WaitersHaveReason
  <2>3. senders \o receivers = senders \/ senders \o receivers = receivers
    BY <2>1, <2>2
  <2> QED
    BY <2>3 DEF ChanInv, WaitersAreBlocked
<1> QED
  BY <1>1, ChanInvHolds, PTL

\* Nobody waits to send beside a free place, nor to receive beside a message.
THEOREM NobodyWaitsInVain == Spec => []WaitersHaveReason
<1>1. ChanInv => WaitersHaveReason
  BY DEF ChanInv
<1> QED
  BY <1>1, ChanInvHolds, PTL

\* recv never returns an uninitialised slot.
THEOREM EveryRecvGetsAMessage == Spec => []RecvReturnsAMessage
<1>1. ChanInv => RecvReturnsAMessage
  BY DEF ChanInv
<1> QED
  BY <1>1, ChanInvHolds, PTL

-----------------------------------------------------------------------------
(***************************************************************************)
(* Preemptions.                                                            *)
(***************************************************************************)

\* A receiver that is handed a message, or a sender that is let in.
LEMMA ServingPreempts ==
    ASSUME ChanInv, PreemptionPending, NEW u \in Users,
           DequeueAdmits(u) \/ \E v \in Messages : HandOff(v, u),
           \/ \E t \in Users :
                 Calls(t) /\ PreemptFor(t, u, priority[t]) /\ UNCHANGED <<pendsv, seen>>
           \/ pendsv' = (pendsv \/ Outranks(u, current)) /\ UNCHANGED <<seen, pc>>
    PROVE  PreemptionPending'
<1>1. Unblock(u) /\ UNCHANGED <<current, left, priority>>
  BY DEF HandOff, DequeueAdmits
<1>2. IsrWakes(u) \/ \E t \in Users : TaskWakes(t, u)
  BY <1>1 DEF IsrWakes, TaskWakes
<1> QED
  BY <1>2, WakingPreempts DEF ChanInv

LEMMA StepKeepsPreemptions ==
    ASSUME ChanInv, [Next]_vars, PreemptionPending,
           ~(PendSVSwitch /\ seen # ReadyIn(state))
    PROVE  PreemptionPending'
<1>1. CASE UNCHANGED vars
  BY <1>1 DEF vars, kernelVars, PreemptionPending, SwitchUnderWay, Outranks
<1>2. CASE KernelStep
  BY <1>2, KernelStepPreempts DEF ChanInv, KernelInv
<1>3. ASSUME NEW t \in Users, TaskExits(t) \/ CallReturns(t)
      PROVE  PreemptionPending'
  BY <1>3, ExitReturnPreempts DEF TaskExits, CallReturns, ChanInv, KernelInv
<1>4. \A v \in Messages : Enqueue(v) => UNCHANGED kernelVars
  BY DEF Enqueue
<1>5. Dequeue => UNCHANGED kernelVars
  BY DEF Dequeue
<1>6. ASSUME NEW t \in Users, NEW v \in Messages, Send(t, v)
      PROVE  PreemptionPending'
  <2>1. SendBlocks(t, v) => Parks(t)
    BY <1>6 DEF Send, SendBlocks, Parks
  <2> QED
    BY <1>4, <1>6, <2>1, QuietCallPreempts, ServingPreempts DEF Send, ChanInv
<1>7. ASSUME NEW t \in Users, Recv(t)
      PROVE  PreemptionPending'
  <2>1. RecvBlocks(t) => Parks(t)
    BY <1>7 DEF Recv, RecvBlocks, Parks
  <2> QED
    BY <1>5, <1>7, <2>1, QuietCallPreempts, ServingPreempts DEF Recv, ChanInv
<1>8. ASSUME IsrRecv \/ \E v \in Messages : IsrSend(v)
      PROVE  PreemptionPending'
  BY <1>4, <1>5, <1>8, QuietCallPreempts, ServingPreempts DEF IsrSend, IsrRecv, ChanInv
<1> QED
  BY <1>1, <1>2, <1>3, <1>6, <1>7, <1>8 DEF Next, TaskStep

\* Sends and receives, by tasks and by handlers, forget no preemption: only a PendSV
\* that such a handler preempted does, until the next tick that finds a task running.
THEOREM PreemptionsAreKept == Spec => PreemptionsKept
<1>1. ASSUME ChanInv, [Next]_vars
      PROVE  [ /\ PreemptionPending /\ ~PreemptionPending'
                     => PendSVSwitch /\ seen # ReadyIn(state)
               /\ TickRunning => PreemptionPending' ]_kernelVars
  BY <1>1, StepKeepsPreemptions, TickPreempts
<1> QED
  BY <1>1, ChanInvHolds, PTL DEF Spec, PreemptionsKept

-----------------------------------------------------------------------------
(***************************************************************************)
(* Channel implements Fifo: the ring is read from the head, a message that *)
(* is handed over skips an empty queue, and one of an admitted sender      *)
(* follows the last of a full one.                                         *)
(***************************************************************************)
Ring == [i \in 1 .. count |-> buf[(head + i - 1) % Capacity]]
Offers == [t \in Users |-> IF t \in ToSet(senders) THEN src[t] ELSE NoMessage]

RingFacts ==
    /\ Ring \in Seq(Cells)
    /\ Len(Ring) = count /\ count \in 0 .. Capacity
    /\ \A i \in 1 .. count : Ring[i] = buf[Place(i - 1)]
    /\ head \in 0 .. Capacity - 1 /\ Capacity \in Nat \ {0}
    /\ count > 0 => Ring # <<>> /\ Head(Ring) = buf[head]

LEMMA RingIsASeq == ASSUME ChanInv PROVE RingFacts
<1>1. count \in 0 .. Capacity /\ head \in 0 .. Capacity - 1 /\ Capacity \in Nat \ {0}
      /\ buf \in [0 .. Capacity - 1 -> Cells]
  BY ChannelAssumption DEF ChanInv, TypeOK
<1>2. \A i \in 1 .. count : /\ (head + i - 1) % Capacity = Place(i - 1)
                            /\ Place(i - 1) \in 0 .. Capacity - 1
  <2> SUFFICES ASSUME NEW i \in 1 .. count
               PROVE  /\ (head + i - 1) % Capacity = Place(i - 1)
                      /\ Place(i - 1) \in 0 .. Capacity - 1
    OBVIOUS
  <2>1. i - 1 \in 0 .. Capacity /\ head + i - 1 = head + (i - 1)
    BY <1>1
  <2> QED
    BY <1>1, <2>1, RingPlaces DEF Place
<1>3. Ring \in Seq(Cells) /\ Len(Ring) = count
  BY <1>1, <1>2 DEF Ring
<1>4. \A i \in 1 .. count : Ring[i] = buf[Place(i - 1)]
  BY <1>2 DEF Ring
<1>5. ASSUME count > 0
      PROVE  Ring # <<>> /\ Head(Ring) = buf[head]
  <2>1. 1 \in 1 .. count /\ Ring # <<>> /\ Head(Ring) = Ring[1]
    BY <1>1, <1>3, <1>5
  <2>2. Place(1 - 1) = head
    BY <1>1, RingPlaces
  <2> QED
    BY <1>4, <2>1, <2>2
<1> QED
  BY <1>1, <1>3, <1>4, <1>5 DEF RingFacts

LEMMA RingStaysASeq == ChanInv' => RingFacts'
<1>1. ChanInv => RingFacts
  BY RingIsASeq
<1> QED
  BY <1>1, PTL

\* Two rings with the same messages at the same places are the same sequence.
LEMMA SameRing ==
    ASSUME ChanInv, ChanInv', NEW s \in Seq(Cells), Len(s) = count',
           \A i \in 1 .. count' : buf'[Place(i - 1)'] = s[i]
    PROVE  Ring' = s
<1>1. /\ Ring' \in Seq(Cells)
      /\ Len(Ring') = count'
      /\ \A i \in 1 .. count' : Ring'[i] = buf'[Place(i - 1)']
  BY RingStaysASeq DEF RingFacts
<1> HIDE DEF Ring
<1> QED
  BY <1>1

LEMMA EnqueueFifo ==
    ASSUME ChanInv, ChanInv', NEW v \in Messages, Enqueue(v)
    PROVE  Queue!Put(v)
<1>1. RingFacts /\ tail = Place(count) /\ tail \in 0 .. Capacity - 1
      /\ buf \in [0 .. Capacity - 1 -> Cells] /\ v \in Cells
  BY RingIsASeq DEF ChanInv, RingHoldsMessages, TypeOK, Cells
<1>2. /\ head' = head /\ count' = count + 1 /\ buf' = [buf EXCEPT ![tail] = v]
      /\ count < Capacity /\ receivers = <<>> /\ UNCHANGED <<receivers, senders, src, slot>>
  BY DEF Enqueue
<1>3. Ring' = Append(Ring, v)
  <2> DEFINE s == Append(Ring, v)
  <2>1. /\ s \in Seq(Cells) /\ Len(s) = count'
        /\ \A i \in 1 .. count : s[i] = Ring[i]
        /\ s[count + 1] = v
    <3> HIDE DEF Ring
    <3> QED
      BY <1>1, <1>2 DEF RingFacts
  <2> HIDE DEF s
  <2>2. ASSUME NEW i \in 1 .. count'
        PROVE  buf'[Place(i - 1)'] = s[i]
    <3>1. Place(i - 1)' = Place(i - 1)
      BY <1>2 DEF Place
    <3>2. i - 1 \in 0 .. Capacity - 1 /\ i - 1 \in 0 .. Capacity /\ count \in 0 .. Capacity - 1
      BY <1>1, <1>2 DEF RingFacts
    <3>3. Place(i - 1) \in 0 .. Capacity - 1
      BY <1>1, <3>2, RingPlaces DEF RingFacts
    <3>4. CASE i = count + 1
      BY <1>1, <1>2, <2>1, <3>1, <3>4 DEF RingFacts
    <3>5. CASE i # count + 1
      <4>1. i \in 1 .. count /\ i - 1 # count
        BY <1>1, <1>2, <3>5 DEF RingFacts
      <4>2. Place(i - 1) # tail
        BY <1>1, <3>2, <4>1, RingPlaces DEF RingFacts
      <4>3. s[i] = buf[Place(i - 1)]
        BY <1>1, <2>1, <4>1 DEF RingFacts
      <4> QED
        BY <1>1, <1>2, <3>1, <3>3, <4>2, <4>3
    <3> QED
      BY <3>4, <3>5
  <2>3. Ring' = s
    BY <2>1, <2>2, SameRing
  <2> QED
    BY <2>3 DEF s
<1>4. ToSet(receivers) = {} /\ ToSet(receivers)' = ToSet(receivers) /\ Offers' = Offers
      /\ slot' = slot /\ Len(Ring) < Capacity
  <2>1. Offers' = Offers
    BY <1>2 DEF Offers
  <2> QED
    BY <1>1, <1>2, <2>1 DEF ToSet, RingFacts
<1> QED
  BY <1>3, <1>4 DEF Queue!Put, Ring, Offers

LEMMA HandOffFifo ==
    ASSUME ChanInv, NEW v \in Messages, NEW r \in Users, HandOff(v, r)
    PROVE  Queue!HandOver(v)
<1>1. /\ r \in ToSet(receivers)
      /\ \A u \in ToSet(receivers) : BasePrio[r] <= BasePrio[u]
      /\ ToSet(receivers') = ToSet(receivers) \ {r}
  BY ServedReceiver
<1>2. /\ slot' = [slot EXCEPT ![r] = v]
      /\ UNCHANGED <<buf, head, count, senders, src>>
  BY DEF HandOff, ringVars
<1>3. Ring' = Ring /\ Offers' = Offers
  BY <1>2 DEF Ring, Offers
<1> QED
  BY <1>1, <1>2, <1>3 DEF Queue!HandOver, Queue!Top, Ring, Offers

LEMMA SendBlocksFifo ==
    ASSUME ChanInv, NEW t \in Users, NEW v \in Messages, Calls(t), SendBlocks(t, v)
    PROVE  Queue!Offer(t, v)
<1>1. Len(Ring) = Capacity
  BY RingIsASeq DEF RingFacts, SendBlocks
<1>2. Ring' = Ring /\ slot' = slot /\ receivers' = receivers
  BY DEF SendBlocks, ringVars, Ring
<1>3. ToSet(senders') = ToSet(senders) \cup {t}
  BY ParkedSender
<1>4. \A u \in Users : src'[u] = IF u = t THEN v ELSE src[u]
  BY DEF SendBlocks, ChanInv, TypeOK
<1>5. Offers' = [Offers EXCEPT ![t] = v]
  BY <1>3, <1>4 DEF Offers
<1> QED
  BY <1>1, <1>2, <1>5 DEF Queue!Offer, Ring, Offers

LEMMA RecvBlocksFifo ==
    ASSUME ChanInv, NEW t \in Users, Calls(t), RecvBlocks(t)
    PROVE  Queue!Ask(t)
<1>1. Ring = <<>>
  BY RingIsASeq DEF RingFacts, RecvBlocks
<1>2. Ring' = Ring /\ slot' = [slot EXCEPT ![t] = NoMessage] /\ Offers' = Offers
  BY DEF RecvBlocks, ringVars, Ring, Offers
<1>3. ToSet(receivers)' = ToSet(receivers) \cup {t}
  <2>1. receivers \in Seq(Users)
    BY DEF ChanInv, TypeOK
  <2>2. ToSet(Cons(t, receivers)) = ToSet(receivers) \cup {t}
    BY <2>1, PushedList
  <2> QED
    BY <2>2 DEF RecvBlocks
<1> QED
  BY <1>1, <1>2, <1>3, SMTT(30) DEF Queue!Ask, Ring, Offers

\* The ring once the message at its head has left.
LEMMA TailOfRing ==
    ASSUME ChanInv, count > 0, head' = NextPlace(head)
    PROVE  /\ Tail(Ring) \in Seq(Cells) /\ Len(Tail(Ring)) = count - 1
           /\ \A i \in 1 .. count - 1 : Tail(Ring)[i] = buf[Place(i)] /\ Place(i - 1)' = Place(i)
<1>1. RingFacts
  BY RingIsASeq
<1>2. /\ Tail(Ring) \in Seq(Cells) /\ Len(Tail(Ring)) = count - 1
      /\ \A i \in 1 .. count - 1 : Tail(Ring)[i] = Ring[i + 1]
  <2> HIDE DEF Ring
  <2> QED
    BY <1>1 DEF RingFacts
<1>3. ASSUME NEW i \in 1 .. count - 1
      PROVE  Tail(Ring)[i] = buf[Place(i)] /\ Place(i - 1)' = Place(i)
  <2>1. i + 1 \in 1 .. count /\ (i + 1) - 1 = i /\ i - 1 \in 0 .. Capacity - 1
        /\ (i - 1) + 1 = i
    BY <1>1 DEF RingFacts
  <2>2. Tail(Ring)[i] = buf[Place(i)]
    BY <1>1, <1>2, <2>1 DEF RingFacts
  <2>3. (head' + (i - 1)) % Capacity = Place((i - 1) + 1)
    BY <1>1, <2>1, RingPlaces DEF RingFacts
  <2> QED
    BY <2>1, <2>2, <2>3 DEF Place
<1> QED
  BY <1>2, <1>3

LEMMA DequeueFifo ==
    ASSUME ChanInv, ChanInv', Dequeue
    PROVE  Queue!Leaves /\ Ring # <<>> /\ Head(Ring) = buf[head]
<1>1. /\ head' = NextPlace(head) /\ count' = count - 1 /\ buf' = buf
      /\ count > 0 /\ senders = <<>> /\ UNCHANGED <<senders, src>>
  BY DEF Dequeue
<1>2. Ring' = Tail(Ring)
  <2> DEFINE s == Tail(Ring)
  <2>1. /\ s \in Seq(Cells) /\ Len(s) = count'
        /\ \A i \in 1 .. count' : s[i] = buf'[Place(i - 1)']
    BY <1>1, TailOfRing
  <2> HIDE DEF s
  <2>2. Ring' = s
    BY <2>1, SameRing
  <2> QED
    BY <2>2 DEF s
<1>3. Offers' = Offers /\ \A t \in Users : Offers[t] = NoMessage
  BY <1>1 DEF Offers, ToSet
<1>4. Ring # <<>> /\ Head(Ring) = buf[head]
  BY <1>1, RingIsASeq DEF RingFacts
<1> QED
  BY <1>2, <1>3, <1>4 DEF Queue!Leaves, Queue!Offering, Ring, Offers

LEMMA AdmitsFifo ==
    ASSUME ChanInv, ChanInv', NEW u \in Users, DequeueAdmits(u)
    PROVE  Queue!Leaves /\ Ring # <<>> /\ Head(Ring) = buf[head]
<1>1. /\ src[u] \in Messages /\ count = Capacity /\ tail = head
      /\ u \in ToSet(senders)
      /\ \A t \in ToSet(senders) : BasePrio[u] <= BasePrio[t]
      /\ ToSet(senders') = ToSet(senders) \ {u}
  BY AdmittedSender
<1>2. /\ head' = NextPlace(head) /\ count' = count /\ count > 0
      /\ buf' = [buf EXCEPT ![head] = src[u]]
      /\ src' = [src EXCEPT ![u] = NoMessage]
  BY <1>1 DEF DequeueAdmits, Admitted
<1>3. RingFacts /\ buf \in [0 .. Capacity - 1 -> Cells] /\ src[u] \in Cells
  BY <1>1, RingIsASeq DEF ChanInv, TypeOK, Cells
<1>4. Ring' = Append(Tail(Ring), src[u])
  <2> DEFINE r == Tail(Ring)
             s == Append(r, src[u])
  <2>1. /\ r \in Seq(Cells) /\ Len(r) = count - 1
        /\ \A i \in 1 .. count - 1 : r[i] = buf[Place(i)] /\ Place(i - 1)' = Place(i)
    BY <1>2, TailOfRing
  <2> HIDE DEF r
  <2>2. /\ s \in Seq(Cells) /\ Len(s) = count
        /\ \A i \in 1 .. count - 1 : s[i] = r[i]
        /\ s[count] = src[u]
    BY <1>3, <2>1 DEF RingFacts
  <2> HIDE DEF s
  <2>3. ASSUME NEW i \in 1 .. count'
        PROVE  buf'[Place(i - 1)'] = s[i]
    <3>1. CASE i = count
      <4>1. i - 1 \in 0 .. Capacity - 1 /\ (i - 1) + 1 = Capacity
        BY <1>1, <1>3, <3>1 DEF RingFacts
      <4>2. (head' + (i - 1)) % Capacity = Place(Capacity) /\ Place(Capacity) = head
        BY <1>2, <1>3, <4>1, RingPlaces DEF RingFacts
      <4>3. Place(i - 1)' = head
        BY <4>2 DEF Place
      <4> QED
        BY <1>2, <1>3, <2>2, <3>1, <4>3 DEF RingFacts
    <3>2. CASE i # count
      <4>1. i \in 1 .. count - 1 /\ i \in 0 .. Capacity - 1 /\ 0 \in 0 .. Capacity - 1 /\ i # 0
        BY <1>1, <1>2, <1>3, <3>2 DEF RingFacts
      <4>2. Place(i) # head /\ Place(i) \in 0 .. Capacity - 1
        BY <1>3, <4>1, RingPlaces DEF RingFacts
      <4>3. s[i] = buf[Place(i)] /\ Place(i - 1)' = Place(i)
        BY <2>1, <2>2, <4>1
      <4> QED
        BY <1>2, <1>3, <4>2, <4>3
    <3> QED
      BY <3>1, <3>2
  <2>4. Ring' = s
    BY <1>2, <2>2, <2>3, SameRing
  <2> QED
    BY <2>4 DEF s, r
<1>5. /\ Offers' = [Offers EXCEPT ![u] = NoMessage]
      /\ Offers[u] = src[u]
      /\ \A t \in Users : Offers[t] # NoMessage <=> t \in ToSet(senders)
  <2>1. \A t \in Users : src'[t] = IF t = u THEN NoMessage ELSE src[t]
    BY <1>2 DEF ChanInv, TypeOK
  <2>2. \A t \in ToSet(senders) : src[t] # NoMessage
    BY ChannelAssumption DEF ChanInv, WaitersAreCallers
  <2> QED
    BY <1>1, <2>1, <2>2 DEF Offers
<1>6. Ring # <<>> /\ Head(Ring) = buf[head]
  BY <1>2, <1>3 DEF RingFacts
<1>7. u \in Queue!Offering /\ Queue!Top(u, Queue!Offering)
  BY <1>1, <1>5 DEF Queue!Offering, Queue!Top, Offers
<1> QED
  BY <1>4, <1>5, <1>6, <1>7 DEF Queue!Leaves, Ring, Offers

\* Steps that the users of the queue do not see.
LEMMA UnseenFifo ==
    ASSUME UNCHANGED <<buf, head, count, senders, receivers, src, slot>>
    PROVE  UNCHANGED Queue!vars
BY DEF Queue!vars

LEMMA StepImplementsFifo ==
    ASSUME ChanInv, ChanInv', [Next]_vars
    PROVE  [Queue!Next]_(Queue!vars)
<1>1. CASE UNCHANGED vars \/ (KernelStep /\ UNCHANGED chanVars)
  BY <1>1, UnseenFifo DEF vars, chanVars, ringVars
<1>2. ASSUME NEW t \in Users, TaskExits(t) \/ CallReturns(t)
      PROVE  UNCHANGED Queue!vars
  BY <1>2, UnseenFifo DEF TaskExits, CallReturns, chanVars, ringVars
<1>3. ASSUME NEW v \in Messages, Enqueue(v) \/ \E r \in Users : HandOff(v, r)
      PROVE  Queue!Next
  BY <1>3, EnqueueFifo, HandOffFifo DEF Queue!Next
<1>4. ASSUME NEW t \in Users, NEW v \in Messages, Calls(t), SendBlocks(t, v)
      PROVE  Queue!Next
  BY <1>4, SendBlocksFifo DEF Queue!Next
<1>5. ASSUME NEW t \in Users, Calls(t), RecvBlocks(t)
      PROVE  Queue!Next
  BY <1>5, RecvBlocksFifo DEF Queue!Next
<1>6. ASSUME Dequeue \/ \E u \in Users : DequeueAdmits(u), receivers' = receivers
      PROVE  /\ \A t \in Users : SlotGetsHead(t) => Queue!Get(t)
             /\ slot' = slot => Queue!Next
  <2>1. Queue!Leaves /\ Head(Ring) = buf[head] /\ ToSet(receivers') = ToSet(receivers)
    BY <1>6, DequeueFifo, AdmitsFifo
  <2> QED
    BY <1>6, <2>1 DEF SlotGetsHead, Queue!Get, Queue!Next, Ring
<1>7. ASSUME NEW t \in Users, Recv(t)
      PROVE  Queue!Next
  BY <1>5, <1>6, <1>7 DEF Recv, SlotGetsHead, Queue!Next
<1>8. CASE IsrRecv
  BY <1>6, <1>8 DEF IsrRecv
<1> QED
  BY <1>1, <1>2, <1>3, <1>4, <1>7, <1>8 DEF Next, TaskStep, Send, IsrSend

\* A channel is one first-in first-out queue of messages, whichever way a message
\* takes through it.
THEOREM ChannelImplementsFifo == Spec => ImplementsFifo
<1>1. Init => Queue!Init
  <2> SUFFICES ASSUME Init PROVE Queue!Init
    OBVIOUS
  <2>1. Ring = <<>> /\ ToSet(senders) = {} /\ ToSet(receivers) = {}
    BY DEF Init, Ring, ToSet
  <2> QED
    BY <2>1 DEF Init, Queue!Init, Ring
<1>2. ChanInv /\ ChanInv' /\ [Next]_vars => [Queue!Next]_(Queue!vars)
  BY StepImplementsFifo
<1> QED
  BY <1>1, <1>2, ChanInvHolds, PTL DEF Spec, ImplementsFifo, Queue!Spec
=============================================================================
