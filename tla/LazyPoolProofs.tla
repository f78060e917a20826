--------------------------- MODULE LazyPoolProofs ---------------------------
(***************************************************************************)
(* Pool and Once, for every capacity, every number of tasks and of Onces,  *)
(* and every workload of tasks and interrupt handlers.                     *)
(***************************************************************************)
EXTENDS LazyPool, KernelProofs, FiniteSetTheorems

\* The slot at place i of the free list f, Nil past its end.
At(f, i) == IF i \in DOMAIN f THEN f[i] ELSE Nil

\* f is the free list, as freeHead and the index array link it.
IsFreeList(f) ==
    /\ f \in Seq(Slots)
    /\ IsInjective(f)
    /\ freeHead = At(f, 1)
    /\ \A i \in DOMAIN f : next[f[i]] = At(f, i + 1)

\* The owners a slot can have, where F are the slots in the free list: that list, a
\* box, a task that returns it, or a task that was handed it.
OwnedByList(F, s) ==
    /\ s \in F /\ boxes[s] = 0
    /\ \A t \in Users : s \notin dropping[t] /\ s \notin HandedTo(t)

OwnedByBox(F, s) ==
    /\ s \notin F /\ boxes[s] = 1
    /\ \A t \in Users : s \notin dropping[t] /\ s \notin HandedTo(t)

OwnedByDropper(F, s, d) ==
    /\ s \notin F /\ boxes[s] = 0
    /\ \A t \in Users : (s \in dropping[t] <=> t = d) /\ s \notin HandedTo(t)

OwnedByAllocator(F, s, a) ==
    /\ s \notin F /\ boxes[s] = 0
    /\ \A t \in Users : s \notin dropping[t] /\ (s \in HandedTo(t) <=> t = a)

Owned(F, s) ==
    \/ OwnedByList(F, s)
    \/ OwnedByBox(F, s)
    \/ \E t \in Users : OwnedByDropper(F, s, t) \/ OwnedByAllocator(F, s, t)

OneOwner(F) == \A s \in Slots : Owned(F, s)

SlotsInv == \E f : IsFreeList(f) /\ OneOwner(ToSet(f))

\* The tasks that wait for a slot are the ones Blocked in alloc_blocking; they have
\* parked a value, and none waits while a slot is free.
AllocInv ==
    /\ IsInjective(allocWaiters)
    /\ allocWaiters # <<>> => freeHead = Nil
    /\ \A t \in Users :
          /\ t \in ToSet(allocWaiters) <=> t \in allocating /\ state[t] = "Blocked"
          /\ t \in ToSet(allocWaiters) => src[t] \in Values
          /\ t \in allocating /\ state[t] # "Blocked" => waitPtr[t] \in Slots
          /\ t \in allocating => pc[t] \in {"trigger", "return"}

\* The tasks that wait for a Once are the ones Blocked in its call_once, while the
\* closure of the one task that initialises it runs.
OnceInv ==
    /\ \A o \in Onces :
          /\ IsInjective(onceWaiters[o])
          /\ onceWaiters[o] # <<>> => onceState[o] = "Running"
          /\ onceState[o] = "Running" <=> \E t \in Users : o \in initialising[t]
          /\ \A t, u \in Users : o \in initialising[t] /\ o \in initialising[u] => t = u
    /\ \A t \in Users :
          /\ \A o, p \in initialising[t] : o = p
          /\ \A o, p \in waitingFor[t] : o = p
          /\ waitingFor[t] # {} => pc[t] \in {"trigger", "return"}
          /\ \A o \in Onces :
                /\ t \in ToSet(onceWaiters[o]) <=> o \in waitingFor[t] /\ state[t] = "Blocked"
                /\ o \in waitingFor[t] /\ state[t] # "Blocked" => onceState[o] = "Done"

\* A task waits for a slot or for a Once, and is Blocked for no other reason.
OneReasonToWait ==
    \A t \in Users :
        /\ t \in allocating => waitingFor[t] = {}
        /\ state[t] = "Blocked" => t \in allocating \/ waitingFor[t] # {}

\* The inductive invariant behind every theorem of this module.
LazyInv ==
    /\ KernelInv
    /\ PoolTypeOK
    /\ OnceTypeOK
    /\ PrioritiesAreBase
    /\ SlotsInv
    /\ AllocInv
    /\ OnceInv
    /\ OneReasonToWait

-----------------------------------------------------------------------------
(***************************************************************************)
(* The free list.  available() walks it from free_head; what the walk sees *)
(* is the list, whole, and then its end.                                   *)
(***************************************************************************)

LEMMA PoolConstants ==
    /\ Capacity \in 0 .. 255
    /\ Slots \subseteq Nat /\ Nil \notin Slots
    /\ IsFiniteSet(Slots) /\ Cardinality(Slots) = Capacity
    /\ IsFiniteSet(Users)
<1>1. Capacity \in 0 .. 255 /\ Slots \subseteq Nat /\ Nil \notin Slots
  BY PoolAssumption DEF Slots, Nil
<1>2. IsFiniteSet(Slots) /\ Cardinality(Slots) = Capacity
  BY <1>1, FS_Interval DEF Slots
<1>3. IsFiniteSet(Users)
  <2>1. N \in Nat /\ IsFiniteSet(1 .. N)
    BY KernelAssumption, FS_Interval
  <2>2. Users \in SUBSET (1 .. N)
    BY DEF Users, Tasks
  <2> QED
    BY <2>1, <2>2, FS_Subset
<1> QED
  BY <1>1, <1>2, <1>3

\* A list without repetitions is no longer than there are slots.
LEMMA FreeListFits ==
    ASSUME NEW f, IsFreeList(f)
    PROVE  Len(f) \in 0 .. Capacity /\ DOMAIN f = 1 .. Len(f)
<1>1. f \in Seq(Slots) /\ Len(f) \in Nat /\ DOMAIN f = 1 .. Len(f) /\ IsInjective(f)
  BY DEF IsFreeList
<1>2. ASSUME Len(f) > Capacity
      PROVE  FALSE
  <2>1. IsFiniteSet(1 .. Len(f)) /\ Cardinality(1 .. Len(f)) = Len(f)
    BY <1>1, FS_Interval
  <2>2. f \in [1 .. Len(f) -> Slots] /\ Cardinality(Slots) < Cardinality(1 .. Len(f))
    BY <1>1, <1>2, <2>1, PoolConstants
  <2>3. \E i, j \in 1 .. Len(f) : i # j /\ f[i] = f[j]
    BY <2>1, <2>2, PoolConstants, FS_PigeonHole
  <2> QED
    BY <1>1, <2>3 DEF IsInjective
<1> QED
  BY <1>1, <1>2, PoolConstants

\* The n-th step of the walk reaches the place after n others.
LEMMA WalkFollowsList ==
    ASSUME NEW f, IsFreeList(f)
    PROVE  \A n \in 0 .. Capacity : WalkAt[n] = At(f, n + 1)
<1> DEFINE B(g) == [n \in 0 .. Capacity |->
                      IF n = 0 THEN freeHead
                      ELSE LET at == g[n - 1] IN IF at = Nil THEN Nil ELSE next[at]]
           list == [n \in 0 .. Capacity |-> At(f, n + 1)]
<1>0. /\ Capacity \in Nat /\ Nil \notin Slots
      /\ Len(f) \in 0 .. Capacity /\ DOMAIN f = 1 .. Len(f)
      /\ \A i \in 1 .. Len(f) : f[i] \in Slots /\ next[f[i]] = At(f, i + 1)
      /\ freeHead = At(f, 1)
  BY FreeListFits, PoolConstants DEF IsFreeList
<1>1. list = B(list)
  <2>1. ASSUME NEW n \in 0 .. Capacity, n # 0
        PROVE  At(f, n + 1) = IF At(f, n) = Nil THEN Nil ELSE next[At(f, n)]
    BY <1>0, <2>1 DEF At
  <2>2. ASSUME NEW n \in 0 .. Capacity
        PROVE  list[n] = B(list)[n]
    <3>1. CASE n = 0
      BY <1>0, <3>1
    <3>2. CASE n # 0
      <4>1. n - 1 \in 0 .. Capacity /\ (n - 1) + 1 = n
        BY <1>0, <3>2
      <4> QED
        BY <2>1, <3>2, <4>1
    <3> QED
      BY <3>1, <3>2
  <2> QED
    BY <2>2
<1>2. WalkAt = CHOOSE g : g = B(g)
  BY DEF WalkAt
<1>3. WalkAt = B(WalkAt)
  <2> HIDE DEF B, list
  <2> QED
    BY <1>1, <1>2
<1> DEFINE S == {n \in 0 .. Capacity : WalkAt[n] # list[n]}
<1>4. S = {}
  <2> SUFFICES ASSUME S # {} PROVE FALSE
    OBVIOUS
  <2>1. PICK n \in S : \A m \in S : n <= m
    <3>1. S \in SUBSET Nat
      BY <1>0
    <3> HIDE DEF S
    <3> QED
      BY <3>1, LeastNumber
  <2>2. n \in 0 .. Capacity /\ n # 0
    BY <1>0, <1>1, <1>3, <2>1
  <2>3. n - 1 \in 0 .. Capacity /\ n - 1 \notin S
    BY <1>0, <2>1, <2>2
  <2>4. WalkAt[n - 1] = list[n - 1]
    BY <2>3
  <2>5. WalkAt[n] = B(WalkAt)[n] /\ list[n] = B(list)[n]
    BY <1>1, <1>3
  <2>6. WalkAt[n] = list[n]
    <3> HIDE DEF list
    <3> QED
      BY <2>2, <2>4, <2>5
  <2> QED
    BY <2>1, <2>6
<1> QED
  BY <1>4

LEMMA WalkSeesFreeList ==
    ASSUME NEW f, IsFreeList(f)
    PROVE  FreeSlots = ToSet(f) /\ WalkAt[Capacity] = Nil
<1>1. /\ \A n \in 0 .. Capacity : WalkAt[n] = At(f, n + 1)
      /\ Capacity \in Nat /\ Nil \notin Slots
      /\ Len(f) \in 0 .. Capacity /\ DOMAIN f = 1 .. Len(f)
      /\ \A i \in 1 .. Len(f) : f[i] \in Slots
  BY WalkFollowsList, FreeListFits, PoolConstants DEF IsFreeList
<1>2. WalkAt[Capacity] = Nil
  BY <1>1 DEF At
<1>3. ASSUME NEW i \in 1 .. Len(f)
      PROVE  f[i] \in FreeSlots
  <2>1. i - 1 \in 0 .. Capacity /\ (i - 1) + 1 = i
    BY <1>1
  <2>2. WalkAt[i - 1] = f[i] /\ f[i] # Nil
    BY <1>1, <2>1 DEF At
  <2> QED
    BY <2>1, <2>2 DEF FreeSlots
<1>4. ASSUME NEW n \in 0 .. Capacity, WalkAt[n] # Nil
      PROVE  WalkAt[n] \in ToSet(f)
  BY <1>1, <1>4 DEF At, ToSet
<1>5. FreeSlots \subseteq ToSet(f)
  BY <1>4 DEF FreeSlots
<1>6. ToSet(f) \subseteq FreeSlots
  BY <1>1, <1>3 DEF ToSet
<1> QED
  BY <1>2, <1>5, <1>6

\* An allocation unlinks the first slot.
LEMMA FirstSlotTaken ==
    ASSUME NEW f, IsFreeList(f), freeHead \in Slots, freeHead' = next[freeHead], next' = next
    PROVE  /\ freeHead \in ToSet(f)
           /\ \E g : IsFreeList(g)' /\ ToSet(g) = ToSet(f) \ {freeHead}
<1> DEFINE n == Len(f)
           g == Tail(f)
<1>1. /\ f \in Seq(Slots) /\ n \in Nat /\ DOMAIN f = 1 .. n
      /\ \A i, j \in 1 .. n : f[i] = f[j] => i = j
      /\ \A i \in 1 .. n : next[f[i]] = At(f, i + 1)
  BY DEF IsFreeList, IsInjective
<1>2. n # 0 /\ freeHead = f[1]
  BY <1>1, PoolConstants DEF IsFreeList, At
<1>3. /\ g \in Seq(Slots) /\ Len(g) = n - 1 /\ DOMAIN g = 1 .. n - 1
      /\ \A i \in 1 .. n - 1 : g[i] = f[i + 1]
  BY <1>1, <1>2
<1> HIDE DEF n, g
<1>4. \A i \in Nat : i > 0 => At(g, i) = At(f, i + 1)
  BY <1>1, <1>2, <1>3 DEF At
<1>5. IsInjective(g)
  <2> SUFFICES ASSUME NEW i \in 1 .. n - 1, NEW j \in 1 .. n - 1, g[i] = g[j]
               PROVE  i = j
    BY <1>3 DEF IsInjective
  <2>1. i + 1 \in 1 .. n /\ j + 1 \in 1 .. n /\ f[i + 1] = f[j + 1]
    BY <1>1, <1>3
  <2> QED
    BY <1>1, <2>1
<1>6. freeHead' = At(g, 1)
  <2>1. next[f[1]] = At(f, 2)
    BY <1>1, <1>2
  <2> QED
    BY <1>2, <1>4, <2>1
<1>7. ASSUME NEW i \in 1 .. n - 1
      PROVE  next[g[i]] = At(g, i + 1)
  <2>1. i + 1 \in 1 .. n /\ g[i] = f[i + 1] /\ i + 1 \in Nat /\ i + 1 > 0
    BY <1>1, <1>3
  <2>2. next[f[i + 1]] = At(f, (i + 1) + 1)
    BY <1>1, <2>1
  <2> QED
    BY <1>4, <2>1, <2>2
<1>8. ToSet(g) = ToSet(f) \ {f[1]}
  <2>1. ASSUME NEW i \in 1 .. n - 1
        PROVE  g[i] \in ToSet(f) /\ g[i] # f[1]
    <3>1. i + 1 \in 1 .. n /\ 1 \in 1 .. n /\ i + 1 # 1
      BY <1>1
    <3> QED
      BY <1>1, <1>3, <3>1 DEF ToSet
  <2>2. ASSUME NEW i \in 1 .. n, f[i] # f[1]
        PROVE  f[i] \in ToSet(g)
    <3>1. i - 1 \in 1 .. n - 1 /\ (i - 1) + 1 = i
      BY <1>1, <2>2
    <3> QED
      BY <1>3, <3>1 DEF ToSet
  <2>3. ToSet(g) \subseteq ToSet(f) \ {f[1]}
    BY <1>3, <2>1 DEF ToSet
  <2>4. ToSet(f) \ {f[1]} \subseteq ToSet(g)
    BY <1>1, <2>2 DEF ToSet
  <2> QED
    BY <2>3, <2>4
<1>9. IsFreeList(g)'
  BY <1>3, <1>5, <1>6, <1>7 DEF IsFreeList, At
<1>10. freeHead \in ToSet(f)
  BY <1>1, <1>2 DEF ToSet
<1> QED
  BY <1>2, <1>8, <1>9, <1>10

\* A free list with one more slot, in front.
LEMMA PushedSlot ==
    ASSUME NEW f \in Seq(Slots), IsInjective(f), NEW s \in Slots, s \notin ToSet(f)
    PROVE  /\ Cons(s, f) \in Seq(Slots)
           /\ ToSet(Cons(s, f)) = ToSet(f) \cup {s}
           /\ IsInjective(Cons(s, f))
BY PushedList

\* A drop links its slot in front.
LEMMA SlotGivenBack ==
    ASSUME NEW f, IsFreeList(f), PoolTypeOK, NEW s \in Slots, s \notin ToSet(f),
           next' = Linked(s), freeHead' = s
    PROVE  \E g : IsFreeList(g)' /\ ToSet(g) = ToSet(f) \cup {s}
<1> DEFINE n == Len(f)
           g == Cons(s, f)
<1>1. /\ f \in Seq(Slots) /\ n \in Nat /\ DOMAIN f = 1 .. n /\ IsInjective(f)
      /\ \A i \in 1 .. n : next[f[i]] = At(f, i + 1)
      /\ freeHead = At(f, 1)
  BY DEF IsFreeList
<1>2. g \in Seq(Slots) /\ IsInjective(g) /\ ToSet(g) = ToSet(f) \cup {s}
  <2>1. f \in Seq(Slots) /\ IsInjective(f) /\ s \notin ToSet(f)
    BY <1>1
  <2>2. /\ Cons(s, f) \in Seq(Slots)
        /\ ToSet(Cons(s, f)) = ToSet(f) \cup {s}
        /\ IsInjective(Cons(s, f))
    BY <2>1, PushedSlot
  <2> QED
    BY <2>2
<1>3. /\ Len(g) = n + 1 /\ DOMAIN g = 1 .. n + 1
      /\ \A i \in 1 .. n + 1 : g[i] = IF i = 1 THEN s ELSE f[i - 1]
  BY <1>1 DEF Cons
<1> HIDE DEF n, g
<1>4. \A i \in Nat : i > 0 => At(g, i + 1) = At(f, i)
  BY <1>1, <1>3 DEF At
<1>5. \A r \in Slots : next'[r] = IF r = s THEN freeHead ELSE next[r]
  BY DEF Linked, PoolTypeOK
<1>6. ASSUME NEW i \in 1 .. n + 1
      PROVE  next'[g[i]] = At(g, i + 1)
  <2>1. CASE i = 1
    BY <1>1, <1>3, <1>4, <1>5, <2>1
  <2>2. CASE i # 1
    <3>1. i - 1 \in 1 .. n /\ (i - 1) + 1 = i /\ i \in Nat /\ i > 0
      BY <1>1, <2>2
    <3>a. f[i - 1] \in Slots /\ f[i - 1] \in ToSet(f)
      BY <1>1, <3>1 DEF ToSet
    <3>2. g[i] = f[i - 1] /\ f[i - 1] \in Slots /\ f[i - 1] # s
      BY <1>3, <2>2, <3>a
    <3>3. next[f[i - 1]] = At(f, i)
      BY <1>1, <3>1
    <3> QED
      BY <1>4, <1>5, <3>1, <3>2, <3>3
  <2> QED
    BY <2>1, <2>2
<1>7. freeHead' = At(g, 1)
  BY <1>1, <1>3 DEF At
<1>8. IsFreeList(g)'
  BY <1>2, <1>3, <1>6, <1>7 DEF IsFreeList, At
<1> QED
  BY <1>2, <1>8

-----------------------------------------------------------------------------
(***************************************************************************)
(* The invariant.                                                          *)
(***************************************************************************)

LEMMA InitLazy == ASSUME Init PROVE LazyInv
<1> USE DEF Init, PoolInit, OnceInit
<1>1. KernelInv /\ PrioritiesAreBase
  BY KernelInitInv DEF KernelInit, PrioritiesAreBase
<1>2. PoolTypeOK
  <2>1. freeHead \in Slots \cup {Nil} /\ next \in [Slots -> Slots \cup {Nil}]
    BY PoolAssumption DEF Slots
  <2> QED
    BY <2>1 DEF PoolTypeOK
<1>3. OnceTypeOK
  BY DEF OnceTypeOK
<1>4. SlotsInv
  <2> DEFINE f == [i \in 1 .. Capacity |-> i - 1]
  <2>1. /\ f \in Seq(Slots) /\ DOMAIN f = 1 .. Capacity
        /\ \A i \in 1 .. Capacity : f[i] = i - 1
    BY PoolConstants DEF Slots
  <2>2. IsInjective(f)
    BY <2>1, PoolConstants DEF IsInjective
  <2> HIDE DEF f
  <2>3. \A i \in 1 .. Capacity : next[f[i]] = At(f, i + 1)
    BY <2>1, PoolConstants DEF At, Slots
  <2>4. freeHead = At(f, 1)
    BY <2>1, PoolConstants DEF At
  <2>5. ToSet(f) = Slots
    <3>1. \A s \in Slots : s + 1 \in 1 .. Capacity /\ f[s + 1] = s
      BY <2>1, PoolConstants DEF Slots
    <3>2. Slots \subseteq ToSet(f)
      BY <2>1, <3>1 DEF ToSet
    <3>a. \A i \in 1 .. Capacity : f[i] \in Slots
      BY <2>1, PoolConstants DEF Slots
    <3>3. ToSet(f) \subseteq Slots
      BY <2>1, <3>a DEF ToSet
    <3> QED
      BY <3>2, <3>3
  <2>6. OneOwner(Slots)
    BY DEF OneOwner, Owned, OwnedByList, HandedTo
  <2> QED
    BY <2>1, <2>2, <2>3, <2>4, <2>5, <2>6 DEF SlotsInv, IsFreeList
<1>5. AllocInv /\ OnceInv /\ OneReasonToWait
  BY KernelConstants
     DEF KernelInit, AllocInv, OnceInv, OneReasonToWait, ToSet, IsInjective
<1> QED
  BY <1>1, <1>2, <1>3, <1>4, <1>5 DEF LazyInv

\* A task in its own code that can make a call is Running and waits for nothing.
LEMMA CallerIsFree ==
    ASSUME LazyInv, NEW t \in Users, Calls(t)
    PROVE  /\ t \in Tasks
           /\ state[t] = "Running"
           /\ t \notin allocating /\ waitingFor[t] = {}
           /\ HandedTo(t) = {}
           /\ t \notin ToSet(allocWaiters)
           /\ \A o \in Onces : t \notin ToSet(onceWaiters[o])
<1>1. t \in Tasks /\ state[t] = "Running" /\ pc[t] = "user"
  BY KernelConstants, ThreadRuns DEF LazyInv, KernelInv, Calls
<1>2. t \notin allocating /\ waitingFor[t] = {}
  BY <1>1 DEF LazyInv, AllocInv, OnceInv
<1> QED
  BY <1>1, <1>2 DEF LazyInv, AllocInv, OnceInv, HandedTo

\* Steps that leave a component alone, and with it the tasks that are in it.
LEMMA OnceFrame ==
    ASSUME LazyInv, UNCHANGED onceVars,
           \A t \in Users : waitingFor[t] # {} =>
              /\ state'[t] = "Blocked" <=> state[t] = "Blocked"
              /\ pc[t] \in {"trigger", "return"} => pc'[t] \in {"trigger", "return"}
    PROVE  OnceInv' /\ OnceTypeOK'
<1>1. OnceTypeOK'
  BY DEF onceVars, LazyInv, OnceTypeOK
<1>2. OnceInv'
  BY DEF onceVars, LazyInv, OnceInv
<1> QED
  BY <1>1, <1>2

LEMMA PoolFrame ==
    ASSUME LazyInv, UNCHANGED poolVars,
           \A t \in allocating :
              /\ state'[t] = "Blocked" <=> state[t] = "Blocked"
              /\ pc[t] \in {"trigger", "return"} => pc'[t] \in {"trigger", "return"}
    PROVE  AllocInv' /\ SlotsInv' /\ PoolTypeOK'
<1>1. PoolTypeOK'
  BY DEF poolVars, LazyInv, PoolTypeOK
<1>2. AllocInv'
  BY DEF poolVars, LazyInv, AllocInv
<1>3. SlotsInv'
  <2>1. PICK f : IsFreeList(f) /\ OneOwner(ToSet(f))
    BY DEF LazyInv, SlotsInv
  <2>2. IsFreeList(f)'
    BY <2>1 DEF IsFreeList, poolVars
  <2>3. \A t \in Users : HandedTo(t)' = HandedTo(t)
    BY DEF HandedTo, poolVars
  <2>4. OneOwner(ToSet(f))'
    BY <2>1, <2>3
       DEF OneOwner, Owned, OwnedByList, OwnedByBox, OwnedByDropper, OwnedByAllocator, poolVars
  <2> QED
    BY <2>2, <2>4 DEF SlotsInv
<1> QED
  BY <1>1, <1>2, <1>3

\* Steps that touch neither component nor a Blocked task.
LEMMA QuietStepLazy ==
    ASSUME LazyInv, KernelInv', priority' = priority, UNCHANGED <<poolVars, onceVars>>,
           \A t \in Users :
              /\ state'[t] = "Blocked" <=> state[t] = "Blocked"
              /\ pc[t] \in {"trigger", "return"} => pc'[t] \in {"trigger", "return"}
    PROVE  LazyInv'
<1>1. OnceInv' /\ OnceTypeOK'
  BY OnceFrame
<1>2. AllocInv' /\ SlotsInv' /\ PoolTypeOK'
  BY PoolFrame DEF LazyInv, PoolTypeOK
<1>3. OneReasonToWait' /\ PrioritiesAreBase'
  BY DEF LazyInv, OneReasonToWait, PrioritiesAreBase, poolVars, onceVars
<1> QED
  BY <1>1, <1>2, <1>3 DEF LazyInv

\* One slot changes its owner.
LEMMA SlotMoves ==
    ASSUME NEW F, OneOwner(F), NEW G, NEW s \in Slots, Owned(G, s)',
           \A r \in Slots \ {s} :
              /\ r \in G <=> r \in F
              /\ boxes'[r] = boxes[r]
              /\ \A t \in Users : /\ r \in dropping'[t] <=> r \in dropping[t]
                                  /\ r \in HandedTo(t)' <=> r \in HandedTo(t)
    PROVE  OneOwner(G)'
<1> SUFFICES ASSUME NEW r \in Slots \ {s} PROVE Owned(G, r)'
  BY DEF OneOwner
<1>1. Owned(F, r)
  BY DEF OneOwner
<1>2. CASE OwnedByList(F, r)
  BY <1>2 DEF Owned, OwnedByList
<1>3. CASE OwnedByBox(F, r)
  BY <1>3 DEF Owned, OwnedByBox
<1>4. ASSUME NEW t \in Users, OwnedByDropper(F, r, t)
      PROVE  Owned(G, r)'
  <2>1. OwnedByDropper(G, r, t)'
    BY <1>4 DEF OwnedByDropper
  <2> QED
    BY <2>1 DEF Owned
<1>5. ASSUME NEW t \in Users, OwnedByAllocator(F, r, t)
      PROVE  Owned(G, r)'
  <2>1. OwnedByAllocator(G, r, t)'
    BY <1>5 DEF OwnedByAllocator
  <2> QED
    BY <2>1 DEF Owned
<1> QED
  BY <1>1, <1>2, <1>3, <1>4, <1>5 DEF Owned

-----------------------------------------------------------------------------
\* Allocations.

LEMMA TakenSlot ==
    ASSUME LazyInv, NEW s \in Slots, NEW v \in Values, TakesFirst(s, v)
    PROVE  /\ \E f, g : /\ OneOwner(ToSet(f)) /\ OwnedByList(ToSet(f), s)
                        /\ IsFreeList(f)
                        /\ IsFreeList(g)' /\ ToSet(g) = ToSet(f) \ {s}
           /\ allocWaiters = <<>>
           /\ nodes' \in [Slots -> Values \cup {NoValue}]
           /\ freeHead' \in Slots \cup {Nil}
<1>1. PICK f : IsFreeList(f) /\ OneOwner(ToSet(f))
  BY DEF LazyInv, SlotsInv
<1>2. s = freeHead /\ freeHead' = next[s] /\ next' = next /\ nodes' = [nodes EXCEPT ![s] = v]
  BY DEF TakesFirst
<1>3. s \in ToSet(f) /\ \E g : IsFreeList(g)' /\ ToSet(g) = ToSet(f) \ {s}
  BY <1>1, <1>2, FirstSlotTaken
<1>4. OwnedByList(ToSet(f), s)
  BY <1>1, <1>3
     DEF OneOwner, Owned, OwnedByList, OwnedByBox, OwnedByDropper, OwnedByAllocator
<1>5. allocWaiters = <<>>
  BY <1>2, PoolConstants DEF LazyInv, AllocInv
<1>6. nodes' \in [Slots -> Values \cup {NoValue}] /\ freeHead' \in Slots \cup {Nil}
  BY <1>2 DEF LazyInv, PoolTypeOK
<1> QED
  BY <1>1, <1>3, <1>4, <1>5, <1>6

\* alloc, by a task or a handler.
LEMMA AllocLazy ==
    ASSUME LazyInv, NEW s \in Slots, NEW v \in Values, TakesFirst(s, v), NewBox(s),
           UNCHANGED <<kernelVars, waitPtr, allocating, onceVars>>
    PROVE  LazyInv'
<1>1. PICK f, g : /\ OneOwner(ToSet(f)) /\ OwnedByList(ToSet(f), s)
                  /\ IsFreeList(g)' /\ ToSet(g) = ToSet(f) \ {s}
  BY TakenSlot
<1>2. /\ allocWaiters = <<>>
      /\ nodes' \in [Slots -> Values \cup {NoValue}]
      /\ freeHead' \in Slots \cup {Nil}
  BY TakenSlot
<1>3. UNCHANGED <<next, allocWaiters, src, dropping, waitPtr, allocating, state, pc, priority>>
  BY DEF TakesFirst, kernelVars
<1>4. KernelInv' /\ PrioritiesAreBase'
  BY StutterInv DEF LazyInv, PrioritiesAreBase, kernelVars
<1>5. OnceInv' /\ OnceTypeOK'
  BY <1>3, OnceFrame
<1>6. /\ boxes' \in [Slots -> Nat] /\ boxes'[s] = boxes[s] + 1
      /\ \A r \in Slots \ {s} : boxes'[r] = boxes[r]
  BY DEF NewBox, LazyInv, PoolTypeOK
<1>7. PoolTypeOK'
  BY <1>2, <1>3, <1>6 DEF LazyInv, PoolTypeOK
<1>8. SlotsInv'
  <2>1. \A t \in Users : HandedTo(t)' = HandedTo(t)
    BY <1>3 DEF HandedTo
  <2>2. OwnedByBox(ToSet(g), s)'
    BY <1>1, <1>3, <1>6, <2>1 DEF OwnedByList, OwnedByBox
  <2>3. OneOwner(ToSet(g))'
    BY <1>1, <1>3, <1>6, <2>1, <2>2, SlotMoves DEF Owned
  <2> QED
    BY <1>1, <2>3 DEF SlotsInv
<1>9. AllocInv' /\ OneReasonToWait'
  BY <1>2, <1>3 DEF LazyInv, AllocInv, OneReasonToWait, onceVars
<1> QED
  BY <1>4, <1>5, <1>7, <1>8, <1>9 DEF LazyInv

\* alloc_blocking with a free slot.
LEMMA AllocFastLazy ==
    ASSUME LazyInv, NEW t \in Users, NEW v \in Values, Calls(t), AllocFast(t, v),
           allocating' = allocating \cup {t}, UNCHANGED onceVars
    PROVE  LazyInv'
<1>1. PICK s \in Slots : TakesFirst(s, v) /\ waitPtr' = [waitPtr EXCEPT ![t] = s]
  BY DEF AllocFast
<1>2. PICK f, g : /\ OneOwner(ToSet(f)) /\ OwnedByList(ToSet(f), s)
                  /\ IsFreeList(g)' /\ ToSet(g) = ToSet(f) \ {s}
  BY <1>1, TakenSlot
<1>3. /\ allocWaiters = <<>>
      /\ nodes' \in [Slots -> Values \cup {NoValue}]
      /\ freeHead' \in Slots \cup {Nil}
  BY <1>1, TakenSlot
<1>4. /\ UNCHANGED <<next, allocWaiters, src, dropping, boxes>>
      /\ UNCHANGED <<current, state, slice, left, priority, pendsv, seen>>
      /\ pc' = [pc EXCEPT ![t] = "return"]
  BY <1>1 DEF AllocFast, TakesFirst
<1>5. /\ t \in Tasks /\ state[t] = "Running" /\ t \notin allocating /\ waitingFor[t] = {}
      /\ HandedTo(t) = {} /\ current = t
  BY CallerIsFree DEF Calls, Thread
<1>6. \A u \in Tasks : pc'[u] = IF u = t THEN "return" ELSE pc[u]
  BY <1>4, <1>5 DEF LazyInv, KernelInv, KernelTypeOK
<1>7. KernelInv' /\ PrioritiesAreBase'
  <2>1. KernelTypeOK'
    BY <1>4 DEF LazyInv, KernelInv, KernelTypeOK, Points
  <2>2. RunsOnlyWhenRunning' /\ NothingBeforeLaunch'
    BY <1>4, <1>5, <1>6 DEF LazyInv, KernelInv, RunsOnlyWhenRunning, NothingBeforeLaunch
  <2> QED
    BY <1>4, <2>1, <2>2 DEF LazyInv, KernelInv, PrioritiesAreBase
<1>8. OnceInv' /\ OnceTypeOK'
  BY <1>4, <1>5, <1>6, KernelConstants, OnceFrame
<1>9. /\ waitPtr' \in [Users -> Slots \cup {0, StackAddress}]
      /\ \A u \in Users : waitPtr'[u] = IF u = t THEN s ELSE waitPtr[u]
  BY <1>1 DEF LazyInv, PoolTypeOK
<1>10. PoolTypeOK'
  BY <1>3, <1>4, <1>9 DEF LazyInv, PoolTypeOK
<1>11. SlotsInv'
  <2>1. \A u \in Users : HandedTo(u)' = IF u = t THEN {s} ELSE HandedTo(u)
    BY <1>4, <1>5, <1>9 DEF HandedTo
  <2>2. OwnedByAllocator(ToSet(g), s, t)'
    BY <1>2, <1>4, <2>1 DEF OwnedByList, OwnedByAllocator
  <2>3. OneOwner(ToSet(g))'
    <3>1. OneOwner(ToSet(f)) /\ Owned(ToSet(g), s)'
      BY <1>2, <2>2 DEF Owned
    <3>2. \A r \in Slots \ {s} :
             /\ r \in ToSet(g) <=> r \in ToSet(f)
             /\ boxes'[r] = boxes[r]
             /\ \A u \in Users : /\ r \in dropping'[u] <=> r \in dropping[u]
                                 /\ r \in HandedTo(u)' <=> r \in HandedTo(u)
      BY <1>2, <1>4, <1>5, <2>1
    <3> QED
      BY <3>1, <3>2, SlotMoves
  <2> QED
    BY <1>2, <2>3 DEF SlotsInv
<1>12. AllocInv' /\ OneReasonToWait'
  <2>1. OneReasonToWait'
    BY <1>4, <1>5 DEF LazyInv, OneReasonToWait, onceVars
  <2>2. AllocInv'
    BY <1>3, <1>4, <1>5, <1>6, <1>9, KernelConstants DEF LazyInv, AllocInv, ToSet
  <2> QED
    BY <2>1, <2>2
<1> QED
  BY <1>7, <1>8, <1>10, <1>11, <1>12 DEF LazyInv

\* alloc_blocking without one.
LEMMA AllocBlocksLazy ==
    ASSUME LazyInv, NEW t \in Users, NEW v \in Values, Calls(t), AllocBlocks(t, v),
           allocating' = allocating \cup {t}, UNCHANGED onceVars
    PROVE  LazyInv'
<1>1. /\ t \in Tasks /\ state[t] = "Running" /\ t \notin allocating /\ waitingFor[t] = {}
      /\ HandedTo(t) = {} /\ t \notin ToSet(allocWaiters)
  BY CallerIsFree
<1>2. /\ KernelInv'
      /\ \A u \in Users : state'[u] = IF u = t THEN "Blocked" ELSE state[u]
      /\ \A u \in Users : pc'[u] = IF u = t THEN "trigger" ELSE pc[u]
  BY ParksInv, KernelConstants DEF AllocBlocks, Parks, LazyInv
<1>3. /\ UNCHANGED <<priority, nodes, next, freeHead, boxes, dropping>>
      /\ freeHead = Nil /\ allocWaiters' = Cons(t, allocWaiters)
      /\ src' = [src EXCEPT ![t] = v]
      /\ waitPtr' = [waitPtr EXCEPT ![t] = StackAddress]
  BY DEF AllocBlocks
<1>4. /\ allocWaiters' \in Seq(Users)
      /\ ToSet(allocWaiters') = ToSet(allocWaiters) \cup {t}
      /\ IsInjective(allocWaiters')
  <2>1. allocWaiters \in Seq(Users) /\ IsInjective(allocWaiters)
    BY DEF LazyInv, PoolTypeOK, AllocInv
  <2>2. /\ Cons(t, allocWaiters) \in Seq(Users)
        /\ ToSet(Cons(t, allocWaiters)) = ToSet(allocWaiters) \cup {t}
        /\ IsInjective(Cons(t, allocWaiters))
    BY <1>1, <2>1, PushedList
  <2> QED
    BY <1>3, <2>2
<1>5. /\ src' \in [Users -> Values \cup {NoValue}]
      /\ \A u \in Users : src'[u] = IF u = t THEN v ELSE src[u]
      /\ waitPtr' \in [Users -> Slots \cup {0, StackAddress}]
      /\ \A u \in Users : u # t => waitPtr'[u] = waitPtr[u]
  BY <1>3 DEF LazyInv, PoolTypeOK
<1>6. PoolTypeOK'
  BY <1>3, <1>4, <1>5 DEF LazyInv, PoolTypeOK
<1>7. OnceInv' /\ OnceTypeOK'
  BY <1>1, <1>2, OnceFrame
<1>8. SlotsInv'
  <2>1. PICK f : IsFreeList(f) /\ OneOwner(ToSet(f))
    BY DEF LazyInv, SlotsInv
  <2>2. IsFreeList(f)'
    BY <1>3, <2>1 DEF IsFreeList
  <2>3. \A u \in Users : HandedTo(u)' = HandedTo(u)
    BY <1>1, <1>2, <1>5 DEF HandedTo
  <2>4. OneOwner(ToSet(f))'
    BY <1>3, <2>1, <2>3
       DEF OneOwner, Owned, OwnedByList, OwnedByBox, OwnedByDropper, OwnedByAllocator
  <2> QED
    BY <2>2, <2>4 DEF SlotsInv
<1>9. AllocInv'
  BY <1>1, <1>2, <1>3, <1>4, <1>5 DEF LazyInv, AllocInv
<1>10. OneReasonToWait' /\ PrioritiesAreBase'
  BY <1>1, <1>2, <1>3 DEF LazyInv, OneReasonToWait, PrioritiesAreBase, onceVars
<1> QED
  BY <1>2, <1>6, <1>7, <1>8, <1>9, <1>10 DEF LazyInv

-----------------------------------------------------------------------------
\* Drops.

LEMMA DropValueLazy ==
    ASSUME LazyInv, NEW t \in Users, NEW s \in Slots, DropValue(t, s), UNCHANGED onceVars
    PROVE  LazyInv'
<1>1. PICK f : IsFreeList(f) /\ OneOwner(ToSet(f))
  BY DEF LazyInv, SlotsInv
<1>2. OwnedByBox(ToSet(f), s)
  BY <1>1
     DEF DropValue, OneOwner, Owned, OwnedByList, OwnedByBox, OwnedByDropper, OwnedByAllocator
<1>3. UNCHANGED <<kernelVars, next, freeHead, allocWaiters, src, waitPtr, allocating>>
  BY DEF DropValue
<1>4. KernelInv' /\ PrioritiesAreBase'
  BY <1>3, StutterInv DEF LazyInv, PrioritiesAreBase, kernelVars
<1>5. OnceInv' /\ OnceTypeOK'
  BY <1>3, OnceFrame DEF kernelVars
<1>6. /\ boxes' \in [Slots -> Nat] /\ boxes'[s] = 0
      /\ \A r \in Slots \ {s} : boxes'[r] = boxes[r]
      /\ dropping' \in [Users -> SUBSET Slots]
      /\ \A u \in Users : dropping'[u] = IF u = t THEN dropping[u] \cup {s} ELSE dropping[u]
      /\ nodes' \in [Slots -> Values \cup {NoValue}]
  <2>1. /\ boxes \in [Slots -> Nat] /\ boxes[s] = 1
        /\ dropping \in [Users -> SUBSET Slots]
        /\ nodes \in [Slots -> Values \cup {NoValue}]
    BY <1>2 DEF LazyInv, PoolTypeOK, OwnedByBox
  <2>2. /\ boxes' = [boxes EXCEPT ![s] = boxes[s] - 1]
        /\ nodes' = [nodes EXCEPT ![s] = NoValue]
        /\ dropping' = [dropping EXCEPT ![t] = dropping[t] \cup {s}]
    BY DEF DropValue
  <2> QED
    BY <2>1, <2>2
<1>7. PoolTypeOK'
  BY <1>3, <1>6 DEF LazyInv, PoolTypeOK
<1>8. SlotsInv'
  <2>1. \A u \in Users : HandedTo(u)' = HandedTo(u)
    BY <1>3 DEF HandedTo, kernelVars
  <2>2. OwnedByDropper(ToSet(f), s, t)'
    BY <1>2, <1>6, <2>1 DEF OwnedByBox, OwnedByDropper
  <2>a. \A r \in Slots \ {s} : \A u \in Users :
            /\ r \in dropping'[u] <=> r \in dropping[u]
            /\ r \in HandedTo(u)' <=> r \in HandedTo(u)
    BY <1>6, <2>1
  <2>b. Owned(ToSet(f), s)'
    BY <2>2 DEF Owned
  <2>3. OneOwner(ToSet(f))'
    BY <1>1, <1>6, <2>a, <2>b, SlotMoves
  <2>4. IsFreeList(f)'
    BY <1>1, <1>3 DEF IsFreeList
  <2> QED
    BY <2>3, <2>4 DEF SlotsInv
<1>9. AllocInv' /\ OneReasonToWait'
  BY <1>3 DEF LazyInv, AllocInv, OneReasonToWait, onceVars, kernelVars
<1> QED
  BY <1>4, <1>5, <1>7, <1>8, <1>9 DEF LazyInv

\* Slot s, which a task or a box owned and does not own any longer, goes in front
\* of the free list.
LEMMA FreedSlot ==
    ASSUME LazyInv, NEW s \in Slots, NEW f, IsFreeList(f), OneOwner(ToSet(f)), s \notin ToSet(f),
           next' = Linked(s), freeHead' = s, allocWaiters = <<>>,
           UNCHANGED <<kernelVars, allocWaiters, src, waitPtr, allocating, onceVars>>,
           nodes' \in [Slots -> Values \cup {NoValue}],
           boxes' \in [Slots -> Nat], boxes'[s] = 0,
           dropping' \in [Users -> SUBSET Slots],
           \A r \in Slots \ {s} :
              /\ boxes'[r] = boxes[r]
              /\ \A t \in Users : r \in dropping'[t] <=> r \in dropping[t],
           \A t \in Users : s \notin dropping'[t] /\ s \notin HandedTo(t)
    PROVE  LazyInv'
<1>1. PoolTypeOK /\ next' \in [Slots -> Slots \cup {Nil}] /\ freeHead' \in Slots \cup {Nil}
  BY DEF LazyInv, PoolTypeOK, Linked
<1>2. PICK g : IsFreeList(g)' /\ ToSet(g) = ToSet(f) \cup {s}
  BY <1>1, SlotGivenBack
<1>3. UNCHANGED <<state, pc, priority>>
  BY DEF kernelVars
<1>4. KernelInv' /\ PrioritiesAreBase'
  BY <1>3, StutterInv DEF LazyInv, PrioritiesAreBase
<1>5. OnceInv' /\ OnceTypeOK'
  BY <1>3, OnceFrame
<1>6. PoolTypeOK'
  BY <1>1 DEF PoolTypeOK
<1>7. SlotsInv'
  <2>1. \A t \in Users : HandedTo(t)' = HandedTo(t)
    BY <1>3 DEF HandedTo
  <2>2. OwnedByList(ToSet(g), s)'
    BY <1>2, <2>1 DEF OwnedByList
  <2>3. OneOwner(ToSet(g))'
    BY <1>2, <2>1, <2>2, SlotMoves DEF Owned
  <2> QED
    BY <1>2, <2>3 DEF SlotsInv
<1>8. AllocInv' /\ OneReasonToWait'
  BY <1>3 DEF LazyInv, AllocInv, OneReasonToWait, onceVars
<1> QED
  BY <1>4, <1>5, <1>6, <1>7, <1>8 DEF LazyInv

\* What a drop does to the list of the allocators: u leaves it.
LEMMA ServedAllocator ==
    ASSUME LazyInv, NEW s \in Slots, NEW u \in Users, HandsOver(s, u)
    PROVE  /\ Unblock(u)
           /\ state[u] = "Blocked" /\ u \in allocating /\ waitingFor[u] = {}
           /\ src[u] \in Values
           /\ freeHead = Nil
           /\ u \in ToSet(allocWaiters)
           /\ \A t \in ToSet(allocWaiters) : BasePrio[u] <= BasePrio[t]
           /\ allocWaiters' \in Seq(Users)
           /\ ToSet(allocWaiters') = ToSet(allocWaiters) \ {u}
           /\ IsInjective(allocWaiters')
<1>1. PICK i \in DOMAIN allocWaiters :
         /\ u = allocWaiters[i]
         /\ IsHighest(allocWaiters, i)
         /\ allocWaiters' = Popped(allocWaiters, i)
  BY DEF HandsOver
<1>2. Unblock(u)
  BY DEF HandsOver
<1>3. allocWaiters \in Seq(Users) /\ IsInjective(allocWaiters) /\ PrioritiesAreBase
  BY DEF LazyInv, PoolTypeOK, AllocInv
<1>4. /\ u \in ToSet(allocWaiters)
      /\ \A t \in ToSet(allocWaiters) : BasePrio[u] <= BasePrio[t]
      /\ allocWaiters' \in Seq(Users)
      /\ ToSet(allocWaiters') = ToSet(allocWaiters) \ {u}
      /\ IsInjective(allocWaiters')
  BY <1>1, <1>3, HighestPopped
<1>5. allocWaiters # <<>>
  BY <1>1
<1> QED
  BY <1>2, <1>4, <1>5 DEF LazyInv, AllocInv, OneReasonToWait

\* Slot s, which a task or a box owned and does not own any longer, goes to the
\* allocator u.
LEMMA HandedSlot ==
    ASSUME LazyInv, NEW s \in Slots, NEW u \in Users, HandsOver(s, u), KernelInv',
           NEW f, IsFreeList(f), OneOwner(ToSet(f)), s \notin ToSet(f),
           UNCHANGED <<priority, allocating, onceVars>>,
           boxes' \in [Slots -> Nat], boxes'[s] = 0,
           dropping' \in [Users -> SUBSET Slots],
           \A r \in Slots \ {s} :
              /\ boxes'[r] = boxes[r]
              /\ \A t \in Users : r \in dropping'[t] <=> r \in dropping[t],
           \A t \in Users : s \notin dropping'[t] /\ s \notin HandedTo(t),
           \A t \in Users : t \in allocating \/ waitingFor[t] # {} =>
              (pc[t] \in {"trigger", "return"} => pc'[t] \in {"trigger", "return"})
    PROVE  LazyInv'
<1>1. /\ Unblock(u)
      /\ state[u] = "Blocked" /\ u \in allocating /\ waitingFor[u] = {}
      /\ src[u] \in Values
      /\ freeHead = Nil
      /\ allocWaiters' \in Seq(Users)
      /\ ToSet(allocWaiters') = ToSet(allocWaiters) \ {u}
      /\ IsInjective(allocWaiters')
  BY ServedAllocator
<1>2. \A t \in Users : state'[t] = IF t = u THEN "Ready" ELSE state[t]
  BY <1>1, UnblockedStates, KernelConstants DEF LazyInv
<1>3. /\ UNCHANGED <<next, freeHead>>
      /\ nodes' = [nodes EXCEPT ![s] = src[u]]
      /\ src' = [src EXCEPT ![u] = NoValue]
      /\ waitPtr' = [waitPtr EXCEPT ![u] = s]
  BY DEF HandsOver
<1>4. /\ nodes' \in [Slots -> Values \cup {NoValue}]
      /\ src' \in [Users -> Values \cup {NoValue}]
      /\ waitPtr' \in [Users -> Slots \cup {0, StackAddress}]
      /\ \A t \in Users : waitPtr'[t] = IF t = u THEN s ELSE waitPtr[t]
      /\ \A t \in Users : t # u => src'[t] = src[t]
  BY <1>1, <1>3 DEF LazyInv, PoolTypeOK
<1>5. PoolTypeOK'
  BY <1>1, <1>3, <1>4 DEF LazyInv, PoolTypeOK
<1>6. OnceInv' /\ OnceTypeOK'
  BY <1>1, <1>2, OnceFrame
<1>7. SlotsInv'
  <2>1. \A t \in Users : HandedTo(t)' = IF t = u THEN {s} ELSE HandedTo(t)
    BY <1>1, <1>2, <1>4 DEF HandedTo
  <2>2. HandedTo(u) = {}
    BY <1>1 DEF HandedTo
  <2>3. OwnedByAllocator(ToSet(f), s, u)'
    BY <2>1 DEF OwnedByAllocator
  <2>a. \A r \in Slots \ {s} : \A t \in Users : r \in HandedTo(t)' <=> r \in HandedTo(t)
    BY <2>1, <2>2
  <2>b. Owned(ToSet(f), s)'
    BY <2>3 DEF Owned
  <2>4. OneOwner(ToSet(f))'
    BY <2>a, <2>b, SlotMoves
  <2>5. IsFreeList(f)'
    BY <1>3 DEF IsFreeList
  <2> QED
    BY <2>4, <2>5 DEF SlotsInv
<1>8. AllocInv'
  BY <1>1, <1>2, <1>3, <1>4 DEF LazyInv, AllocInv
<1>9. OneReasonToWait' /\ PrioritiesAreBase'
  BY <1>2 DEF LazyInv, OneReasonToWait, PrioritiesAreBase, onceVars
<1> QED
  BY <1>5, <1>6, <1>7, <1>8, <1>9 DEF LazyInv

LEMMA DropSlotLazy ==
    ASSUME LazyInv, NEW t \in Users, NEW s \in Slots, DropSlot(t, s), UNCHANGED onceVars
    PROVE  LazyInv'
<1>1. PICK f : IsFreeList(f) /\ OneOwner(ToSet(f))
  BY DEF LazyInv, SlotsInv
<1>2. OwnedByDropper(ToSet(f), s, t)
  BY <1>1
     DEF DropSlot, OneOwner, Owned, OwnedByList, OwnedByBox, OwnedByDropper, OwnedByAllocator
<1>3. /\ UNCHANGED <<allocating, boxes>>
      /\ boxes \in [Slots -> Nat] /\ boxes[s] = 0
      /\ dropping' \in [Users -> SUBSET Slots]
      /\ \A u \in Users : dropping'[u] = IF u = t THEN dropping[u] \ {s} ELSE dropping[u]
      /\ nodes \in [Slots -> Values \cup {NoValue}]
  BY <1>2 DEF DropSlot, LazyInv, PoolTypeOK, OwnedByDropper
<1>4. /\ \A r \in Slots \ {s} : \A u \in Users : r \in dropping'[u] <=> r \in dropping[u]
      /\ \A u \in Users : s \notin dropping'[u] /\ s \notin HandedTo(u)
      /\ s \notin ToSet(f)
  BY <1>2, <1>3 DEF OwnedByDropper
<1>5. CASE Frees(s) /\ UNCHANGED kernelVars
  BY <1>1, <1>3, <1>4, <1>5, FreedSlot DEF Frees
<1>6. ASSUME NEW u \in Users, HandsOver(s, u), PreemptFor(t, u, priority[t]),
             UNCHANGED <<current, left, priority, pendsv, seen>>
      PROVE  LazyInv'
  <2>1. TaskWakes(t, u) /\ state[u] = "Blocked" /\ t \notin allocating /\ waitingFor[t] = {}
    BY <1>6, ServedAllocator, CallerIsFree DEF DropSlot, TaskWakes
  <2>2. KernelInv' /\ \A v \in Users : v # t => pc'[v] = pc[v]
    BY <2>1, TaskWakesInv, KernelConstants DEF LazyInv
  <2> QED
    BY <1>1, <1>3, <1>4, <1>6, <2>1, <2>2, HandedSlot
<1> QED
  BY <1>5, <1>6 DEF DropSlot

LEMMA IsrDropLazy ==
    ASSUME LazyInv, NEW s \in Slots, IsrDrop(s), UNCHANGED onceVars
    PROVE  LazyInv'
<1>1. PICK f : IsFreeList(f) /\ OneOwner(ToSet(f))
  BY DEF LazyInv, SlotsInv
<1>2. OwnedByBox(ToSet(f), s)
  BY <1>1
     DEF IsrDrop, OneOwner, Owned, OwnedByList, OwnedByBox, OwnedByDropper, OwnedByAllocator
<1>3. /\ UNCHANGED <<allocating, dropping>>
      /\ boxes' \in [Slots -> Nat] /\ boxes'[s] = 0
      /\ \A r \in Slots \ {s} : boxes'[r] = boxes[r]
      /\ dropping \in [Users -> SUBSET Slots]
      /\ nodes \in [Slots -> Values \cup {NoValue}]
  <2>1. /\ boxes \in [Slots -> Nat] /\ boxes[s] = 1
    BY <1>2 DEF LazyInv, PoolTypeOK, OwnedByBox
  <2>2. boxes' = [boxes EXCEPT ![s] = boxes[s] - 1]
    BY DEF IsrDrop
  <2> QED
    BY <2>1, <2>2 DEF IsrDrop, LazyInv, PoolTypeOK
<1>4. /\ \A u \in Users : s \notin dropping[u] /\ s \notin HandedTo(u)
      /\ s \notin ToSet(f)
  BY <1>2 DEF OwnedByBox
<1>5. ASSUME allocWaiters = <<>>, nodes' = [nodes EXCEPT ![s] = NoValue],
             next' = Linked(s), freeHead' = s,
             UNCHANGED <<kernelVars, allocWaiters, src, waitPtr>>
      PROVE  LazyInv'
  <2>1. nodes' \in [Slots -> Values \cup {NoValue}]
    BY <1>3, <1>5
  <2> QED
    BY <1>1, <1>3, <1>4, <1>5, <2>1, FreedSlot
<1>6. ASSUME NEW u \in Users, HandsOver(s, u), pendsv' = (pendsv \/ Outranks(u, current)),
             UNCHANGED <<current, left, priority, seen, pc>>
      PROVE  LazyInv'
  <2>1. IsrWakes(u) /\ state[u] = "Blocked"
    BY <1>6, ServedAllocator DEF IsrWakes
  <2>2. KernelInv'
    BY <2>1, IsrWakesInv DEF LazyInv
  <2> QED
    BY <1>1, <1>3, <1>4, <1>6, <2>2, HandedSlot
<1> QED
  BY <1>5, <1>6 DEF IsrDrop

-----------------------------------------------------------------------------
\* Returns from calls, and the steps of a Once.

LEMMA ReturnsLazy ==
    ASSUME LazyInv, NEW t \in Users, CallReturns(t)
    PROVE  LazyInv'
<1>1. t \in Tasks /\ Thread(t) /\ pc[t] = "return" /\ pc' = [pc EXCEPT ![t] = "user"]
  BY KernelConstants DEF CallReturns, Return
<1>2. state[t] = "Running"
  BY <1>1, ThreadRuns DEF LazyInv, KernelInv
<1>3. UNCHANGED <<state, priority, nodes, next, freeHead, allocWaiters, src, waitPtr, dropping,
                  onceState, onceWaiters, initialising>>
  BY DEF CallReturns, Return, AllocReturns, OnceReturns
<1>4. KernelInv' /\ PrioritiesAreBase'
  BY <1>3, ExitReturnInv DEF LazyInv, PrioritiesAreBase, CallReturns
<1>5. \A u \in Users : u # t => pc'[u] = pc[u]
  BY <1>1, KernelConstants DEF LazyInv, KernelInv, KernelTypeOK
<1>6. /\ waitingFor' \in [Users -> SUBSET Onces]
      /\ \A u \in Users : waitingFor'[u] = IF u = t THEN {} ELSE waitingFor[u]
  BY DEF LazyInv, OnceTypeOK, CallReturns, OnceReturns
<1>7. OnceTypeOK'
  BY <1>3, <1>6 DEF LazyInv, OnceTypeOK
<1>8. OnceInv'
  BY <1>2, <1>3, <1>5, <1>6 DEF LazyInv, OnceInv
<1>9. allocating' = allocating \ {t}
  BY DEF CallReturns, AllocReturns
<1>10. AllocInv' /\ OneReasonToWait'
  <2>1. AllocInv'
    BY <1>2, <1>3, <1>5, <1>9 DEF LazyInv, AllocInv
  <2>2. OneReasonToWait'
    BY <1>2, <1>3, <1>6, <1>9 DEF LazyInv, OneReasonToWait
  <2> QED
    BY <2>1, <2>2
<1>11. PICK f : IsFreeList(f) /\ OneOwner(ToSet(f))
  BY DEF LazyInv, SlotsInv
<1>12. IsFreeList(f)'
  BY <1>3, <1>11 DEF IsFreeList
<1>13. CASE t \notin allocating
  <2>1. boxes' = boxes /\ allocating' = allocating
    BY <1>9, <1>13 DEF CallReturns, AllocReturns
  <2>2. PoolTypeOK'
    BY <1>3, <2>1 DEF LazyInv, PoolTypeOK
  <2>3. \A u \in Users : HandedTo(u)' = HandedTo(u)
    BY <1>3, <2>1 DEF HandedTo
  <2>4. OneOwner(ToSet(f))'
    BY <1>3, <1>11, <2>1, <2>3
       DEF OneOwner, Owned, OwnedByList, OwnedByBox, OwnedByDropper, OwnedByAllocator
  <2> QED
    BY <1>4, <1>7, <1>8, <1>10, <1>12, <2>2, <2>4 DEF LazyInv, SlotsInv
<1>14. CASE t \in allocating
  <2>1. PICK s \in Slots : s = waitPtr[t] /\ HandedTo(t) = {s}
    BY <1>2, <1>14 DEF LazyInv, AllocInv, HandedTo
  <2>2. OwnedByAllocator(ToSet(f), s, t)
    BY <1>11, <2>1
       DEF OneOwner, Owned, OwnedByList, OwnedByBox, OwnedByDropper, OwnedByAllocator
  <2>3. boxes' = [boxes EXCEPT ![s] = boxes[s] + 1]
    BY <1>14, <2>1 DEF CallReturns, AllocReturns
  <2>4. boxes \in [Slots -> Nat] /\ boxes[s] = 0
    BY <2>2 DEF LazyInv, PoolTypeOK, OwnedByAllocator
  <2>5. /\ boxes' \in [Slots -> Nat] /\ boxes'[s] = 1
        /\ \A r \in Slots \ {s} : boxes'[r] = boxes[r]
    BY <2>1, <2>3, <2>4
  <2>6. PoolTypeOK'
    BY <1>3, <1>9, <2>5 DEF LazyInv, PoolTypeOK
  <2>7. \A u \in Users : HandedTo(u)' = IF u = t THEN {} ELSE HandedTo(u)
    BY <1>3, <1>9 DEF HandedTo
  <2>8. OwnedByBox(ToSet(f), s)'
    BY <1>3, <2>2, <2>5, <2>7 DEF OwnedByAllocator, OwnedByBox
  <2>9. \A r \in Slots \ {s} : \A u \in Users :
            /\ r \in dropping'[u] <=> r \in dropping[u]
            /\ r \in HandedTo(u)' <=> r \in HandedTo(u)
    BY <1>3, <2>1, <2>7
  <2>10. Owned(ToSet(f), s)'
    BY <2>8 DEF Owned
  <2>11. OneOwner(ToSet(f))'
    BY <1>11, <2>1, <2>5, <2>9, <2>10, SlotMoves
  <2> QED
    BY <1>4, <1>7, <1>8, <1>10, <1>12, <2>6, <2>11 DEF LazyInv, SlotsInv
<1> QED
  BY <1>13, <1>14

LEMMA CallRunsLazy ==
    ASSUME LazyInv, NEW t \in Users, NEW o \in Onces, CallRuns(t, o), UNCHANGED poolVars
    PROVE  LazyInv'
<1>1. /\ t \in Tasks /\ state[t] = "Running" /\ waitingFor[t] = {}
      /\ initialising[t] = {} /\ onceState[o] = "Unstarted"
  BY CallerIsFree DEF CallRuns, CallsOnce, NotStarted
<1>2. UNCHANGED <<current, state, slice, left, priority, pendsv, seen, pc, onceWaiters, waitingFor>>
  BY DEF CallRuns, kernelVars
<1>3. KernelInv' /\ PrioritiesAreBase'
  BY <1>2, StutterInv DEF LazyInv, PrioritiesAreBase, kernelVars
<1>4. AllocInv' /\ SlotsInv' /\ PoolTypeOK'
  BY <1>2, PoolFrame
<1>5. OneReasonToWait'
  BY <1>2 DEF LazyInv, OneReasonToWait, poolVars
<1>6. /\ onceState' \in [Onces -> {"Unstarted", "Running", "Done"}]
      /\ \A p \in Onces : onceState'[p] = IF p = o THEN "Running" ELSE onceState[p]
      /\ initialising' \in [Users -> SUBSET Onces]
      /\ \A u \in Users : initialising'[u] = IF u = t THEN {o} ELSE initialising[u]
  BY DEF LazyInv, OnceTypeOK, CallRuns
<1>7. OnceTypeOK'
  BY <1>2, <1>6 DEF LazyInv, OnceTypeOK
<1>8. OnceInv'
  BY <1>1, <1>2, <1>6 DEF LazyInv, OnceInv
<1> QED
  BY <1>3, <1>4, <1>5, <1>7, <1>8 DEF LazyInv

LEMMA CallBlocksLazy ==
    ASSUME LazyInv, NEW t \in Users, NEW o \in Onces, CallBlocks(t, o), UNCHANGED poolVars
    PROVE  LazyInv'
<1>1. /\ t \in Tasks /\ state[t] = "Running" /\ t \notin allocating /\ waitingFor[t] = {}
      /\ \A p \in Onces : t \notin ToSet(onceWaiters[p])
      /\ initialising[t] = {} /\ onceState[o] = "Running"
  BY CallerIsFree DEF CallBlocks, CallsOnce
<1>2. /\ KernelInv'
      /\ \A u \in Users : state'[u] = IF u = t THEN "Blocked" ELSE state[u]
      /\ \A u \in Users : pc'[u] = IF u = t THEN "trigger" ELSE pc[u]
  BY ParksInv, KernelConstants DEF CallBlocks, CallsOnce, Parks, LazyInv
<1>3. AllocInv' /\ SlotsInv' /\ PoolTypeOK'
  BY <1>1, <1>2, PoolFrame DEF LazyInv, PoolTypeOK
<1>4. /\ UNCHANGED <<priority, onceState, initialising>>
      /\ onceWaiters' = [onceWaiters EXCEPT ![o] = Cons(t, onceWaiters[o])]
      /\ waitingFor' = [waitingFor EXCEPT ![t] = {o}]
  BY DEF CallBlocks
<1>5. LET w == Cons(t, onceWaiters[o]) IN
      /\ w \in Seq(Users)
      /\ ToSet(w) = ToSet(onceWaiters[o]) \cup {t}
      /\ IsInjective(w)
  <2>1. onceWaiters[o] \in Seq(Users) /\ IsInjective(onceWaiters[o]) /\ t \notin ToSet(onceWaiters[o])
    BY <1>1 DEF LazyInv, OnceTypeOK, OnceInv
  <2> QED
    BY <2>1, PushedList
<1>6. /\ onceWaiters' \in [Onces -> Seq(Users)]
      /\ \A p \in Onces \ {o} : onceWaiters'[p] = onceWaiters[p]
      /\ ToSet(onceWaiters'[o]) = ToSet(onceWaiters[o]) \cup {t}
      /\ IsInjective(onceWaiters'[o])
      /\ waitingFor' \in [Users -> SUBSET Onces]
      /\ \A u \in Users : waitingFor'[u] = IF u = t THEN {o} ELSE waitingFor[u]
  <2>1. onceWaiters \in [Onces -> Seq(Users)] /\ waitingFor \in [Users -> SUBSET Onces]
    BY DEF LazyInv, OnceTypeOK
  <2> QED
    BY <1>4, <1>5, <2>1
<1>7. OnceTypeOK'
  BY <1>4, <1>6 DEF LazyInv, OnceTypeOK
<1>8. OneReasonToWait' /\ PrioritiesAreBase'
  BY <1>1, <1>2, <1>4, <1>6 DEF LazyInv, OneReasonToWait, PrioritiesAreBase, poolVars
<1>9. OnceInv'
  <2>1. \A p \in Onces :
          /\ IsInjective(onceWaiters'[p])
          /\ onceWaiters'[p] # <<>> => onceState'[p] = "Running"
          /\ onceState'[p] = "Running" <=> \E u \in Users : p \in initialising'[u]
          /\ \A u, v \in Users : p \in initialising'[u] /\ p \in initialising'[v] => u = v
    BY <1>1, <1>4, <1>6 DEF LazyInv, OnceInv
  <2>2. \A u \in Users :
          /\ \A p, q \in initialising'[u] : p = q
          /\ \A p, q \in waitingFor'[u] : p = q
          /\ waitingFor'[u] # {} => pc'[u] \in {"trigger", "return"}
    BY <1>2, <1>4, <1>6 DEF LazyInv, OnceInv
  <2>3. \A u \in Users : \A p \in Onces :
          /\ u \in ToSet(onceWaiters'[p]) <=> p \in waitingFor'[u] /\ state'[u] = "Blocked"
          /\ p \in waitingFor'[u] /\ state'[u] # "Blocked" => onceState'[p] = "Done"
    BY <1>1, <1>2, <1>4, <1>6 DEF LazyInv, OnceInv
  <2> QED
    BY <2>1, <2>2, <2>3 DEF OnceInv
<1> QED
  BY <1>2, <1>3, <1>7, <1>8, <1>9 DEF LazyInv


\* The closure has run: everybody in the list leaves it and becomes Ready.
LEMMA FinishLazy ==
    ASSUME LazyInv, NEW t \in Users, NEW o \in Onces, Finish(t, o), UNCHANGED poolVars
    PROVE  LazyInv'
<1> DEFINE woken == ToSet(onceWaiters[o])
<1>1. /\ t \in Tasks /\ Thread(t) /\ state[t] = "Running" /\ pc[t] = "user"
      /\ current = t /\ t \notin allocating /\ waitingFor[t] = {} /\ o \in initialising[t]
  BY CallerIsFree DEF Finish, Calls, Thread
<1>2. /\ onceState' = [onceState EXCEPT ![o] = "Done"]
      /\ initialising' = [initialising EXCEPT ![t] = {}]
      /\ onceWaiters' = [onceWaiters EXCEPT ![o] = <<>>]
      /\ state' = [u \in Tasks |-> IF u \in woken THEN "Ready" ELSE state[u]]
      /\ slice' = [u \in Tasks |-> IF u \in woken THEN TimeSlice[u] ELSE slice[u]]
      /\ pc' = pc \/ pc' = [pc EXCEPT ![t] = "trigger"]
      /\ UNCHANGED <<current, left, priority, pendsv, seen, waitingFor>>
  BY DEF Finish, Drained
<1>3. /\ woken \subseteq Users /\ t \notin woken /\ Idle \notin woken
      /\ \A u \in woken : state[u] = "Blocked" /\ o \in waitingFor[u] /\ u \notin allocating
  <2>1. onceWaiters[o] \in Seq(Users)
    BY DEF LazyInv, OnceTypeOK
  <2>2. woken \subseteq Users
    BY <2>1 DEF ToSet
  <2>3. \A u \in woken : state[u] = "Blocked" /\ o \in waitingFor[u] /\ u \notin allocating
    BY <2>2 DEF LazyInv, OnceInv, OneReasonToWait
  <2> QED
    BY <1>1, <2>2, <2>3, KernelConstants
<1> HIDE DEF woken
<1>4. /\ \A u \in Tasks : state'[u] = IF u \in woken THEN "Ready" ELSE state[u]
      /\ \A u \in Tasks : u # t => pc'[u] = pc[u]
      /\ pc' \in [Tasks -> Points]
  BY <1>1, <1>2 DEF LazyInv, KernelInv, KernelTypeOK, Points
<1>5. KernelInv' /\ PrioritiesAreBase'
  <2>1. state' \in [Tasks -> TaskStates] /\ slice' \in [Tasks -> 0 .. 255]
    BY <1>2, KernelConstants DEF LazyInv, KernelInv, KernelTypeOK, TaskStates
  <2>2. KernelTypeOK'
    BY <1>2, <1>3, <1>4, <2>1, KernelConstants DEF LazyInv, KernelInv, KernelTypeOK
  <2>3. RunsOnlyWhenRunning' /\ NothingBeforeLaunch'
    BY <1>1, <1>2, <1>3, <1>4, KernelConstants
       DEF LazyInv, KernelInv, RunsOnlyWhenRunning, NothingBeforeLaunch
  <2>4. PrioritiesAreBase'
    BY <1>2 DEF LazyInv, PrioritiesAreBase
  <2> QED
    BY <2>2, <2>3, <2>4 DEF KernelInv
<1>6. AllocInv' /\ SlotsInv' /\ PoolTypeOK'
  <2>1. \A u \in allocating : u \in Tasks /\ u \notin woken /\ u # t
    BY <1>1, <1>3, KernelConstants DEF LazyInv, PoolTypeOK
  <2> QED
    BY <1>4, <2>1, PoolFrame
<1>7. /\ onceState' \in [Onces -> {"Unstarted", "Running", "Done"}]
      /\ \A p \in Onces : onceState'[p] = IF p = o THEN "Done" ELSE onceState[p]
      /\ initialising' \in [Users -> SUBSET Onces]
      /\ \A u \in Users : initialising'[u] = IF u = t THEN {} ELSE initialising[u]
      /\ onceWaiters' \in [Onces -> Seq(Users)]
      /\ \A p \in Onces : onceWaiters'[p] = IF p = o THEN <<>> ELSE onceWaiters[p]
  BY <1>2 DEF LazyInv, OnceTypeOK
<1>8. OnceTypeOK'
  BY <1>2, <1>7 DEF LazyInv, OnceTypeOK
<1>9. OneReasonToWait'
  BY <1>2, <1>3, <1>4, KernelConstants DEF LazyInv, OneReasonToWait, poolVars
<1>10. OnceInv'
  <2>1. \A p \in Onces :
          /\ IsInjective(onceWaiters'[p])
          /\ onceWaiters'[p] # <<>> => onceState'[p] = "Running"
    BY <1>7 DEF LazyInv, OnceInv, IsInjective
  <2>2. \A p \in Onces :
          /\ onceState'[p] = "Running" <=> \E u \in Users : p \in initialising'[u]
          /\ \A u, v \in Users : p \in initialising'[u] /\ p \in initialising'[v] => u = v
    <3>1. \A u \in Users, p \in Onces :
              p \in initialising'[u] <=> p \in initialising[u] /\ p # o
      BY <1>1, <1>7 DEF LazyInv, OnceInv
    <3>2. \A p \in Onces :
            /\ onceState[p] = "Running" <=> \E u \in Users : p \in initialising[u]
            /\ \A u, v \in Users : p \in initialising[u] /\ p \in initialising[v] => u = v
      BY DEF LazyInv, OnceInv
    <3>3. \A p \in Onces : onceState'[p] = "Running" <=> onceState[p] = "Running" /\ p # o
      BY <1>7
    <3> QED
      BY <3>1, <3>2, <3>3
  <2>3. \A u \in Users :
          /\ \A p, q \in initialising'[u] : p = q
          /\ \A p, q \in waitingFor'[u] : p = q
          /\ waitingFor'[u] # {} => pc'[u] \in {"trigger", "return"}
    BY <1>1, <1>2, <1>4, <1>7, KernelConstants DEF LazyInv, OnceInv
  <2>4. ASSUME NEW u \in Users, NEW p \in Onces
        PROVE  /\ u \in ToSet(onceWaiters'[p]) <=> p \in waitingFor'[u] /\ state'[u] = "Blocked"
               /\ p \in waitingFor'[u] /\ state'[u] # "Blocked" => onceState'[p] = "Done"
    <3>1. /\ u \in ToSet(onceWaiters[p]) <=> p \in waitingFor[u] /\ state[u] = "Blocked"
          /\ p \in waitingFor[u] /\ state[u] # "Blocked" => onceState[p] = "Done"
          /\ \A q, r \in waitingFor[u] : q = r
      BY DEF LazyInv, OnceInv
    <3>2. CASE p = o
      <4>1. ToSet(onceWaiters'[p]) = {} /\ onceState'[p] = "Done"
        BY <1>7, <3>2 DEF ToSet
      <4>2. p \in waitingFor[u] => state'[u] # "Blocked"
        BY <1>4, <3>1, <3>2, KernelConstants DEF woken
      <4> QED
        BY <1>2, <4>1, <4>2
    <3>3. CASE p # o
      <4>1. p \in waitingFor[u] => u \notin woken
        BY <1>3, <3>1, <3>3
      <4>2. p \in waitingFor[u] => state'[u] = state[u]
        BY <1>4, <4>1, KernelConstants
      <4> QED
        BY <1>2, <1>7, <3>1, <3>3, <4>2
    <3> QED
      BY <3>2, <3>3
  <2> QED
    BY <2>1, <2>2, <2>3, <2>4 DEF OnceInv
<1> QED
  BY <1>5, <1>6, <1>8, <1>9, <1>10 DEF LazyInv

LEMMA NextLazy == ASSUME LazyInv, [Next]_vars PROVE LazyInv'
<1>1. CASE UNCHANGED vars
  <2>1. UNCHANGED <<kernelVars, poolVars, onceVars>>
    BY <1>1 DEF vars
  <2> QED
    BY <2>1, StutterInv, QuietStepLazy DEF LazyInv, kernelVars
<1>2. CASE KernelStep /\ UNCHANGED <<poolVars, onceVars>>
  BY <1>2, KernelStepInv, KernelStepKeepsBlocked, KernelStepKeepsPriorities, QuietStepLazy
     DEF LazyInv, KernelInv
<1>3. ASSUME NEW v \in Values, NEW s \in Slots, TakesFirst(s, v), NewBox(s),
             UNCHANGED <<kernelVars, waitPtr, allocating, onceVars>>
      PROVE  LazyInv'
  BY <1>3, AllocLazy
<1>4. CASE PoolIsr /\ UNCHANGED onceVars
  <2>1. IsrStored \subseteq Values
    BY PoolAssumption
  <2> QED
    BY <1>3, <1>4, <2>1, IsrDropLazy DEF PoolIsr, IsrAlloc
<1>5. ASSUME NEW t \in Users, PoolStep(t), UNCHANGED onceVars
      PROVE  LazyInv'
  <2>1. Stored[t] \subseteq Values
    BY PoolAssumption
  <2>2. ASSUME NEW v \in Values, Alloc(t, v)
        PROVE  LazyInv'
    BY <1>3, <1>5, <2>2 DEF Alloc
  <2>3. ASSUME NEW v \in Values, Allocates(t, v)
        PROVE  LazyInv'
    BY <1>5, <2>3, AllocFastLazy, AllocBlocksLazy DEF Allocates, AllocBlocking
  <2> QED
    BY <1>5, <2>1, <2>2, <2>3, DropValueLazy, DropSlotLazy DEF PoolStep
<1>6. ASSUME NEW t \in Users, OnceStep(t), UNCHANGED poolVars
      PROVE  LazyInv'
  BY <1>6, CallRunsLazy, CallBlocksLazy, FinishLazy DEF OnceStep
<1> QED
  BY <1>1, <1>2, <1>4, <1>5, <1>6, ReturnsLazy DEF Next

THEOREM LazyInvHolds == Spec => []LazyInv
<1>1. Init => LazyInv
  BY InitLazy
<1>2. LazyInv /\ [Next]_vars => LazyInv'
  BY NextLazy
<1> QED
  BY <1>1, <1>2, PTL DEF Spec

\* A task is in the one list it is Blocked in, and in no list otherwise.
THEOREM NoPlaceIsLost == Spec => []Consistent
<1>1. ASSUME LazyInv
      PROVE  Consistent
  <2>1. /\ KernelTypeOK /\ PoolTypeOK /\ OnceTypeOK
        /\ IsInjective(allocWaiters)
        /\ \A o \in Onces : IsInjective(onceWaiters[o])
    BY <1>1 DEF LazyInv, KernelInv, AllocInv, OnceInv
  <2>2. ASSUME NEW t \in Users
        PROVE  Cardinality(Lists(t)) = IF state[t] = "Blocked" THEN 1 ELSE 0
    <3>1. /\ t \in ToSet(allocWaiters) <=> t \in allocating /\ state[t] = "Blocked"
          /\ \A o \in Onces :
                t \in ToSet(onceWaiters[o]) <=> o \in waitingFor[t] /\ state[t] = "Blocked"
          /\ \A o, p \in waitingFor[t] : o = p
          /\ t \in allocating => waitingFor[t] = {}
          /\ state[t] = "Blocked" => t \in allocating \/ waitingFor[t] # {}
          /\ waitingFor[t] \subseteq Onces
      BY <1>1 DEF LazyInv, AllocInv, OnceInv, OneReasonToWait, OnceTypeOK
    <3>2. CASE state[t] # "Blocked"
      <4>1. Lists(t) = {}
        BY <3>1, <3>2 DEF Lists
      <4> QED
        BY <3>2, <4>1, FS_EmptySet
    <3>3. CASE state[t] = "Blocked" /\ t \in allocating
      <4>1. Lists(t) = {"pool"}
        BY <3>1, <3>3 DEF Lists
      <4> QED
        BY <3>3, <4>1, FS_Singleton
    <3>4. CASE state[t] = "Blocked" /\ t \notin allocating
      <4>1. PICK o \in waitingFor[t] : TRUE
        BY <3>1, <3>4
      <4>2. Lists(t) = {o}
        BY <3>1, <3>4, <4>1 DEF Lists
      <4> QED
        BY <3>4, <4>2, FS_Singleton
    <3> QED
      BY <3>2, <3>3, <3>4
  <2> QED
    BY <2>1, <2>2 DEF Consistent
<1> QED
  BY <1>1, LazyInvHolds, PTL

\* A closure is executed by one task at a time, while the Once is Running.
THEOREM ClosuresRunOnce == Spec => []OnceRunsOnce
<1>1. ASSUME LazyInv
      PROVE  OnceRunsOnce
  <2> SUFFICES ASSUME NEW o \in Onces
               PROVE  Cardinality({t \in Users : o \in initialising[t]})
                         = IF onceState[o] = "Running" THEN 1 ELSE 0
    BY <1>1 DEF LazyInv, OnceInv, OnceRunsOnce
  <2>1. /\ onceState[o] = "Running" <=> \E t \in Users : o \in initialising[t]
        /\ \A t, u \in Users : o \in initialising[t] /\ o \in initialising[u] => t = u
    BY <1>1 DEF LazyInv, OnceInv
  <2>2. CASE onceState[o] # "Running"
    <3>1. {t \in Users : o \in initialising[t]} = {}
      BY <2>1, <2>2
    <3> QED
      BY <2>2, <3>1, FS_EmptySet
  <2>3. CASE onceState[o] = "Running"
    <3>1. PICK t \in Users : o \in initialising[t]
      BY <2>1, <2>3
    <3>2. {u \in Users : o \in initialising[u]} = {t}
      BY <2>1, <3>1
    <3> QED
      BY <2>3, <3>2, FS_Singleton
  <2> QED
    BY <2>2, <2>3
<1> QED
  BY <1>1, LazyInvHolds, PTL

\* No slot leaks and none is given twice.
THEOREM NoSlotIsLost == Spec => []SlotsHaveOneOwner
<1>1. ASSUME LazyInv
      PROVE  SlotsHaveOneOwner
  <2>1. PICK f : IsFreeList(f) /\ OneOwner(ToSet(f))
    BY <1>1 DEF LazyInv, SlotsInv
  <2>2. FreeSlots = ToSet(f) /\ WalkAt[Capacity] = Nil
    BY <2>1, WalkSeesFreeList
  <2>3. ASSUME NEW s \in Slots
        PROVE  Cardinality(FreeSlots \cap {s}) + boxes[s]
                  + Cardinality({t \in Users : s \in dropping[t]})
                  + Cardinality({t \in Users : s \in HandedTo(t)}) = 1
    <3> DEFINE F == FreeSlots \cap {s}
               D == {t \in Users : s \in dropping[t]}
               H == {t \in Users : s \in HandedTo(t)}
    <3> SUFFICES Cardinality(F) + boxes[s] + Cardinality(D) + Cardinality(H) = 1
      OBVIOUS
    <3> HIDE DEF F, D, H
    <3>1. /\ Cardinality({}) = 0
          /\ Cardinality({s}) = 1
          /\ \A t \in Users : Cardinality({t}) = 1
      BY FS_EmptySet, FS_Singleton
    <3>2. Owned(FreeSlots, s)
      BY <2>1, <2>2 DEF OneOwner
    <3>3. CASE OwnedByList(FreeSlots, s)
      <4>1. F = {s} /\ boxes[s] = 0 /\ D = {} /\ H = {}
        BY <3>3 DEF OwnedByList, F, D, H
      <4> QED
        BY <3>1, <4>1
    <3>4. CASE OwnedByBox(FreeSlots, s)
      <4>1. F = {} /\ boxes[s] = 1 /\ D = {} /\ H = {}
        BY <3>4 DEF OwnedByBox, F, D, H
      <4> QED
        BY <3>1, <4>1
    <3>5. ASSUME NEW t \in Users, OwnedByDropper(FreeSlots, s, t)
          PROVE  Cardinality(F) + boxes[s] + Cardinality(D) + Cardinality(H) = 1
      <4>1. F = {} /\ boxes[s] = 0 /\ D = {t} /\ H = {}
        BY <3>5 DEF OwnedByDropper, F, D, H
      <4> QED
        BY <3>1, <4>1
    <3>6. ASSUME NEW t \in Users, OwnedByAllocator(FreeSlots, s, t)
          PROVE  Cardinality(F) + boxes[s] + Cardinality(D) + Cardinality(H) = 1
      <4>1. F = {} /\ boxes[s] = 0 /\ D = {} /\ H = {t}
        BY <3>6 DEF OwnedByAllocator, F, D, H
      <4> QED
        BY <3>1, <4>1
    <3> QED
      BY <3>2, <3>3, <3>4, <3>5, <3>6 DEF Owned
  <2> QED
    BY <2>2, <2>3 DEF SlotsHaveOneOwner
<1> QED
  BY <1>1, LazyInvHolds, PTL

-----------------------------------------------------------------------------
(***************************************************************************)
(* Preemptions.                                                            *)
(***************************************************************************)

\* An allocator that is handed a slot.
LEMMA HandingPreempts ==
    ASSUME LazyInv, PreemptionPending, NEW s \in Slots, NEW u \in Users, HandsOver(s, u),
           UNCHANGED <<current, left, priority, seen>>,
           \/ \E t \in Users : Calls(t) /\ PreemptFor(t, u, priority[t]) /\ UNCHANGED pendsv
           \/ pendsv' = (pendsv \/ Outranks(u, current)) /\ UNCHANGED pc
    PROVE  PreemptionPending'
<1>1. Unblock(u)
  BY DEF HandsOver
<1>2. IsrWakes(u) \/ \E t \in Users : TaskWakes(t, u)
  BY <1>1 DEF IsrWakes, TaskWakes
<1> QED
  BY <1>2, WakingPreempts DEF LazyInv

LEMMA PoolStepPreempts ==
    ASSUME LazyInv, PreemptionPending, NEW t \in Users, PoolStep(t)
    PROVE  PreemptionPending'
<1>1. ASSUME NEW v, Alloc(t, v)
      PROVE  PreemptionPending'
  BY <1>1, QuietCallPreempts DEF Alloc, LazyInv
<1>2. ASSUME NEW v, Calls(t), AllocFast(t, v)
      PROVE  PreemptionPending'
  BY <1>2, KernelConstants
     DEF AllocFast, Calls, Thread, PreemptionPending, SwitchUnderWay, Outranks
<1>3. ASSUME NEW v, Calls(t), AllocBlocks(t, v)
      PROVE  PreemptionPending'
  <2>1. Parks(t)
    BY <1>3 DEF AllocBlocks, Parks
  <2> QED
    BY <2>1, QuietCallPreempts DEF LazyInv
<1>4. ASSUME NEW s \in Slots, DropValue(t, s)
      PROVE  PreemptionPending'
  BY <1>4, QuietCallPreempts DEF DropValue, LazyInv
<1>5. ASSUME NEW s \in Slots, DropSlot(t, s)
      PROVE  PreemptionPending'
  <2>1. CASE UNCHANGED kernelVars
    BY <2>1, QuietCallPreempts DEF LazyInv
  <2> QED
    BY <1>5, <2>1, HandingPreempts DEF DropSlot
<1> QED
  BY <1>1, <1>2, <1>3, <1>4, <1>5 DEF PoolStep, Allocates, AllocBlocking

LEMMA OnceStepPreempts ==
    ASSUME LazyInv, PreemptionPending, NEW t \in Users, OnceStep(t)
    PROVE  PreemptionPending'
<1>1. ASSUME NEW o \in Onces, CallRuns(t, o)
      PROVE  PreemptionPending'
  BY <1>1, QuietCallPreempts DEF CallRuns, LazyInv
<1>2. ASSUME NEW o \in Onces, CallBlocks(t, o)
      PROVE  PreemptionPending'
  <2>1. Parks(t)
    BY <1>2 DEF CallBlocks, CallsOnce, Parks
  <2> QED
    BY <2>1, QuietCallPreempts DEF LazyInv
<1>3. ASSUME NEW o \in Onces, Finish(t, o)
      PROVE  PreemptionPending'
  <2>1. ToSet(onceWaiters[o]) \in SUBSET Users
    <3>1. onceWaiters[o] \in Seq(Users)
      BY DEF LazyInv, OnceTypeOK
    <3> QED
      BY <3>1 DEF ToSet
  <2>2. /\ WakeAll(ToSet(onceWaiters[o]))
        /\ Calls(t)
        /\ pc' = IF \E u \in ToSet(onceWaiters[o]) : Outranks(u, t)
                 THEN [pc EXCEPT ![t] = "trigger"] ELSE pc
        /\ UNCHANGED <<current, left, priority, pendsv, seen>>
    BY <1>3 DEF Finish, Drained, WakeAll
  <2> QED
    BY <2>1, <2>2, WakingAllPreempts DEF LazyInv
<1> QED
  BY <1>1, <1>2, <1>3 DEF OnceStep

LEMMA StepKeepsPreemptions ==
    ASSUME LazyInv, [Next]_vars, PreemptionPending,
           ~(PendSVSwitch /\ seen # ReadyIn(state))
    PROVE  PreemptionPending'
<1>1. CASE UNCHANGED vars
  BY <1>1 DEF vars, kernelVars, PreemptionPending, SwitchUnderWay, Outranks
<1>2. CASE KernelStep
  BY <1>2, KernelStepPreempts DEF LazyInv, KernelInv
<1>3. ASSUME NEW v, IsrAlloc(v)
      PROVE  PreemptionPending'
  BY <1>3, QuietCallPreempts DEF IsrAlloc, LazyInv
<1>4. ASSUME NEW s \in Slots, IsrDrop(s)
      PROVE  PreemptionPending'
  <2>1. CASE UNCHANGED kernelVars
    BY <2>1, QuietCallPreempts DEF LazyInv
  <2> QED
    BY <1>4, <2>1, HandingPreempts DEF IsrDrop
<1>5. ASSUME NEW t \in Users, CallReturns(t)
      PROVE  PreemptionPending'
  BY <1>5, ExitReturnPreempts DEF CallReturns, LazyInv, KernelInv
<1> QED
  BY <1>1, <1>2, <1>3, <1>4, <1>5, PoolStepPreempts, OnceStepPreempts DEF Next, PoolIsr

\* A slot that is handed over and a closure that has run, which wakes every task that
\* waits for it, forget no preemption: only a PendSV that a handler preempted does,
\* until the next tick that finds a task running.
THEOREM PreemptionsAreKept == Spec => PreemptionsKept
<1>1. ASSUME LazyInv, [Next]_vars
      PROVE  [ /\ PreemptionPending /\ ~PreemptionPending'
                     => PendSVSwitch /\ seen # ReadyIn(state)
               /\ TickRunning => PreemptionPending' ]_kernelVars
  BY <1>1, StepKeepsPreemptions, TickPreempts
<1> QED
  BY <1>1, LazyInvHolds, PTL DEF Spec, PreemptionsKept

-----------------------------------------------------------------------------
(***************************************************************************)
(* The pool implements Allocation: every step is a step of it, or none.    *)
(***************************************************************************)

\* What the refinement mapping substitutes.
Boxed == {s \in Slots : boxes[s] > 0}

Handed == [t \in Users |-> HandedTo(t)]

Asks == [t \in Users |-> IF t \in ToSet(allocWaiters) THEN src[t] ELSE NoValue]

\* The walk sees the free list, before a step and after it.
WalkIsFaithful == \A f : IsFreeList(f) => FreeSlots = ToSet(f)

LEMMA NextWalkIsFaithful == WalkIsFaithful'
<1>1. WalkIsFaithful
  BY WalkSeesFreeList DEF WalkIsFaithful
<1> QED
  BY <1>1, PTL

LEMMA NextWalkSeesFreeList ==
    ASSUME NEW f, IsFreeList(f)'
    PROVE  FreeSlots' = ToSet(f)
BY NextWalkIsFaithful DEF WalkIsFaithful

\* What the free list, the boxes and the mapping say of each other.
LEMMA MappedPool ==
    ASSUME LazyInv, NEW f, IsFreeList(f), OneOwner(ToSet(f))
    PROVE  /\ FreeSlots = ToSet(f)
           /\ \A s \in Slots : s \in Boxed <=> boxes[s] = 1
           /\ \A s \in Slots : boxes[s] \in {0, 1}
           /\ \A t \in Users : Handed[t] = HandedTo(t)
           /\ \A t \in Users : Asks[t] # NoValue <=> t \in ToSet(allocWaiters)
           /\ Allocator!Asking = {t \in Users : t \in ToSet(allocWaiters)}
           /\ Allocator!Emptied =
                 Slots \ (FreeSlots \cup Boxed \cup UNION {HandedTo(t) : t \in Users})
<1>1. FreeSlots = ToSet(f)
  BY WalkSeesFreeList
<1>2. \A s \in Slots : boxes[s] \in {0, 1}
  BY DEF OneOwner, Owned, OwnedByList, OwnedByBox, OwnedByDropper, OwnedByAllocator
<1>3. \A s \in Slots : s \in Boxed <=> boxes[s] = 1
  BY <1>2 DEF Boxed
<1>4. \A t \in Users : Handed[t] = HandedTo(t)
  BY DEF Handed
<1>5. \A t \in Users : Asks[t] # NoValue <=> t \in ToSet(allocWaiters)
  BY PoolAssumption DEF Asks, LazyInv, AllocInv
<1>6. Allocator!Asking = {t \in Users : t \in ToSet(allocWaiters)}
  BY <1>5 DEF Allocator!Asking, Asks
<1>7. Allocator!Emptied = Slots \ (FreeSlots \cup Boxed \cup UNION {HandedTo(t) : t \in Users})
  <2>1. {[u \in Users |-> HandedTo(u)][t] : t \in Users} = {HandedTo(t) : t \in Users}
    OBVIOUS
  <2> QED
    BY <2>1 DEF Allocator!Emptied, Boxed
<1> QED
  BY <1>1, <1>2, <1>3, <1>4, <1>5, <1>6, <1>7

\* Steps that the users of the pool do not see.
LEMMA UnseenAllocation ==
    ASSUME LazyInv, UNCHANGED poolVars,
           \A t \in allocating : state'[t] = "Blocked" <=> state[t] = "Blocked"
    PROVE  UNCHANGED Allocator!vars
<1>1. PICK f : IsFreeList(f)
  BY DEF LazyInv, SlotsInv
<1>2. IsFreeList(f)'
  BY <1>1 DEF IsFreeList, poolVars
<1>3. FreeSlots' = FreeSlots
  BY <1>1, <1>2, WalkSeesFreeList, NextWalkSeesFreeList
<1>4. Boxed' = Boxed /\ Handed' = Handed /\ Asks' = Asks /\ nodes' = nodes
  BY DEF Boxed, Handed, HandedTo, Asks, poolVars
<1> QED
  BY <1>3, <1>4 DEF Allocator!vars, Boxed, Handed, Asks

\* The first slot gets v, for a box or for t.
LEMMA TakesFirstAllocation ==
    ASSUME LazyInv, NEW s \in Slots, NEW v \in Values, TakesFirst(s, v)
    PROVE  /\ Allocator!Store(s, v)
           /\ boxes[s] = 0 /\ boxes \in [Slots -> Nat]
           /\ Asks' = Asks
<1>1. PICK f, g : /\ OneOwner(ToSet(f)) /\ OwnedByList(ToSet(f), s)
                  /\ IsFreeList(f)
                  /\ IsFreeList(g)' /\ ToSet(g) = ToSet(f) \ {s}
  BY TakenSlot
<1>2. FreeSlots = ToSet(f) /\ FreeSlots' = ToSet(f) \ {s}
  BY <1>1, WalkSeesFreeList, NextWalkSeesFreeList
<1>3. Allocator!Store(s, v)
  BY <1>1, <1>2 DEF Allocator!Store, TakesFirst, OwnedByList
<1>4. Asks' = Asks
  BY DEF TakesFirst, Asks
<1> QED
  BY <1>1, <1>3, <1>4 DEF OwnedByList, LazyInv, PoolTypeOK

LEMMA AllocAllocation ==
    ASSUME LazyInv, NEW s \in Slots, NEW v \in Values, TakesFirst(s, v), NewBox(s),
           UNCHANGED <<kernelVars, waitPtr, allocating>>
    PROVE  Allocator!Alloc(s, v)
<1>1. /\ Allocator!Store(s, v)
      /\ boxes[s] = 0 /\ boxes \in [Slots -> Nat]
      /\ Asks' = Asks
  BY TakesFirstAllocation
<1>2. Boxed' = Boxed \cup {s}
  <2>1. /\ boxes'[s] = 1
        /\ \A r \in Slots \ {s} : boxes'[r] = boxes[r]
    BY <1>1 DEF NewBox
  <2> QED
    BY <2>1 DEF Boxed
<1>3. Handed' = Handed
  BY DEF Handed, HandedTo, kernelVars
<1> QED
  BY <1>1, <1>2, <1>3 DEF Allocator!Alloc, Boxed, Handed, Asks

LEMMA AllocFastAllocation ==
    ASSUME LazyInv, NEW t \in Users, NEW v \in Values, Calls(t), AllocFast(t, v),
           allocating' = allocating \cup {t}
    PROVE  \E s \in Slots : Allocator!Grant(t, s, v)
<1>1. PICK s \in Slots : TakesFirst(s, v) /\ waitPtr' = [waitPtr EXCEPT ![t] = s]
  BY DEF AllocFast
<1>2. Allocator!Store(s, v) /\ Asks' = Asks
  BY <1>1, TakesFirstAllocation
<1>3. UNCHANGED <<state, boxes>> /\ state[t] = "Running"
  BY CallerIsFree DEF AllocFast
<1>4. Boxed' = Boxed
  BY <1>3 DEF Boxed
<1>5. \A u \in Users : waitPtr'[u] = IF u = t THEN s ELSE waitPtr[u]
  BY <1>1 DEF LazyInv, PoolTypeOK
<1>6. \A u \in Users : HandedTo(u)' = IF u = t THEN {s} ELSE HandedTo(u)
  BY <1>3, <1>5 DEF HandedTo
<1>7. Handed' = [Handed EXCEPT ![t] = {s}]
  BY <1>6 DEF Handed
<1> QED
  BY <1>2, <1>4, <1>7 DEF Allocator!Grant, Boxed, Handed, Asks

LEMMA AllocBlocksAllocation ==
    ASSUME LazyInv, NEW t \in Users, NEW v \in Values, Calls(t), AllocBlocks(t, v),
           allocating' = allocating \cup {t}
    PROVE  Allocator!Ask(t, v)
<1>1. /\ t \in Tasks /\ state[t] = "Running" /\ t \notin allocating /\ HandedTo(t) = {}
      /\ t \notin ToSet(allocWaiters)
  BY CallerIsFree
<1>2. /\ UNCHANGED <<nodes, next, freeHead, boxes>>
      /\ freeHead = Nil /\ allocWaiters' = Cons(t, allocWaiters)
      /\ src' = [src EXCEPT ![t] = v]
      /\ waitPtr' = [waitPtr EXCEPT ![t] = StackAddress]
      /\ state' = [state EXCEPT ![t] = "Blocked"]
  BY DEF AllocBlocks, LeaveRunning
<1>3. /\ src \in [Users -> Values \cup {NoValue}]
      /\ waitPtr \in [Users -> Slots \cup {0, StackAddress}]
      /\ state \in [Tasks -> TaskStates]
      /\ allocWaiters \in Seq(Users)
  BY DEF LazyInv, PoolTypeOK, KernelInv, KernelTypeOK
<1>4. PICK f : IsFreeList(f)
  BY DEF LazyInv, SlotsInv
<1>5. IsFreeList(f)'
  BY <1>2, <1>4 DEF IsFreeList
<1>6. ToSet(f) = {}
  <2>1. DOMAIN f = 1 .. Len(f) /\ Len(f) \in Nat /\ \A i \in DOMAIN f : f[i] # Nil
    BY <1>4, PoolConstants DEF IsFreeList
  <2>2. DOMAIN f = {}
    BY <1>2, <1>4, <2>1 DEF IsFreeList, At
  <2> QED
    BY <2>2 DEF ToSet
<1>7. FreeSlots = {} /\ FreeSlots' = FreeSlots
  BY <1>4, <1>5, <1>6, WalkSeesFreeList, NextWalkSeesFreeList
<1>8. \A u \in Users : HandedTo(u)' = HandedTo(u)
  BY <1>1, <1>2, <1>3, KernelConstants DEF HandedTo
<1>9. Handed' = Handed /\ Boxed' = Boxed
  BY <1>2, <1>8 DEF Handed, Boxed
<1>10. ToSet(allocWaiters') = ToSet(allocWaiters) \cup {t}
  <2>1. ToSet(Cons(t, allocWaiters)) = ToSet(allocWaiters) \cup {t}
    BY <1>3, PushedList
  <2> QED
    BY <1>2, <2>1
<1>11. Asks' = [Asks EXCEPT ![t] = v]
  BY <1>2, <1>3, <1>10 DEF Asks
<1> QED
  BY <1>2, <1>7, <1>9, <1>11 DEF Allocator!Ask, Boxed, Handed, Asks

\* Only a return from alloc_blocking is seen.
LEMMA ReturnsAllocation ==
    ASSUME LazyInv, NEW t \in Users, CallReturns(t)
    PROVE  Allocator!Receive(t) \/ UNCHANGED Allocator!vars
<1>1. /\ UNCHANGED <<state, nodes, next, freeHead, allocWaiters, src, waitPtr, dropping>>
      /\ allocating' = allocating \ {t}
      /\ Thread(t) /\ pc[t] = "return"
  BY DEF CallReturns, Return, AllocReturns
<1>2. CASE t \notin allocating
  <2>1. UNCHANGED poolVars
    BY <1>1, <1>2 DEF CallReturns, AllocReturns, poolVars
  <2> QED
    BY <1>1, <2>1, UnseenAllocation
<1>3. CASE t \in allocating
  <2>1. state[t] = "Running"
    BY <1>1, ThreadRuns DEF LazyInv, KernelInv
  <2>2. PICK s \in Slots : s = waitPtr[t] /\ HandedTo(t) = {s}
    BY <1>3, <2>1 DEF LazyInv, AllocInv, HandedTo
  <2>3. PICK f : IsFreeList(f) /\ OneOwner(ToSet(f))
    BY DEF LazyInv, SlotsInv
  <2>4. OwnedByAllocator(ToSet(f), s, t)
    BY <2>2, <2>3
       DEF OneOwner, Owned, OwnedByList, OwnedByBox, OwnedByDropper, OwnedByAllocator
  <2>5. IsFreeList(f)'
    BY <1>1, <2>3 DEF IsFreeList
  <2>6. FreeSlots' = FreeSlots
    BY <2>3, <2>5, WalkSeesFreeList, NextWalkSeesFreeList
  <2>7. /\ boxes' = [boxes EXCEPT ![s] = boxes[s] + 1]
        /\ boxes \in [Slots -> Nat] /\ boxes[s] = 0
    BY <1>3, <2>2, <2>4 DEF CallReturns, AllocReturns, OwnedByAllocator, LazyInv, PoolTypeOK
  <2>8. /\ boxes'[s] = 1
        /\ \A r \in Slots \ {s} : boxes'[r] = boxes[r]
    BY <2>7
  <2>9. Boxed' = Boxed \cup {s}
    BY <2>8 DEF Boxed
  <2>10. \A u \in Users : HandedTo(u)' = IF u = t THEN {} ELSE HandedTo(u)
    BY <1>1 DEF HandedTo
  <2>11. Handed' = [Handed EXCEPT ![t] = {}] /\ Handed[t] = {s}
    BY <2>2, <2>10 DEF Handed
  <2>12. Asks' = Asks
    BY <1>1 DEF Asks
  <2> QED
    BY <1>1, <2>6, <2>9, <2>11, <2>12 DEF Allocator!Receive, Boxed, Handed, Asks
<1> QED
  BY <1>2, <1>3

LEMMA DropValueAllocation ==
    ASSUME LazyInv, NEW t \in Users, NEW s \in Slots, DropValue(t, s)
    PROVE  Allocator!Destroy(s)
<1>1. PICK f : IsFreeList(f) /\ OneOwner(ToSet(f))
  BY DEF LazyInv, SlotsInv
<1>2. UNCHANGED <<kernelVars, next, freeHead, allocWaiters, src, waitPtr, allocating>>
  BY DEF DropValue
<1>3. IsFreeList(f)'
  BY <1>1, <1>2 DEF IsFreeList
<1>4. FreeSlots' = FreeSlots
  BY <1>1, <1>3, WalkSeesFreeList, NextWalkSeesFreeList
<1>5. boxes \in [Slots -> Nat] /\ boxes[s] = 1 /\ boxes' = [boxes EXCEPT ![s] = boxes[s] - 1]
  BY <1>1, MappedPool DEF DropValue, LazyInv, PoolTypeOK
<1>6. boxes'[s] = 0 /\ \A r \in Slots \ {s} : boxes'[r] = boxes[r]
  BY <1>5
<1>7. Boxed' = Boxed \ {s} /\ s \in Boxed
  BY <1>5, <1>6 DEF Boxed
<1>8. Handed' = Handed /\ Asks' = Asks
  BY <1>2 DEF Handed, HandedTo, Asks, kernelVars
<1> QED
  BY <1>4, <1>7, <1>8 DEF Allocator!Destroy, DropValue, Boxed, Handed, Asks

\* A slot goes to the free list, or to the allocator of the highest priority.
LEMMA FreedAllocation ==
    ASSUME LazyInv, NEW s \in Slots, NEW f, IsFreeList(f), s \notin ToSet(f),
           next' = Linked(s), freeHead' = s, allocWaiters = <<>>,
           UNCHANGED <<kernelVars, allocWaiters, src, waitPtr, allocating>>
    PROVE  /\ Allocator!Asking = {}
           /\ FreeSlots' = FreeSlots \cup {s}
           /\ Handed' = Handed /\ Asks' = Asks
<1>1. PoolTypeOK
  BY DEF LazyInv
<1>2. PICK g : IsFreeList(g)' /\ ToSet(g) = ToSet(f) \cup {s}
  BY <1>1, SlotGivenBack
<1>3. FreeSlots' = FreeSlots \cup {s}
  BY <1>2, WalkSeesFreeList, NextWalkSeesFreeList
<1>4. Handed' = Handed /\ Asks' = Asks
  BY DEF Handed, HandedTo, Asks, kernelVars
<1>5. Allocator!Asking = {}
  BY DEF Allocator!Asking, ToSet
<1> QED
  BY <1>3, <1>4, <1>5

LEMMA HandedAllocation ==
    ASSUME LazyInv, NEW s \in Slots, NEW u \in Users, HandsOver(s, u), allocating' = allocating
    PROVE  /\ u \in Allocator!Asking
           /\ \A t \in Allocator!Asking : BasePrio[u] <= BasePrio[t]
           /\ nodes' = [nodes EXCEPT ![s] = Asks[u]]
           /\ Asks' = [Asks EXCEPT ![u] = NoValue]
           /\ Handed' = [Handed EXCEPT ![u] = {s}]
           /\ FreeSlots' = FreeSlots
<1>1. /\ Unblock(u)
      /\ state[u] = "Blocked" /\ u \in allocating
      /\ u \in ToSet(allocWaiters)
      /\ \A t \in ToSet(allocWaiters) : BasePrio[u] <= BasePrio[t]
      /\ ToSet(allocWaiters') = ToSet(allocWaiters) \ {u}
  BY ServedAllocator
<1>2. \A t \in Users : state'[t] = IF t = u THEN "Ready" ELSE state[t]
  BY <1>1, UnblockedStates, KernelConstants DEF LazyInv
<1>3. /\ UNCHANGED <<next, freeHead>>
      /\ nodes' = [nodes EXCEPT ![s] = src[u]]
      /\ src' = [src EXCEPT ![u] = NoValue]
      /\ waitPtr' = [waitPtr EXCEPT ![u] = s]
  BY DEF HandsOver
<1>4. PICK f : IsFreeList(f) /\ OneOwner(ToSet(f))
  BY DEF LazyInv, SlotsInv
<1>5. IsFreeList(f)'
  BY <1>3, <1>4 DEF IsFreeList
<1>6. FreeSlots' = FreeSlots
  BY <1>4, <1>5, WalkSeesFreeList, NextWalkSeesFreeList
<1>7. Allocator!Asking = {t \in Users : t \in ToSet(allocWaiters)}
  BY <1>4, MappedPool
<1>8. /\ \A t \in Users : src'[t] = IF t = u THEN NoValue ELSE src[t]
      /\ \A t \in Users : waitPtr'[t] = IF t = u THEN s ELSE waitPtr[t]
  BY <1>3 DEF LazyInv, PoolTypeOK
<1>9. Asks' = [Asks EXCEPT ![u] = NoValue] /\ Asks[u] = src[u]
  BY <1>1, <1>8 DEF Asks
<1>10. \A t \in Users : HandedTo(t)' = IF t = u THEN {s} ELSE HandedTo(t)
  BY <1>1, <1>2, <1>8 DEF HandedTo
<1>11. Handed' = [Handed EXCEPT ![u] = {s}]
  BY <1>10 DEF Handed
<1> QED
  BY <1>1, <1>3, <1>6, <1>7, <1>9, <1>11

LEMMA DropSlotAllocation ==
    ASSUME LazyInv, NEW t \in Users, NEW s \in Slots, DropSlot(t, s)
    PROVE  Allocator!GiveBack(s)
<1>1. PICK f : IsFreeList(f) /\ OneOwner(ToSet(f))
  BY DEF LazyInv, SlotsInv
<1>2. OwnedByDropper(ToSet(f), s, t)
  BY <1>1
     DEF DropSlot, OneOwner, Owned, OwnedByList, OwnedByBox, OwnedByDropper, OwnedByAllocator
<1>3. s \notin FreeSlots /\ s \notin ToSet(f) /\ s \in Allocator!Emptied
  BY <1>1, <1>2, MappedPool DEF OwnedByDropper
<1>4. UNCHANGED <<allocating, boxes>> /\ Boxed' = Boxed
  BY DEF DropSlot, Boxed
<1>5. CASE Frees(s) /\ UNCHANGED kernelVars
  <2>1. /\ Allocator!Asking = {}
        /\ FreeSlots' = FreeSlots \cup {s}
        /\ Handed' = Handed /\ Asks' = Asks
    BY <1>1, <1>3, <1>4, <1>5, FreedAllocation DEF Frees
  <2> QED
    BY <1>3, <1>4, <1>5, <2>1
       DEF Frees, Allocator!GiveBack, Allocator!ComesBack, Boxed, Handed, Asks
<1>6. ASSUME NEW u \in Users, HandsOver(s, u)
      PROVE  Allocator!GiveBack(s)
  <2>1. /\ u \in Allocator!Asking
        /\ \A v \in Allocator!Asking : BasePrio[u] <= BasePrio[v]
        /\ nodes' = [nodes EXCEPT ![s] = Asks[u]]
        /\ Asks' = [Asks EXCEPT ![u] = NoValue]
        /\ Handed' = [Handed EXCEPT ![u] = {s}]
        /\ FreeSlots' = FreeSlots
    BY <1>4, <1>6, HandedAllocation
  <2> QED
    BY <1>3, <1>4, <2>1
       DEF Allocator!GiveBack, Allocator!ComesBack, Boxed, Handed, Asks
<1> QED
  BY <1>5, <1>6 DEF DropSlot

LEMMA IsrDropAllocation ==
    ASSUME LazyInv, NEW s \in Slots, IsrDrop(s)
    PROVE  Allocator!DestroyAndGiveBack(s)
<1>1. PICK f : IsFreeList(f) /\ OneOwner(ToSet(f))
  BY DEF LazyInv, SlotsInv
<1>2. OwnedByBox(ToSet(f), s)
  BY <1>1
     DEF IsrDrop, OneOwner, Owned, OwnedByList, OwnedByBox, OwnedByDropper, OwnedByAllocator
<1>3. UNCHANGED <<allocating, dropping>> /\ boxes' = [boxes EXCEPT ![s] = boxes[s] - 1]
      /\ boxes \in [Slots -> Nat] /\ nodes \in [Slots -> Values \cup {NoValue}]
  BY DEF IsrDrop, LazyInv, PoolTypeOK
<1>4. boxes'[s] = 0 /\ \A r \in Slots \ {s} : boxes'[r] = boxes[r]
  BY <1>2, <1>3 DEF OwnedByBox
<1>5. Boxed' = Boxed \ {s} /\ s \in Boxed /\ s \notin ToSet(f)
  BY <1>2, <1>4 DEF Boxed, OwnedByBox
<1>6. ASSUME allocWaiters = <<>>, nodes' = [nodes EXCEPT ![s] = NoValue],
             next' = Linked(s), freeHead' = s,
             UNCHANGED <<kernelVars, allocWaiters, src, waitPtr>>
      PROVE  Allocator!DestroyAndGiveBack(s)
  <2>1. /\ Allocator!Asking = {}
        /\ FreeSlots' = FreeSlots \cup {s}
        /\ Handed' = Handed /\ Asks' = Asks
    BY <1>1, <1>3, <1>5, <1>6, FreedAllocation
  <2> QED
    BY <1>5, <1>6, <2>1
       DEF Allocator!DestroyAndGiveBack, Allocator!ComesBack, Boxed, Handed, Asks
<1>7. ASSUME NEW u \in Users, HandsOver(s, u)
      PROVE  Allocator!DestroyAndGiveBack(s)
  <2>1. /\ u \in Allocator!Asking
        /\ \A v \in Allocator!Asking : BasePrio[u] <= BasePrio[v]
        /\ nodes' = [nodes EXCEPT ![s] = Asks[u]]
        /\ Asks' = [Asks EXCEPT ![u] = NoValue]
        /\ Handed' = [Handed EXCEPT ![u] = {s}]
        /\ FreeSlots' = FreeSlots
    BY <1>3, <1>7, HandedAllocation
  <2>2. [[nodes EXCEPT ![s] = NoValue] EXCEPT ![s] = Asks[u]] = [nodes EXCEPT ![s] = Asks[u]]
    BY <1>3
  <2> QED
    BY <1>5, <2>1, <2>2
       DEF Allocator!DestroyAndGiveBack, Allocator!ComesBack, Boxed, Handed, Asks
<1> QED
  BY <1>6, <1>7 DEF IsrDrop

LEMMA StepImplementsAllocation ==
    ASSUME LazyInv, [Next]_vars
    PROVE  [Allocator!Next]_(Allocator!vars)
<1>1. CASE UNCHANGED vars
  BY <1>1, UnseenAllocation DEF vars, kernelVars
<1>2. CASE KernelStep /\ UNCHANGED <<poolVars, onceVars>>
  <2>1. \A t \in allocating : state'[t] = "Blocked" <=> state[t] = "Blocked"
    BY <1>2, KernelStepKeepsBlocked DEF LazyInv, KernelInv, PoolTypeOK
  <2> QED
    BY <1>2, <2>1, UnseenAllocation
<1>3. ASSUME NEW v \in Values, NEW s \in Slots, TakesFirst(s, v), NewBox(s),
             UNCHANGED <<kernelVars, waitPtr, allocating>>
      PROVE  Allocator!Next
  BY <1>3, AllocAllocation DEF Allocator!Next
<1>4. CASE PoolIsr
  <2>1. IsrStored \subseteq Values
    BY PoolAssumption
  <2> QED
    BY <1>3, <1>4, <2>1, IsrDropAllocation DEF PoolIsr, IsrAlloc, Allocator!Next
<1>5. ASSUME NEW t \in Users, PoolStep(t)
      PROVE  Allocator!Next
  <2>1. Stored[t] \subseteq Values
    BY PoolAssumption
  <2>2. ASSUME NEW v \in Values, Alloc(t, v)
        PROVE  Allocator!Next
    BY <1>3, <2>2 DEF Alloc
  <2>3. ASSUME NEW v \in Values, Allocates(t, v)
        PROVE  Allocator!Next
    BY <2>3, AllocFastAllocation, AllocBlocksAllocation
       DEF Allocates, AllocBlocking, Allocator!Next
  <2> QED
    BY <1>5, <2>1, <2>2, <2>3, DropValueAllocation, DropSlotAllocation
       DEF PoolStep, Allocator!Next
<1>6. ASSUME NEW t \in Users, OnceStep(t), UNCHANGED poolVars
      PROVE  UNCHANGED Allocator!vars
  <2>1. ASSUME NEW o \in Onces, CallRuns(t, o) \/ CallBlocks(t, o) \/ Finish(t, o),
               NEW u \in allocating
        PROVE  state'[u] = "Blocked" <=> state[u] = "Blocked"
    <3>1. u \in Users /\ u \in Tasks /\ waitingFor[u] = {}
      BY KernelConstants DEF LazyInv, PoolTypeOK, OneReasonToWait
    <3>2. CASE CallRuns(t, o)
      BY <3>2 DEF CallRuns, kernelVars
    <3>3. CASE CallBlocks(t, o)
      <4>1. t \notin allocating
        BY <3>3, CallerIsFree DEF CallBlocks, CallsOnce
      <4> QED
        BY <3>1, <3>3, <4>1 DEF CallBlocks, LeaveRunning, LazyInv, KernelInv, KernelTypeOK
    <3>4. CASE Finish(t, o)
      <4>1. u \notin ToSet(onceWaiters[o])
        BY <3>1 DEF LazyInv, OnceInv
      <4> QED
        BY <3>1, <3>4, <4>1 DEF Finish, Drained
    <3> QED
      BY <2>1, <3>2, <3>3, <3>4
  <2> QED
    BY <1>6, <2>1, UnseenAllocation DEF OnceStep
<1> QED
  BY <1>1, <1>2, <1>4, <1>5, <1>6, ReturnsAllocation DEF Next, Allocator!Next

\* A value stays as it is from its allocation until its box is dropped, and a slot
\* that comes back goes to the waiting allocator of the highest priority, with its
\* value in it, before anybody else can have it.
THEOREM PoolImplementsAllocation == Spec => ImplementsAllocator
<1>1. Init => Allocator!Init
  <2> SUFFICES ASSUME Init PROVE Allocator!Init
    OBVIOUS
  <2>1. LazyInv
    BY InitLazy
  <2>2. PICK f : IsFreeList(f) /\ OneOwner(ToSet(f))
    BY <2>1 DEF LazyInv, SlotsInv
  <2>3. FreeSlots = ToSet(f)
    BY <2>2, WalkSeesFreeList
  <2>4. \A t \in Users : HandedTo(t) = {} /\ dropping[t] = {}
    BY DEF Init, PoolInit, HandedTo
  <2>5. \A s \in Slots : boxes[s] = 0
    BY DEF Init, PoolInit
  <2>6. FreeSlots = Slots
    <3>1. \A s \in Slots : s \in ToSet(f)
      BY <2>2, <2>4, <2>5
         DEF OneOwner, Owned, OwnedByList, OwnedByBox, OwnedByDropper, OwnedByAllocator
    <3>2. ToSet(f) \subseteq Slots
      BY <2>2 DEF IsFreeList, ToSet
    <3> QED
      BY <2>3, <3>1, <3>2
  <2>7. {s \in Slots : boxes[s] > 0} = {}
    BY <2>5
  <2>8. [t \in Users |-> HandedTo(t)] = [t \in Users |-> {}]
    BY <2>4
  <2>9. [t \in Users |-> IF t \in ToSet(allocWaiters) THEN src[t] ELSE NoValue]
          = [t \in Users |-> NoValue]
    BY DEF Init, PoolInit
  <2> QED
    BY <2>6, <2>7, <2>8, <2>9 DEF Init, PoolInit, Allocator!Init
<1>2. LazyInv /\ [Next]_vars => [Allocator!Next]_(Allocator!vars)
  BY StepImplementsAllocation
<1> QED
  BY <1>1, <1>2, LazyInvHolds, PTL DEF Spec, ImplementsAllocator, Allocator!Spec
=============================================================================
