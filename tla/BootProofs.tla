----------------------------- MODULE BootProofs -----------------------------
(***************************************************************************)
(* Boot, for every number of tasks, spawned in any order and with any      *)
(* priorities: ALL_TASKS is a list of them, and the walk of                *)
(* svc_first_task_sp through it ends at a task nobody outranks.            *)
(***************************************************************************)
EXTENDS Boot, FiniteSetTheorems, TLAPS

\* The i-th entry of a list of n, or the null pointer past its end.
Entry(at, n, i) == IF i <= n THEN at[i] ELSE Null

\* ALL_TASKS lists the spawned TCBs in the order of at.
Linked(at, n) ==
    /\ at \in Bijection(1 .. n, Spawned)
    /\ allTasks = Entry(at, n, 1)
    /\ \A i \in 1 .. n : allNext[at[i]] = Entry(at, n, i + 1)

\* The walk is at entry k: best is the best of those before it.
WalkedTo(at, n, k) ==
    /\ cursor = Entry(at, n, k)
    /\ best = Null => bestPrio = MaxPrio
    /\ best # Null => best \in Spawned /\ bestPrio = priority[best]
    /\ \A i \in 1 .. n : i < k => bestPrio <= priority[at[i]]

\* The invariant of the list and of the walk.  The walk goes by the order of the
\* list, so that the two speak of the same at.
Listed(at, n) ==
    /\ Linked(at, n)
    /\ phase = "svc" => \E k \in 1 .. n + 1 : WalkedTo(at, n, k)

\* Before the handler returns, nobody has run.
ReadyUntilLaunch ==
    phase \in {"main", "svc"} => \A b \in Spawned : state[b] = "Ready"

BootInv ==
    /\ TypeOK
    /\ \E n \in Nat : \E at : Listed(at, n)
    /\ ReadyUntilLaunch
    /\ FirstIsHighest

LEMMA BootConstants ==
    ASSUME BootAssumption
    PROVE  /\ MaxPrio \in Nat /\ Priorities \subseteq 0 .. MaxPrio
           /\ IdleTcb \in Tcbs /\ UserTcbs \subseteq Tcbs
           /\ Null \notin Tcbs
BY DEF BootAssumption, Tcbs, MaxPrio

LEMMA InitBoot == ASSUME BootAssumption, Init PROVE BootInv
<1>1. TypeOK
  BY BootConstants DEF Init, TypeOK
<1>2. Spawned = {}
  BY DEF Init, Spawned
<1>3. Listed(<<>>, 0)
  <2>1. <<>> \in Bijection(1 .. 0, {})
    BY DEF Bijection, Injection, Surjection, IsInjective
  <2> QED
    BY <1>2, <2>1 DEF Init, Listed, Linked, Entry
<1> QED
  BY <1>1, <1>2, <1>3 DEF Init, BootInv, ReadyUntilLaunch, FirstIsHighest

\* A list of n TCBs, each once.
LEMMA Entries ==
    ASSUME NEW n \in Nat, NEW at, Linked(at, n)
    PROVE  /\ \A i \in 1 .. n : at[i] \in Spawned
           /\ \A i, j \in 1 .. n : at[i] = at[j] => i = j
           /\ \A b \in Spawned : \E i \in 1 .. n : at[i] = b
BY DEF Linked, Bijection, Injection, Surjection, IsInjective

-----------------------------------------------------------------------------
\* spawn_into puts a new TCB in front of the list.
LEMMA SpawnIntoLinks ==
    ASSUME TypeOK, NEW n \in Nat, NEW at, Linked(at, n),
           NEW b \in Tcbs, state[b] = "Uninit", NEW p, SpawnInto(b, p)
    PROVE  \E at2 : Linked(at2, n + 1)'
<1> DEFINE at2 == [i \in 1 .. n + 1 |-> IF i = 1 THEN b ELSE at[i - 1]]
<1>1. Spawned' = Spawned \cup {b} /\ b \notin Spawned
  BY DEF SpawnInto, Spawned, TypeOK
<1>2. /\ \A i \in 1 .. n : at[i] \in Spawned
      /\ \A i, j \in 1 .. n : at[i] = at[j] => i = j
      /\ \A c \in Spawned : \E i \in 1 .. n : at[i] = c
  BY Entries
<1>3. /\ at2[1] = b
      /\ \A i \in 1 .. n : i + 1 \in 1 .. n + 1 /\ at2[i + 1] = at[i]
      /\ \A i \in 1 .. n + 1 : i = 1 \/ (i - 1 \in 1 .. n /\ at2[i] = at[i - 1])
  OBVIOUS
<1>4. at2 \in Bijection(1 .. n + 1, Spawned')
  <2>1. at2 \in [1 .. n + 1 -> Spawned']
    BY <1>1, <1>2
  <2>2. ASSUME NEW i \in 1 .. n + 1, NEW j \in 1 .. n + 1, at2[i] = at2[j]
        PROVE  i = j
    BY <1>1, <1>2, <1>3, <2>2
  <2>3. ASSUME NEW c \in Spawned'
        PROVE  \E i \in 1 .. n + 1 : at2[i] = c
    <3>1. CASE c = b
      BY <1>3, <3>1
    <3>2. CASE c \in Spawned
      <4>1. PICK j \in 1 .. n : at[j] = c
        BY <1>2, <3>2
      <4>2. j + 1 \in 1 .. n + 1 /\ at2[j + 1] = c
        BY <1>3, <4>1
      <4> HIDE DEF at2
      <4> QED
        BY <4>2
    <3> QED
      BY <1>1, <3>1, <3>2
  <2> HIDE DEF at2
  <2> QED
    BY <2>1, <2>2, <2>3 DEF Bijection, Injection, Surjection, IsInjective
<1>5. allTasks' = b /\ allNext'[b] = allTasks
  BY DEF SpawnInto, TypeOK
<1>6. ASSUME NEW i \in 1 .. n + 1
      PROVE  allNext'[at2[i]] = Entry(at2, n + 1, i + 1)
  <2>1. CASE i = 1
    <3>1. allTasks = Entry(at, n, 1)
      BY DEF Linked
    <3>2. Entry(at2, n + 1, 2) = Entry(at, n, 1)
      BY <1>3 DEF Entry
    <3> QED
      BY <1>3, <1>5, <2>1, <3>1, <3>2
  <2>2. CASE i # 1
    <3>1. PICK j \in 1 .. n : i = j + 1 /\ at2[i] = at[j]
      BY <1>3, <2>2
    <3>2. allNext'[at[j]] = allNext[at[j]]
      BY <1>1, <1>2, <3>1 DEF SpawnInto, TypeOK
    <3>3. allNext[at[j]] = Entry(at, n, j + 1)
      BY DEF Linked
    <3>4. Entry(at2, n + 1, j + 2) = Entry(at, n, j + 1)
      BY <1>3 DEF Entry
    <3> QED
      BY <3>1, <3>2, <3>3, <3>4
  <2> QED
    BY <2>1, <2>2
<1>7. allTasks' = Entry(at2, n + 1, 1)
  BY <1>3, <1>5 DEF Entry
<1> QED
  BY <1>4, <1>6, <1>7 DEF Linked, Entry

LEMMA SpawnBoot ==
    ASSUME BootAssumption, BootInv, NEW b \in UserTcbs, NEW p \in Priorities, Spawn(b, p)
    PROVE  BootInv'
<1>1. TypeOK'
  BY BootConstants DEF BootInv, TypeOK, Spawn, SpawnInto
<1>2. PICK n \in Nat : \E at : Listed(at, n)
  BY DEF BootInv
<1>3. PICK at : Listed(at, n)
  BY <1>2
<1>4. PICK at2 : Linked(at2, n + 1)'
  BY <1>3, SpawnIntoLinks, BootConstants DEF BootInv, Listed, Spawn
<1>5. phase = "main" /\ phase' = "main"
  BY DEF Spawn
<1>6. (\E k \in Nat : \E w : Listed(w, k))'
  BY <1>4, <1>5 DEF Listed
<1>7. ReadyUntilLaunch' /\ FirstIsHighest'
  BY <1>5, BootConstants
     DEF BootInv, TypeOK, Spawn, SpawnInto, ReadyUntilLaunch, FirstIsHighest, Spawned
<1> QED
  BY <1>1, <1>6, <1>7 DEF BootInv

\* The idle task has not been spawned before.
IdleComesLast == phase = "main" => state[IdleTcb] = "Uninit"

LEMMA StartBoot ==
    ASSUME BootAssumption, BootInv, IdleComesLast, Start
    PROVE  BootInv'
<1>1. TypeOK'
  BY BootConstants DEF BootInv, TypeOK, Start, SpawnInto
<1>2. PICK n \in Nat : \E at : Listed(at, n)
  BY DEF BootInv
<1>3. PICK at : Listed(at, n)
  BY <1>2
<1>4. PICK at2 : Linked(at2, n + 1)'
  BY <1>3, SpawnIntoLinks, BootConstants DEF BootInv, IdleComesLast, Listed, Start
<1>5. phase = "main" /\ phase' = "svc" /\ best' = Null /\ bestPrio' = MaxPrio
  BY DEF Start
<1>6. WalkedTo(at2, n + 1, 1)'
  BY <1>4, <1>5 DEF WalkedTo, Linked, Start, SpawnInto
<1>7. (\E k \in Nat : \E w : Listed(w, k))'
  BY <1>4, <1>6 DEF Listed
<1>8. ReadyUntilLaunch' /\ FirstIsHighest'
  BY <1>5, BootConstants
     DEF BootInv, TypeOK, Start, SpawnInto, ReadyUntilLaunch, FirstIsHighest, Spawned
<1> QED
  BY <1>1, <1>7, <1>8 DEF BootInv

-----------------------------------------------------------------------------
\* A turn of the loop, from entry k to the one after it.
LEMMA VisitBoot ==
    ASSUME BootAssumption, BootInv, Visit
    PROVE  BootInv'
<1>1. TypeOK'
  BY DEF BootInv, TypeOK, Visit
<1>2. PICK n \in Nat : \E at : Listed(at, n)
  BY DEF BootInv
<1>3. PICK at : Listed(at, n)
  BY <1>2
<1>4. PICK k \in 1 .. n + 1 : WalkedTo(at, n, k)
  BY <1>3 DEF Listed, Visit
<1>5. k \in 1 .. n /\ cursor = at[k] /\ cursor \in Spawned
  BY <1>3, <1>4, Entries DEF WalkedTo, Entry, Listed, Visit
<1>6. Spawned' = Spawned /\ priority' = priority /\ state[cursor] = "Ready"
  BY <1>5 DEF BootInv, ReadyUntilLaunch, Visit, Spawned
<1>7. Linked(at, n)'
  BY <1>3, <1>6 DEF Listed, Linked, Visit, Entry
<1>8. cursor' = Entry(at, n, k + 1)
  BY <1>3, <1>5 DEF Listed, Linked, Visit
<1>9. \A b \in Spawned : b \in Tcbs /\ b # Null /\ priority[b] \in Nat
  BY BootConstants DEF Spawned, BootInv, TypeOK
<1>10. bestPrio \in Nat /\ bestPrio' \in Nat
  BY <1>5, <1>9 DEF BootInv, TypeOK, Visit
<1>11. \A i \in 1 .. n : i < k + 1 => bestPrio' <= priority[at[i]]
  <2> SUFFICES ASSUME NEW i \in 1 .. n, i < k + 1
               PROVE  bestPrio' <= priority[at[i]]
    OBVIOUS
  <2>1. at[i] \in Spawned /\ priority[at[i]] \in Nat
    BY <1>3, <1>9, Entries DEF Listed
  <2>2. i < k => bestPrio <= priority[at[i]]
    BY <1>4 DEF WalkedTo
  <2>3. bestPrio' <= bestPrio /\ bestPrio' <= priority[cursor]
    BY <1>5, <1>6, <1>9, <1>10 DEF Visit, IsBetter
  <2> QED
    BY <1>5, <1>10, <2>1, <2>2, <2>3
<1>12. /\ best' = Null => bestPrio' = MaxPrio
       /\ best' # Null => best' \in Spawned /\ bestPrio' = priority[best']
  BY <1>4, <1>5, <1>9 DEF Visit, WalkedTo
<1>13. WalkedTo(at, n, k + 1)'
  BY <1>6, <1>8, <1>11, <1>12 DEF WalkedTo, Entry
<1>14. (\E j \in Nat : \E w : Listed(w, j))'
  BY <1>5, <1>7, <1>13 DEF Listed
<1>15. ReadyUntilLaunch' /\ FirstIsHighest'
  BY <1>6 DEF BootInv, ReadyUntilLaunch, FirstIsHighest, Visit
<1> QED
  BY <1>1, <1>14, <1>15 DEF BootInv

LEMMA LaunchBoot ==
    ASSUME BootAssumption, BootInv, Launch
    PROVE  BootInv'
<1>1. PICK n \in Nat : \E at : Listed(at, n)
  BY DEF BootInv
<1>2. PICK at : Listed(at, n)
  BY <1>1
<1>3. PICK k \in 1 .. n + 1 : WalkedTo(at, n, k)
  BY <1>2 DEF Listed, Launch
<1>4. /\ \A i \in 1 .. n : at[i] \in Spawned
      /\ \A b \in Spawned : \E i \in 1 .. n : at[i] = b
  BY <1>2, Entries DEF Listed
<1>5. \A b \in Spawned : b # Null
  BY BootConstants DEF Spawned
<1>6. k = n + 1
  BY <1>3, <1>4, <1>5 DEF Launch, WalkedTo, Entry
<1>7. \A b \in Spawned : bestPrio <= priority[b] /\ priority[b] \in 0 .. MaxPrio
  BY <1>3, <1>4, <1>6 DEF WalkedTo, Spawned, BootInv, TypeOK
<1>8. best # Null => best \in Spawned /\ bestPrio = priority[best]
  BY <1>3 DEF WalkedTo
<1>9. TypeOK' /\ Spawned' = Spawned
  BY <1>8 DEF BootInv, TypeOK, Launch, Spawned
<1>10. Linked(at, n)' /\ phase' \in {"run", "fault"}
  BY <1>2, <1>9 DEF Listed, Linked, Launch, Entry
<1>11. (\E j \in Nat : \E w : Listed(w, j))'
  BY <1>10 DEF Listed
<1>12. FirstIsHighest'
  <2>1. best = Null => bestPrio = MaxPrio
    BY <1>3 DEF WalkedTo
  <2>2. CASE best # Null
    BY <1>7, <1>8, <1>9, <2>2 DEF Launch, FirstIsHighest
  <2>3. CASE best = Null
    BY <1>7, <1>9, <2>1, <2>3, BootConstants DEF Launch, FirstIsHighest
  <2> QED
    BY <2>2, <2>3
<1> QED
  BY <1>9, <1>10, <1>11, <1>12 DEF BootInv, ReadyUntilLaunch

LEMMA NextBoot ==
    ASSUME BootAssumption, BootInv, IdleComesLast, [Next]_vars
    PROVE  BootInv' /\ IdleComesLast'
<1>1. CASE UNCHANGED vars
  <2>1. Spawned' = Spawned
    BY <1>1 DEF vars, Spawned
  <2>2. ASSUME NEW n \in Nat, NEW at, Listed(at, n)
        PROVE  Listed(at, n)'
    BY <1>1, <2>1, <2>2 DEF vars, Listed, Linked, WalkedTo, Entry
  <2>3. TypeOK' /\ ReadyUntilLaunch' /\ FirstIsHighest' /\ IdleComesLast'
    BY <1>1, <2>1 DEF vars, BootInv, TypeOK, ReadyUntilLaunch, FirstIsHighest, IdleComesLast
  <2> QED
    BY <2>2, <2>3 DEF BootInv
<1>2. ASSUME NEW b \in UserTcbs, NEW p \in Priorities, Spawn(b, p)
      PROVE  BootInv' /\ IdleComesLast'
  <2>1. b # IdleTcb
    BY DEF BootAssumption
  <2>2. BootInv'
    BY <1>2, SpawnBoot
  <2>3. phase = "main" /\ state'[IdleTcb] = state[IdleTcb]
    BY <1>2, <2>1, BootConstants DEF Spawn, SpawnInto, BootInv, TypeOK
  <2> QED
    BY <2>2, <2>3 DEF IdleComesLast
<1>3. CASE Start
  BY <1>3, StartBoot DEF Start, IdleComesLast
<1>4. CASE Visit
  BY <1>4, VisitBoot DEF Visit, IdleComesLast
<1>5. CASE Launch
  BY <1>5, LaunchBoot DEF Launch, IdleComesLast
<1> QED
  BY <1>1, <1>2, <1>3, <1>4, <1>5 DEF Next

LEMMA BootInvHolds ==
    ASSUME BootAssumption
    PROVE  Spec => []BootInv
<1>1. Init => BootInv /\ IdleComesLast
  BY InitBoot, BootConstants DEF Init, IdleComesLast
<1>2. BootInv /\ IdleComesLast /\ [Next]_vars => BootInv' /\ IdleComesLast'
  BY NextBoot
<1> QED
  BY <1>1, <1>2, PTL DEF Spec

\* However many tasks main spawns, ALL_TASKS is a list of them, each once, that ends.
THEOREM AllTasksIsAList ==
    ASSUME BootAssumption
    PROVE  Spec => []ListIsChain
<1>1. BootInv => ListIsChain
  <2> SUFFICES ASSUME BootInv PROVE ListIsChain
    OBVIOUS
  <2>1. PICK n \in Nat : \E at : Linked(at, n)
    BY DEF BootInv, Listed
  <2>2. PICK at : Linked(at, n)
    BY <2>1
  <2>3. Cardinality(Spawned) = n
    <3>1. ExistsBijection(1 .. n, Spawned)
      BY <2>2 DEF Linked, ExistsBijection
    <3> QED
      BY <3>1, FS_CountingElements
  <2>4. n = 0 => allTasks = Null
    BY <2>2 DEF Linked, Entry
  <2>5. n # 0 => /\ at \in Bijection(1 .. n, Spawned)
                 /\ allTasks = at[1]
                 /\ \A i \in 1 .. n - 1 : allNext[at[i]] = at[i + 1]
                 /\ allNext[at[n]] = Null
    BY <2>2 DEF Linked, Entry
  <2> QED
    BY <2>3, <2>4, <2>5 DEF ListIsChain, BootInv
<1> QED
  BY <1>1, BootInvHolds, PTL

\* The task that svc_first_task_sp starts is one that no spawned task outranks, and it
\* finds none, and dereferences a null pointer, only if none is above the idle task.
THEOREM NobodyOutranksTheFirst ==
    ASSUME BootAssumption
    PROVE  Spec => []FirstIsHighest
<1>1. BootInv => FirstIsHighest
  BY DEF BootInv
<1> QED
  BY <1>1, BootInvHolds, PTL
=============================================================================
