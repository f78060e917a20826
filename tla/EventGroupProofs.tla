-------------------------- MODULE EventGroupProofs --------------------------
(***************************************************************************)
(* EventGroup, for every number of tasks and flags, every mask and every   *)
(* workload of tasks and interrupt handlers.                               *)
(***************************************************************************)
EXTENDS EventGroup, KernelProofs

-----------------------------------------------------------------------------
(***************************************************************************)
(* What a scan of a list does, by induction over its entries.              *)
(***************************************************************************)
ScanType == [bits : SUBSET Flags, stay : Seq(Users), given : [Users -> SUBSET Flags]]

\* g is what a scan has done after each entry of the list.
Records(g, which, list, b) ==
    g = [n \in 0 .. Len(list) |->
            IF n = 0 THEN Unscanned(b) ELSE Visit(which, g[n - 1], list[n])]

\* A list has a record: the definition of Scan is one of a function.
LEMMA ScanRecorded ==
    ASSUME NEW which, NEW list \in Seq(Users), NEW b
    PROVE  \E g : Records(g, which, list, b) /\ Scan(which, list, b) = g[Len(list)]
<1> DEFINE Upto(g, n) ==
              \A k \in 0 .. n : g[k] = IF k = 0 THEN Unscanned(b) ELSE Visit(which, g[k - 1], list[k])
           S == {n \in 0 .. Len(list) : \A g : ~Upto(g, n)}
<1>1. Len(list) \in Nat
  OBVIOUS
<1>2. ASSUME S # {}
      PROVE  FALSE
  <2>1. PICK n \in S : \A m \in S : n <= m
    <3>1. S \in SUBSET Nat
      BY <1>1
    <3> QED
      BY <1>2, <3>1, LeastNumber
  <2>2. CASE n = 0
    <3>1. Upto([k \in 0 .. 0 |-> Unscanned(b)], 0)
      OBVIOUS
    <3> QED
      BY <2>1, <2>2, <3>1
  <2>3. CASE n # 0
    <3>1. n - 1 \in 0 .. Len(list) /\ ~(n <= n - 1) /\ n \in Nat
      BY <1>1, <2>1, <2>3
    <3>2. PICK h : Upto(h, n - 1)
      BY <2>1, <3>1
    <3> DEFINE g == [k \in 0 .. n |-> IF k = n THEN Visit(which, h[n - 1], list[n]) ELSE h[k]]
    <3>3. \A k \in 0 .. n : g[k] = IF k = n THEN Visit(which, h[n - 1], list[n]) ELSE h[k]
      OBVIOUS
    <3> HIDE DEF g
    <3>4. ASSUME NEW k \in 0 .. n
          PROVE  g[k] = IF k = 0 THEN Unscanned(b) ELSE Visit(which, g[k - 1], list[k])
      <4>1. CASE k = n
        <5>1. n - 1 \in 0 .. n /\ n - 1 # n
          BY <2>3, <3>1
        <5>2. g[n - 1] = h[n - 1]
          BY <3>3, <5>1
        <5> QED
          BY <2>3, <3>3, <4>1, <5>2
      <4>2. CASE k # n /\ k # 0
        <5>1. k - 1 \in 0 .. n /\ k - 1 # n /\ k \in 0 .. n - 1
          BY <3>1, <4>2
        <5>2. g[k - 1] = h[k - 1] /\ g[k] = h[k]
          BY <3>3, <4>2, <5>1
        <5> QED
          BY <3>2, <4>2, <5>1, <5>2
      <4>3. CASE k = 0
        BY <2>3, <3>1, <3>2, <3>3, <4>3
      <4> QED
        BY <4>1, <4>2, <4>3
    <3> QED
      BY <2>1, <3>4
  <2> QED
    BY <2>2, <2>3
<1>3. PICK h : Upto(h, Len(list))
  BY <1>1, <1>2
<1> DEFINE B(g) == [n \in 0 .. Len(list) |->
                      IF n = 0 THEN Unscanned(b) ELSE Visit(which, g[n - 1], list[n])]
           f == [n \in 0 .. Len(list) |-> h[n]]
<1>4. f = B(f)
  <2>1. \A n \in 0 .. Len(list) : n # 0 => n - 1 \in 0 .. Len(list)
    BY <1>1
  <2>2. \A n \in 0 .. Len(list) : f[n] = B(f)[n]
    BY <1>3, <2>1
  <2> QED
    BY <2>2
<1> DEFINE after == CHOOSE g : g = B(g)
<1>5. after = B(after)
  <2> HIDE DEF B, f
  <2> QED
    BY <1>4
<1>6. Scan(which, list, b) = after[Len(list)]
  BY DEF Scan
<1> QED
  BY <1>5, <1>6 DEF Records

\* A list with one more entry at its end.
LEMMA AppendedList ==
    ASSUME NEW w \in Seq(Users), NEW t \in Users, t \notin ToSet(w), IsInjective(w)
    PROVE  /\ Append(w, t) \in Seq(Users)
           /\ ToSet(Append(w, t)) = ToSet(w) \cup {t}
           /\ IsInjective(Append(w, t))
<1> DEFINE a == Append(w, t)
           n == Len(w)
<1>1. /\ n \in Nat
      /\ a \in Seq(Users)
      /\ DOMAIN a = 1 .. n + 1 /\ DOMAIN w = 1 .. n
      /\ \A i \in 1 .. n + 1 : a[i] = IF i = n + 1 THEN t ELSE w[i]
  OBVIOUS
<1> HIDE DEF a, n
<1>2. \A i \in 1 .. n : w[i] # t
  BY <1>1 DEF ToSet
<1>3. ToSet(a) = ToSet(w) \cup {t}
  <2>1. n + 1 \in 1 .. n + 1 /\ \A i \in 1 .. n + 1 : i = n + 1 \/ i \in 1 .. n
    BY <1>1
  <2>2. \A i \in 1 .. n : i \in 1 .. n + 1 /\ a[i] = w[i]
    BY <1>1
  <2> QED
    BY <1>1, <2>1, <2>2 DEF ToSet
<1>4. IsInjective(a)
  BY <1>1, <1>2 DEF IsInjective
<1> QED
  BY <1>1, <1>3, <1>4 DEF a

\* What one visit does to a scan.
LEMMA ServedVisit ==
    ASSUME waitPtr \in [Users -> SUBSET Flags],
           NEW which \in {"any", "all"}, NEW s \in ScanType, NEW t \in Users,
           Serves(which, s.bits, t)
    PROVE  /\ Visit(which, s, t).bits = s.bits \ waitPtr[t]
           /\ Visit(which, s, t).stay = s.stay
           /\ Visit(which, s, t).given = [s.given EXCEPT ![t] = s.bits \cap waitPtr[t]]
           /\ Visit(which, s, t) \in ScanType
<1> DEFINE given == [s.given EXCEPT ![t] = s.bits \cap waitPtr[t]]
<1>1. /\ s.bits \in SUBSET Flags /\ s.given \in [Users -> SUBSET Flags]
      /\ s.stay \in Seq(Users)
      /\ s = [bits |-> s.bits, stay |-> s.stay, given |-> s.given]
  BY DEF ScanType
<1>2. Visit(which, s, t) = [bits |-> s.bits \ waitPtr[t], stay |-> s.stay, given |-> given]
  BY <1>1 DEF Visit, Gives
<1>3. given \in [Users -> SUBSET Flags] /\ s.bits \ waitPtr[t] \in SUBSET Flags
  BY <1>1
<1> HIDE DEF given
<1>4. Visit(which, s, t) \in ScanType
  BY <1>1, <1>2, <1>3 DEF ScanType
<1> QED
  BY <1>2, <1>4 DEF given

LEMMA UnservedVisit ==
    ASSUME NEW which \in {"any", "all"}, NEW s \in ScanType, NEW t \in Users,
           ~Serves(which, s.bits, t)
    PROVE  /\ Visit(which, s, t).bits = s.bits
           /\ Visit(which, s, t).stay = Append(s.stay, t)
           /\ Visit(which, s, t).given = s.given
           /\ Visit(which, s, t) \in ScanType
<1>1. Visit(which, s, t) = [s EXCEPT !.stay = Append(s.stay, t)]
  BY DEF Visit, Stays
<1>2. Append(s.stay, t) \in Seq(Users)
  BY DEF ScanType
<1> QED
  BY <1>1, <1>2 DEF ScanType

\* After n entries: the flags were handed out without overlap, what is left is in
\* bits, and the tasks that stay are those that were given nothing.
ScanInv(s, which, list, b, n) ==
    /\ s \in ScanType
    /\ IsInjective(s.stay)
    /\ \A t \in Users :
          /\ t \in ToSet(s.stay) <=> s.given[t] = {} /\ \E k \in 1 .. n : list[k] = t
          /\ s.given[t] # {} => \E k \in 1 .. n : list[k] = t
          /\ s.given[t] \subseteq waitPtr[t] \cap b
          /\ which = "all" /\ s.given[t] # {} => s.given[t] = waitPtr[t]
          /\ t \in ToSet(s.stay) => ~Serves(which, s.bits, t)
    /\ \A t, u \in Users : t # u => s.given[t] \cap s.given[u] = {}
    /\ s.bits \subseteq b
    /\ \A f \in b : f \in s.bits <=> \A t \in Users : f \notin s.given[t]

LEMMA VisitKeeps ==
    ASSUME waitPtr \in [Users -> SUBSET Flags],
           NEW which \in {"any", "all"}, NEW list \in Seq(Users), IsInjective(list),
           \A t \in ToSet(list) : waitPtr[t] # {},
           NEW b \in SUBSET Flags, NEW s, NEW n \in 1 .. Len(list),
           ScanInv(s, which, list, b, n - 1),
           NEW t, t = list[n], NEW v, v = Visit(which, s, t)
    PROVE  ScanInv(v, which, list, b, n)
<1>1. /\ t \in Users /\ waitPtr[t] # {} /\ waitPtr[t] \subseteq Flags
      /\ Len(list) \in Nat /\ n \in Nat
      /\ \A k \in 1 .. n : k = n \/ k \in 1 .. n - 1
      /\ \A k \in 1 .. n - 1 : k \in 1 .. n /\ list[k] # t
      /\ n \in 1 .. n
  BY DEF ToSet, IsInjective
<1>2. /\ s \in ScanType /\ s.given[t] = {} /\ t \notin ToSet(s.stay)
      /\ s.stay \in Seq(Users) /\ IsInjective(s.stay)
      /\ s.bits \in SUBSET Flags /\ s.given \in [Users -> SUBSET Flags]
  BY <1>1 DEF ScanInv, ScanType
<1>3. \A u \in Users : (\E k \in 1 .. n : list[k] = u)
                          <=> u = t \/ \E k \in 1 .. n - 1 : list[k] = u
  BY <1>1
<1>4. CASE Serves(which, s.bits, t)
  <2>1. /\ v.bits = s.bits \ waitPtr[t]
        /\ v.stay = s.stay
        /\ v \in ScanType
        /\ \A u \in Users : v.given[u] = IF u = t THEN s.bits \cap waitPtr[t] ELSE s.given[u]
    <3>1. t \in Users /\ s \in ScanType
      BY <1>1, <1>2
    <3>2. /\ Visit(which, s, t).bits = s.bits \ waitPtr[t]
          /\ Visit(which, s, t).stay = s.stay
          /\ Visit(which, s, t).given = [s.given EXCEPT ![t] = s.bits \cap waitPtr[t]]
          /\ Visit(which, s, t) \in ScanType
      BY <1>2, <1>4, <3>1, ServedVisit, SMTT(30)
    <3> QED
      BY <1>2, <3>2
  <2>2. s.bits \cap waitPtr[t] # {}
    BY <1>1, <1>4 DEF Serves
  <2>3. which = "all" => s.bits \cap waitPtr[t] = waitPtr[t]
    BY <1>4 DEF Serves
  <2>4. ASSUME NEW u \in Users
        PROVE  /\ u \in ToSet(v.stay) <=> v.given[u] = {} /\ \E k \in 1 .. n : list[k] = u
               /\ v.given[u] # {} => \E k \in 1 .. n : list[k] = u
               /\ v.given[u] \subseteq waitPtr[u] \cap b
               /\ which = "all" /\ v.given[u] # {} => v.given[u] = waitPtr[u]
               /\ u \in ToSet(v.stay) => ~Serves(which, v.bits, u)
    <3>1. CASE u = t
      <4>1. v.given[u] = s.bits \cap waitPtr[t] /\ u \notin ToSet(v.stay)
        BY <1>2, <2>1, <3>1
      <4>2. s.bits \subseteq b
        BY DEF ScanInv
      <4> QED
        BY <1>3, <2>2, <2>3, <3>1, <4>1, <4>2
    <3>2. CASE u # t
      <4>1. v.given[u] = s.given[u] /\ ToSet(v.stay) = ToSet(s.stay)
        BY <2>1, <3>2
      <4>2. /\ u \in ToSet(s.stay) <=> s.given[u] = {} /\ \E k \in 1 .. n - 1 : list[k] = u
            /\ s.given[u] # {} => \E k \in 1 .. n - 1 : list[k] = u
            /\ s.given[u] \subseteq waitPtr[u] \cap b
            /\ which = "all" /\ s.given[u] # {} => s.given[u] = waitPtr[u]
            /\ u \in ToSet(s.stay) => ~Serves(which, s.bits, u)
        BY DEF ScanInv
      <4>3. ~Serves(which, s.bits, u) => ~Serves(which, v.bits, u)
        BY <2>1 DEF Serves
      <4> QED
        BY <1>3, <3>2, <4>1, <4>2, <4>3
    <3> QED
      BY <3>1, <3>2
  <2>5. \A f \in b : f \in s.bits <=> \A u \in Users : f \notin s.given[u]
    BY DEF ScanInv
  <2>6. ASSUME NEW u \in Users, NEW w \in Users, u # w
        PROVE  v.given[u] \cap v.given[w] = {}
    <3>1. s.given[u] \cap s.given[w] = {}
      BY <2>6 DEF ScanInv
    <3>2. \A x \in Users : s.bits \cap s.given[x] = {}
      BY <2>5 DEF ScanInv
    <3> QED
      BY <2>1, <2>6, <3>1, <3>2
  <2>7. ASSUME NEW f \in b
        PROVE  f \in v.bits <=> \A u \in Users : f \notin v.given[u]
    <3>1. f \in v.bits <=> f \in s.bits /\ f \notin waitPtr[t]
      BY <2>1
    <3>2. CASE f \in s.bits
      BY <1>1, <2>1, <2>5, <3>1, <3>2
    <3>3. CASE f \notin s.bits
      <4>1. PICK u \in Users : f \in s.given[u]
        BY <2>5, <3>3
      <4>2. u # t
        BY <1>2, <4>1
      <4> QED
        BY <2>1, <3>1, <3>3, <4>1, <4>2
    <3> QED
      BY <3>2, <3>3
  <2>8. v.bits \subseteq b /\ IsInjective(v.stay)
    BY <2>1 DEF ScanInv
  <2> QED
    BY <2>1, <2>4, <2>6, <2>7, <2>8 DEF ScanInv
<1>5. CASE ~Serves(which, s.bits, t)
  <2>1. /\ v.bits = s.bits
        /\ v.stay = Append(s.stay, t)
        /\ v \in ScanType
        /\ v.given = s.given
    <3>1. t \in Users /\ s \in ScanType
      BY <1>1, <1>2
    <3> QED
      BY <1>2, <1>5, <3>1, UnservedVisit
  <2>2. ToSet(v.stay) = ToSet(s.stay) \cup {t} /\ IsInjective(v.stay)
    BY <1>1, <1>2, <2>1, AppendedList
  <2>3. ASSUME NEW u \in Users
        PROVE  /\ u \in ToSet(v.stay) <=> v.given[u] = {} /\ \E k \in 1 .. n : list[k] = u
               /\ v.given[u] # {} => \E k \in 1 .. n : list[k] = u
               /\ v.given[u] \subseteq waitPtr[u] \cap b
               /\ which = "all" /\ v.given[u] # {} => v.given[u] = waitPtr[u]
               /\ u \in ToSet(v.stay) => ~Serves(which, v.bits, u)
    <3>1. /\ u \in ToSet(s.stay) <=> s.given[u] = {} /\ \E k \in 1 .. n - 1 : list[k] = u
          /\ s.given[u] # {} => \E k \in 1 .. n - 1 : list[k] = u
          /\ s.given[u] \subseteq waitPtr[u] \cap b
          /\ which = "all" /\ s.given[u] # {} => s.given[u] = waitPtr[u]
          /\ u \in ToSet(s.stay) => ~Serves(which, s.bits, u)
      BY DEF ScanInv
    <3>2. (\E k \in 1 .. n : list[k] = u) <=> u = t \/ \E k \in 1 .. n - 1 : list[k] = u
      BY <1>3
    <3>3. u \in ToSet(v.stay) <=> u \in ToSet(s.stay) \/ u = t
      BY <2>2
    <3> QED
      BY <1>2, <1>5, <2>1, <3>1, <3>2, <3>3
  <2>4. /\ \A u, w \in Users : u # w => v.given[u] \cap v.given[w] = {}
        /\ v.bits \subseteq b
        /\ \A f \in b : f \in v.bits <=> \A u \in Users : f \notin v.given[u]
    BY <2>1 DEF ScanInv
  <2> QED
    BY <2>1, <2>2, <2>3, <2>4 DEF ScanInv
<1> QED
  BY <1>4, <1>5

\* What a whole scan returns.
LEMMA Scanned ==
    ASSUME waitPtr \in [Users -> SUBSET Flags],
           NEW which \in {"any", "all"}, NEW list \in Seq(Users), IsInjective(list),
           \A t \in ToSet(list) : waitPtr[t] # {},
           NEW b \in SUBSET Flags
    PROVE  ScanInv(Scan(which, list, b), which, list, b, Len(list))
<1>1. PICK g : Records(g, which, list, b) /\ Scan(which, list, b) = g[Len(list)]
  BY ScanRecorded
<1> DEFINE S == {n \in 0 .. Len(list) : ~ScanInv(g[n], which, list, b, n)}
<1>2. Len(list) \in Nat
  OBVIOUS
<1>3. \A n \in 0 .. Len(list) :
         g[n] = IF n = 0 THEN Unscanned(b) ELSE Visit(which, g[n - 1], list[n])
  BY <1>1, Zenon DEF Records
<1>4. ScanInv(g[0], which, list, b, 0)
  <2>1. g[0] = Unscanned(b)
    BY <1>2, <1>3
  <2>2. /\ g[0].bits = b /\ g[0].stay = <<>>
        /\ \A t \in Users : g[0].given[t] = {}
        /\ g[0] \in ScanType
    BY <2>1 DEF Unscanned, ScanType
  <2>3. ToSet(<<>>) = {} /\ IsInjective(<<>>) /\ 1 .. 0 = {}
    BY DEF ToSet, IsInjective
  <2> QED
    BY <2>2, <2>3 DEF ScanInv
<1>5. ASSUME S # {}
      PROVE  FALSE
  <2>1. PICK n \in S : \A m \in S : n <= m
    <3>1. S \in SUBSET Nat
      BY <1>2
    <3> HIDE DEF S
    <3> QED
      BY <1>5, <3>1, LeastNumber
  <2>2. n \in 1 .. Len(list)
    BY <1>2, <1>4, <2>1
  <2>3. n - 1 \in 0 .. Len(list) /\ ~(n <= n - 1)
    BY <1>2, <2>2
  <2>4. ScanInv(g[n - 1], which, list, b, n - 1)
    BY <2>1, <2>3
  <2>5. g[n] = Visit(which, g[n - 1], list[n])
    BY <1>2, <1>3, <2>2
  <2>6. ScanInv(g[n], which, list, b, n)
    BY <2>2, <2>4, <2>5, VisitKeeps
  <2> QED
    BY <2>1, <2>6
<1> QED
  BY <1>1, <1>2, <1>5


-----------------------------------------------------------------------------
(***************************************************************************)
(* The inductive invariant.                                                *)
(***************************************************************************)

\* A task is in one wait at a time and inside that call, its mask is not empty, and
\* wait_ptr of a wait for any of it holds the mask or a part of it.
OneWaitUnderWay ==
    \A t \in Users :
        waiting[t] # NoCall =>
            /\ pc[t] \in {"trigger", "return"}
            /\ waiting[t][2] # {}
            /\ waiting[t][1] = "any" => waitPtr[t] # {} /\ waitPtr[t] \subseteq waiting[t][2]

EventInv ==
    /\ KernelInv
    /\ TypeOK
    /\ BlockedExactlyWaiting
    /\ NoSatisfiedWaiter
    /\ OneWaitUnderWay

\* A call is recognised by its name.
LEMMA NoCallIsNone ==
    /\ \A mask : <<"any", mask>> # NoCall /\ <<"all", mask>> # NoCall
    /\ \A mask, other : <<"any", mask>> # <<"all", other>>
    /\ NoCall[1] = "none" /\ NoCall[2] = {}
BY DEF NoCall

LEMMA InitEvents == ASSUME Init PROVE EventInv
<1>1. KernelInv /\ TypeOK
  BY KernelInitInv DEF Init, TypeOK, KernelInv
<1>2. ToSet(anyList) = {} /\ ToSet(allList) = {} /\ IsInjective(anyList) /\ IsInjective(allList)
  BY DEF Init, ToSet, IsInjective
<1>3. \A t \in Users : state[t] = "Ready" /\ waiting[t] = NoCall
  BY KernelConstants DEF Init, KernelInit
<1>4. BlockedExactlyWaiting /\ NoSatisfiedWaiter /\ OneWaitUnderWay
  BY <1>2, <1>3 DEF BlockedExactlyWaiting, NoSatisfiedWaiter, OneWaitUnderWay
<1> QED
  BY <1>1, <1>4 DEF EventInv

\* Steps that change no group and no Blocked task.
LEMMA QuietStepEvents ==
    ASSUME EventInv, KernelInv', UNCHANGED eventVars,
           \A t \in Users :
              /\ state'[t] = "Blocked" <=> state[t] = "Blocked"
              /\ pc[t] \in {"trigger", "return"} => pc'[t] \in {"trigger", "return"}
    PROVE  EventInv'
<1>1. TypeOK'
  BY DEF EventInv, KernelInv, TypeOK, eventVars
<1>2. BlockedExactlyWaiting'
  BY DEF EventInv, BlockedExactlyWaiting, eventVars
<1>3. NoSatisfiedWaiter' /\ OneWaitUnderWay'
  BY DEF EventInv, NoSatisfiedWaiter, OneWaitUnderWay, eventVars
<1> QED
  BY <1>1, <1>2, <1>3 DEF EventInv

\* A task in its own code that can make a call is Running and waits for nothing.
LEMMA CallerIsFree ==
    ASSUME EventInv, NEW t \in Users, Calls(t)
    PROVE  /\ t \in Tasks
           /\ state[t] = "Running"
           /\ waiting[t] = NoCall
           /\ t \notin ToSet(anyList) /\ t \notin ToSet(allList)
<1>1. t \in Tasks /\ state[t] = "Running"
  BY KernelConstants, ThreadRuns DEF EventInv, KernelInv, Calls
<1>2. waiting[t] = NoCall
  BY DEF Calls, EventInv, OneWaitUnderWay
<1> QED
  BY <1>1, <1>2 DEF EventInv, BlockedExactlyWaiting

\* Flags are cleared, or taken without waiting.
LEMMA FewerFlags ==
    ASSUME EventInv, NEW t \in Users, Calls(t),
           bits' \subseteq bits, UNCHANGED <<kernelVars, anyList, allList, waiting>>,
           waitPtr' \in [Users -> SUBSET Flags],
           \A u \in Users : u # t => waitPtr'[u] = waitPtr[u]
    PROVE  EventInv'
<1>1. waiting[t] = NoCall /\ t \notin ToSet(anyList) /\ t \notin ToSet(allList)
      /\ state[t] = "Running"
  BY CallerIsFree
<1>2. KernelInv' /\ state' = state /\ pc' = pc
  BY StutterInv DEF EventInv, kernelVars
<1>3. TypeOK'
  BY <1>2 DEF EventInv, TypeOK, KernelInv
<1>4. \A u \in Users : u \in ToSet(anyList) \cup ToSet(allList) => waitPtr'[u] = waitPtr[u]
  BY <1>1
<1>5. \A u \in Users : waiting[u] # NoCall => waitPtr'[u] = waitPtr[u]
  BY <1>1
<1>a. ToSet(anyList) \subseteq Users /\ ToSet(allList) \subseteq Users
  BY DEF EventInv, TypeOK, ToSet
<1>6. NoSatisfiedWaiter'
  BY <1>4, <1>a DEF EventInv, NoSatisfiedWaiter
<1>7. OneWaitUnderWay'
  BY <1>2, <1>5 DEF EventInv, OneWaitUnderWay
<1>8. BlockedExactlyWaiting'
  <2>1. ASSUME NEW u \in Users
        PROVE  /\ u \in ToSet(anyList)
                     <=> state[u] = "Blocked" /\ waiting[u] = <<"any", waitPtr'[u]>>
               /\ u \in ToSet(allList)
                     <=> state[u] = "Blocked" /\ waiting[u] = <<"all", waitPtr'[u]>>
               /\ state[u] = "Blocked" => u \in ToSet(anyList) \cup ToSet(allList)
    <3>1. CASE u = t
      BY <1>1, <3>1
    <3>2. CASE u # t
      BY <3>2 DEF EventInv, BlockedExactlyWaiting
    <3> QED
      BY <3>1, <3>2
  <2> QED
    BY <1>2, <2>1 DEF EventInv, BlockedExactlyWaiting
<1> QED
  BY <1>2, <1>3, <1>6, <1>7, <1>8 DEF EventInv

\* What a wait that blocks does to the kernel and to the caller's own variables.
LEMMA BlockedCaller ==
    ASSUME EventInv, NEW t \in Users, NEW which \in {"any", "all"},
           NEW mask \in SUBSET Flags, Blocks(t, which, mask)
    PROVE  /\ t \in Tasks
           /\ waiting[t] = NoCall
           /\ t \notin ToSet(anyList) /\ t \notin ToSet(allList)
           /\ KernelInv'
           /\ \A u \in Users :
                 /\ state'[u] = IF u = t THEN "Blocked" ELSE state[u]
                 /\ pc'[u] = IF u = t THEN "trigger" ELSE pc[u]
                 /\ waitPtr'[u] = IF u = t THEN mask ELSE waitPtr[u]
                 /\ waiting'[u] = IF u = t THEN <<which, mask>> ELSE waiting[u]
           /\ waitPtr' \in [Users -> SUBSET Flags]
           /\ waiting' \in [Users -> ({"any", "all"} \X SUBSET Flags) \cup {NoCall}]
           /\ bits' = bits
<1>1. /\ t \in Tasks /\ waiting[t] = NoCall
      /\ t \notin ToSet(anyList) /\ t \notin ToSet(allList)
  BY CallerIsFree DEF Blocks
<1>2. Parks(t)
  BY DEF Blocks, Parks
<1>3. /\ KernelInv'
      /\ \A u \in Users : /\ state'[u] = IF u = t THEN "Blocked" ELSE state[u]
                          /\ pc'[u] = IF u = t THEN "trigger" ELSE pc[u]
  BY <1>2, ParksInv, KernelConstants DEF EventInv
<1>4. /\ waitPtr' \in [Users -> SUBSET Flags]
      /\ \A u \in Users : waitPtr'[u] = IF u = t THEN mask ELSE waitPtr[u]
  BY DEF Blocks, EventInv, TypeOK
<1>5. /\ waiting' \in [Users -> ({"any", "all"} \X SUBSET Flags) \cup {NoCall}]
      /\ \A u \in Users : waiting'[u] = IF u = t THEN <<which, mask>> ELSE waiting[u]
  <2>1. <<which, mask>> \in {"any", "all"} \X SUBSET Flags
    OBVIOUS
  <2>2. waiting \in [Users -> ({"any", "all"} \X SUBSET Flags) \cup {NoCall}]
    BY DEF EventInv, TypeOK
  <2>3. waiting' = [waiting EXCEPT ![t] = <<which, mask>>]
    BY DEF Blocks
  <2> QED
    BY <2>1, <2>2, <2>3
<1> QED
  BY <1>1, <1>3, <1>4, <1>5 DEF Blocks

\* A list of waiters with the caller at its head.
LEMMA PushedWaiter ==
    ASSUME NEW list \in Seq(Users), IsInjective(list), NEW t \in Users, t \notin ToSet(list)
    PROVE  /\ Cons(t, list) \in Seq(Users)
           /\ ToSet(Cons(t, list)) = ToSet(list) \cup {t}
           /\ IsInjective(Cons(t, list))
BY PushedList

LEMMA AnyBlocksEvents ==
    ASSUME EventInv, NEW t \in Users, NEW mask \in SUBSET Flags, mask # {},
           AnyBlocks(t, mask)
    PROVE  EventInv'
<1>0. Blocks(t, "any", mask) /\ mask \cap bits = {} /\ allList' = allList
      /\ anyList' = Cons(t, anyList)
  BY DEF AnyBlocks
<1>1. /\ t \in Tasks
      /\ waiting[t] = NoCall
      /\ t \notin ToSet(anyList) /\ t \notin ToSet(allList)
      /\ KernelInv'
      /\ \A u \in Users :
            /\ state'[u] = IF u = t THEN "Blocked" ELSE state[u]
            /\ pc'[u] = IF u = t THEN "trigger" ELSE pc[u]
            /\ waitPtr'[u] = IF u = t THEN mask ELSE waitPtr[u]
            /\ waiting'[u] = IF u = t THEN <<"any", mask>> ELSE waiting[u]
      /\ waitPtr' \in [Users -> SUBSET Flags]
      /\ waiting' \in [Users -> ({"any", "all"} \X SUBSET Flags) \cup {NoCall}]
      /\ bits' = bits
  BY <1>0, BlockedCaller
<1>2. /\ anyList \in Seq(Users) /\ IsInjective(anyList)
      /\ allList \in Seq(Users) /\ IsInjective(allList)
      /\ ToSet(anyList) \subseteq Users /\ ToSet(allList) \subseteq Users
  BY DEF EventInv, TypeOK, BlockedExactlyWaiting, ToSet
<1>3. anyList' \in Seq(Users) /\ ToSet(anyList') = ToSet(anyList) \cup {t} /\ IsInjective(anyList')
  BY <1>0, <1>1, <1>2, PushedWaiter
<1>4. TypeOK'
  BY <1>0, <1>1, <1>3 DEF EventInv, TypeOK, KernelInv
<1>5. NoSatisfiedWaiter'
  BY <1>0, <1>1, <1>2, <1>3 DEF EventInv, NoSatisfiedWaiter
<1>6. OneWaitUnderWay'
  BY <1>1, NoCallIsNone DEF EventInv, OneWaitUnderWay
<1>7. BlockedExactlyWaiting'
  <2>1. ASSUME NEW u \in Users
        PROVE  /\ u \in ToSet(anyList')
                     <=> state'[u] = "Blocked" /\ waiting'[u] = <<"any", waitPtr'[u]>>
               /\ u \in ToSet(allList')
                     <=> state'[u] = "Blocked" /\ waiting'[u] = <<"all", waitPtr'[u]>>
               /\ state'[u] = "Blocked" => u \in ToSet(anyList') \cup ToSet(allList')
    <3>1. CASE u = t
      BY <1>0, <1>1, <1>3, <3>1, NoCallIsNone
    <3>2. CASE u # t
      BY <1>0, <1>1, <1>3, <3>2 DEF EventInv, BlockedExactlyWaiting
    <3> QED
      BY <3>1, <3>2
  <2> QED
    BY <1>0, <1>2, <1>3, <2>1 DEF BlockedExactlyWaiting
<1> QED
  BY <1>1, <1>4, <1>5, <1>6, <1>7 DEF EventInv

LEMMA AllBlocksEvents ==
    ASSUME EventInv, NEW t \in Users, NEW mask \in SUBSET Flags, mask # {},
           AllBlocks(t, mask)
    PROVE  EventInv'
<1>0. Blocks(t, "all", mask) /\ ~(mask \subseteq bits) /\ anyList' = anyList
      /\ allList' = Cons(t, allList)
  BY DEF AllBlocks
<1>1. /\ t \in Tasks
      /\ waiting[t] = NoCall
      /\ t \notin ToSet(anyList) /\ t \notin ToSet(allList)
      /\ KernelInv'
      /\ \A u \in Users :
            /\ state'[u] = IF u = t THEN "Blocked" ELSE state[u]
            /\ pc'[u] = IF u = t THEN "trigger" ELSE pc[u]
            /\ waitPtr'[u] = IF u = t THEN mask ELSE waitPtr[u]
            /\ waiting'[u] = IF u = t THEN <<"all", mask>> ELSE waiting[u]
      /\ waitPtr' \in [Users -> SUBSET Flags]
      /\ waiting' \in [Users -> ({"any", "all"} \X SUBSET Flags) \cup {NoCall}]
      /\ bits' = bits
  BY <1>0, BlockedCaller
<1>2. /\ anyList \in Seq(Users) /\ IsInjective(anyList)
      /\ allList \in Seq(Users) /\ IsInjective(allList)
      /\ ToSet(anyList) \subseteq Users /\ ToSet(allList) \subseteq Users
  BY DEF EventInv, TypeOK, BlockedExactlyWaiting, ToSet
<1>3. allList' \in Seq(Users) /\ ToSet(allList') = ToSet(allList) \cup {t} /\ IsInjective(allList')
  BY <1>0, <1>1, <1>2, PushedWaiter
<1>4. TypeOK'
  BY <1>0, <1>1, <1>3 DEF EventInv, TypeOK, KernelInv
<1>5. NoSatisfiedWaiter'
  BY <1>0, <1>1, <1>2, <1>3 DEF EventInv, NoSatisfiedWaiter
<1>6. OneWaitUnderWay'
  BY <1>1, NoCallIsNone DEF EventInv, OneWaitUnderWay
<1>7. BlockedExactlyWaiting'
  <2>1. ASSUME NEW u \in Users
        PROVE  /\ u \in ToSet(anyList')
                     <=> state'[u] = "Blocked" /\ waiting'[u] = <<"any", waitPtr'[u]>>
               /\ u \in ToSet(allList')
                     <=> state'[u] = "Blocked" /\ waiting'[u] = <<"all", waitPtr'[u]>>
               /\ state'[u] = "Blocked" => u \in ToSet(anyList') \cup ToSet(allList')
    <3>1. CASE u = t
      BY <1>0, <1>1, <1>3, <3>1, NoCallIsNone
    <3>2. CASE u # t
      BY <1>0, <1>1, <1>3, <3>2 DEF EventInv, BlockedExactlyWaiting
    <3> QED
      BY <3>1, <3>2
  <2> QED
    BY <1>0, <1>2, <1>3, <2>1 DEF BlockedExactlyWaiting
<1> QED
  BY <1>1, <1>4, <1>5, <1>6, <1>7 DEF EventInv

-----------------------------------------------------------------------------
(***************************************************************************)
(* Setting flags.                                                          *)
(***************************************************************************)

\* The two scans of a set of mask.
AreScans(mask, any, all) == any = ScanAny(bits \cup mask) /\ all = ScanAll(any.bits)

LEMMA BothScans ==
    ASSUME EventInv, NEW mask \in SUBSET Flags,
           NEW any, NEW all, AreScans(mask, any, all)
    PROVE  /\ ScanInv(any, "any", anyList, bits \cup mask, Len(anyList))
           /\ ScanInv(all, "all", allList, any.bits, Len(allList))
           /\ any \in ScanType /\ all \in ScanType
           /\ ToSet(anyList) = {anyList[k] : k \in 1 .. Len(anyList)}
           /\ ToSet(allList) = {allList[k] : k \in 1 .. Len(allList)}
<1>1. /\ waitPtr \in [Users -> SUBSET Flags]
      /\ anyList \in Seq(Users) /\ IsInjective(anyList)
      /\ allList \in Seq(Users) /\ IsInjective(allList)
      /\ bits \cup mask \in SUBSET Flags
  BY DEF EventInv, TypeOK, BlockedExactlyWaiting
<1>2. \A t \in ToSet(anyList) \cup ToSet(allList) : waitPtr[t] # {}
  <2>1. ASSUME NEW t \in ToSet(anyList)
        PROVE  waitPtr[t] # {}
    <3>1. t \in Users /\ waiting[t] = <<"any", waitPtr[t]>>
      BY <1>1 DEF EventInv, BlockedExactlyWaiting, ToSet
    <3> QED
      BY <3>1, NoCallIsNone DEF EventInv, OneWaitUnderWay
  <2>2. ASSUME NEW t \in ToSet(allList)
        PROVE  waitPtr[t] # {}
    <3>1. t \in Users /\ waiting[t] = <<"all", waitPtr[t]>>
      BY <1>1 DEF EventInv, BlockedExactlyWaiting, ToSet
    <3>2. waiting[t][2] # {}
      BY <3>1, NoCallIsNone DEF EventInv, OneWaitUnderWay
    <3> QED
      BY <3>1, <3>2
  <2> QED
    BY <2>1, <2>2
<1>3. ScanInv(any, "any", anyList, bits \cup mask, Len(anyList))
  BY <1>1, <1>2, Scanned DEF AreScans, ScanAny
<1>4. any \in ScanType /\ any.bits \in SUBSET Flags
  BY <1>3 DEF ScanInv, ScanType
<1>5. ScanInv(all, "all", allList, any.bits, Len(allList))
  BY <1>1, <1>2, <1>4, Scanned DEF AreScans, ScanAll
<1>6. all \in ScanType
  BY <1>5 DEF ScanInv
<1>7. /\ ToSet(anyList) = {anyList[k] : k \in 1 .. Len(anyList)}
      /\ ToSet(allList) = {allList[k] : k \in 1 .. Len(allList)}
  <2>1. DOMAIN anyList = 1 .. Len(anyList) /\ DOMAIN allList = 1 .. Len(allList)
    BY <1>1
  <2> QED
    BY <2>1 DEF ToSet
<1> QED
  BY <1>3, <1>4, <1>5, <1>6, <1>7

\* Who is given what, and what stays.
Distributed(mask, any, all) ==
    /\ any.bits \subseteq bits \cup mask /\ all.bits \subseteq any.bits
    /\ any.bits \subseteq Flags
    /\ any.stay \in Seq(Users) /\ IsInjective(any.stay)
    /\ all.stay \in Seq(Users) /\ IsInjective(all.stay)
    /\ \A t \in Users :
          /\ t \in ToSet(any.stay) <=> t \in ToSet(anyList) /\ any.given[t] = {}
          /\ t \in ToSet(all.stay) <=> t \in ToSet(allList) /\ all.given[t] = {}
          /\ any.given[t] # {} => t \in ToSet(anyList)
          /\ all.given[t] # {} => t \in ToSet(allList)
          /\ any.given[t] \subseteq waitPtr[t] \cap (bits \cup mask)
          /\ all.given[t] \subseteq any.bits
          /\ all.given[t] # {} => all.given[t] = waitPtr[t]
          /\ t \in ToSet(any.stay) => waitPtr[t] \cap any.bits = {}
          /\ t \in ToSet(all.stay) => ~(waitPtr[t] \subseteq all.bits)
    /\ \A t, u \in Users : t # u => /\ any.given[t] \cap any.given[u] = {}
                                    /\ all.given[t] \cap all.given[u] = {}
    /\ \A f \in bits \cup mask : f \in any.bits <=> \A t \in Users : f \notin any.given[t]
    /\ \A f \in any.bits : f \in all.bits <=> \A t \in Users : f \notin all.given[t]

LEMMA ScansGive ==
    ASSUME EventInv, NEW mask \in SUBSET Flags, NEW any, NEW all, AreScans(mask, any, all)
    PROVE  Distributed(mask, any, all)
<1>1. /\ ScanInv(any, "any", anyList, bits \cup mask, Len(anyList))
      /\ ScanInv(all, "all", allList, any.bits, Len(allList))
      /\ any \in ScanType /\ all \in ScanType
      /\ ToSet(anyList) = {anyList[k] : k \in 1 .. Len(anyList)}
      /\ ToSet(allList) = {allList[k] : k \in 1 .. Len(allList)}
  BY BothScans
<1>2. /\ any.stay \in Seq(Users) /\ any.bits \subseteq Flags
      /\ all.stay \in Seq(Users)
  BY <1>1 DEF ScanType
<1>3. \A t \in Users : (\E k \in 1 .. Len(anyList) : anyList[k] = t) <=> t \in ToSet(anyList)
  BY <1>1
<1>4. \A t \in Users : (\E k \in 1 .. Len(allList) : allList[k] = t) <=> t \in ToSet(allList)
  BY <1>1
<1>5. ASSUME NEW t \in Users
      PROVE  /\ t \in ToSet(any.stay) <=> t \in ToSet(anyList) /\ any.given[t] = {}
             /\ any.given[t] # {} => t \in ToSet(anyList)
             /\ any.given[t] \subseteq waitPtr[t] \cap (bits \cup mask)
             /\ t \in ToSet(any.stay) => waitPtr[t] \cap any.bits = {}
  BY <1>1, <1>3 DEF ScanInv, Serves
<1>6. ASSUME NEW t \in Users
      PROVE  /\ t \in ToSet(all.stay) <=> t \in ToSet(allList) /\ all.given[t] = {}
             /\ all.given[t] # {} => t \in ToSet(allList)
             /\ all.given[t] \subseteq any.bits
             /\ all.given[t] # {} => all.given[t] = waitPtr[t]
             /\ t \in ToSet(all.stay) => ~(waitPtr[t] \subseteq all.bits)
  BY <1>1, <1>4 DEF ScanInv, Serves
<1>7. /\ any.bits \subseteq bits \cup mask /\ IsInjective(any.stay)
      /\ \A t, u \in Users : t # u => any.given[t] \cap any.given[u] = {}
      /\ \A f \in bits \cup mask : f \in any.bits <=> \A t \in Users : f \notin any.given[t]
  BY <1>1 DEF ScanInv
<1>8. /\ all.bits \subseteq any.bits /\ IsInjective(all.stay)
      /\ \A t, u \in Users : t # u => all.given[t] \cap all.given[u] = {}
      /\ \A f \in any.bits : f \in all.bits <=> \A t \in Users : f \notin all.given[t]
  BY <1>1 DEF ScanInv
<1> QED
  BY <1>2, <1>5, <1>6, <1>7, <1>8 DEF Distributed

\* The tasks that are woken were Blocked.
LEMMA WokenWereBlocked ==
    ASSUME EventInv, NEW mask \in SUBSET Flags,
           NEW any, NEW all, AreScans(mask, any, all)
    PROVE  /\ Woken(mask) = {t \in Users : any.given[t] # {} \/ all.given[t] # {}}
           /\ \A t \in Users : any.given[t] # {} =>
                 /\ state[t] = "Blocked" /\ waiting[t] = <<"any", waitPtr[t]>>
                 /\ all.given[t] = {}
           /\ \A t \in Users : all.given[t] # {} =>
                 /\ state[t] = "Blocked" /\ waiting[t] = <<"all", waitPtr[t]>>
                 /\ any.given[t] = {}
<1>1. Woken(mask) = {t \in Users : any.given[t] # {} \/ all.given[t] # {}}
  BY DEF AreScans, Woken
<1>2. \A t \in Users : /\ any.given[t] # {} => t \in ToSet(anyList)
                       /\ all.given[t] # {} => t \in ToSet(allList)
  <2>1. Distributed(mask, any, all)
    BY ScansGive
  <2> QED
    BY <2>1 DEF Distributed
<1>3. \A t \in Users :
         /\ t \in ToSet(anyList) => state[t] = "Blocked" /\ waiting[t] = <<"any", waitPtr[t]>>
         /\ t \in ToSet(allList) => state[t] = "Blocked" /\ waiting[t] = <<"all", waitPtr[t]>>
  BY DEF EventInv, BlockedExactlyWaiting
<1> QED
  BY <1>1, <1>2, <1>3, NoCallIsNone

LEMMA TaskWakesAllInv ==
    ASSUME KernelInv, NEW t \in Users, Calls(t), NEW W \in SUBSET Users, WakeAll(W),
           \A u \in W : state[u] = "Blocked",
           pc' = pc \/ pc' = [pc EXCEPT ![t] = "trigger"],
           UNCHANGED <<current, left, priority, pendsv, seen>>
    PROVE  KernelInv' /\ \A u \in Users : u # t => pc'[u] = pc[u]
<1>1. current = t /\ ~pendsv /\ seen = {} /\ pc[t] = "user" /\ t \in Tasks /\ t # NoTask
  BY KernelConstants DEF Calls, Thread
<1>2. state[t] = "Running"
  BY ThreadRuns, <1>1 DEF KernelInv, Calls
<1>3. /\ \A u \in Tasks : state'[u] = IF u \in W THEN "Ready" ELSE state[u]
      /\ state' \in [Tasks -> TaskStates]
      /\ slice' \in [Tasks -> 0 .. 255]
      /\ state'[Idle] = state[Idle]
  BY WokenStates
<1>4. pc' \in [Tasks -> Points] /\ \A u \in Users : u # t => pc'[u] = pc[u]
  BY <1>1, KernelConstants DEF KernelInv, KernelTypeOK, Points
<1>5. KernelTypeOK'
  BY <1>1, <1>3, <1>4 DEF KernelInv, KernelTypeOK
<1>6. t \notin W
  BY <1>2
<1>7. RunsOnlyWhenRunning' /\ NothingBeforeLaunch'
  BY <1>1, <1>2, <1>3, <1>6 DEF KernelInv, RunsOnlyWhenRunning, NothingBeforeLaunch
<1> QED
  BY <1>4, <1>5, <1>7 DEF KernelInv

LEMMA IsrWakesAllInv ==
    ASSUME KernelInv, NEW W \in SUBSET Users, WakeAll(W),
           \A u \in W : state[u] = "Blocked",
           pendsv' \in BOOLEAN, pendsv => pendsv', pendsv' => pendsv \/ W # {},
           UNCHANGED <<current, left, priority, seen, pc>>
    PROVE  KernelInv'
<1>1. /\ \A u \in Tasks : state'[u] = IF u \in W THEN "Ready" ELSE state[u]
      /\ state' \in [Tasks -> TaskStates]
      /\ slice' \in [Tasks -> 0 .. 255]
      /\ state'[Idle] = state[Idle]
  BY WokenStates
<1>2. current = NoTask => W = {}
  BY KernelConstants DEF KernelInv, NothingBeforeLaunch
<1>3. KernelTypeOK'
  BY <1>1, <1>2 DEF KernelInv, KernelTypeOK
<1>4. NothingBeforeLaunch'
  BY <1>1, <1>2 DEF KernelInv, NothingBeforeLaunch
<1>5. RunsOnlyWhenRunning'
  <2>1. \A t \in Tasks : state'[t] = "Running" => t = current /\ seen = {}
    BY <1>1 DEF KernelInv, RunsOnlyWhenRunning
  <2>2. ASSUME current # NoTask, ~pendsv', seen = {}, pc[current] # "trigger"
        PROVE  state'[current] = "Running"
    <3>1. state[current] = "Running" /\ current \in Tasks
      BY <2>2 DEF KernelInv, RunsOnlyWhenRunning, KernelTypeOK
    <3>2. current \notin W
      BY <3>1
    <3> QED
      BY <1>1, <3>1, <3>2
  <2> QED
    BY <2>1, <2>2 DEF RunsOnlyWhenRunning
<1> QED
  BY <1>3, <1>4, <1>5 DEF KernelInv

\* What a set does, in terms of its scans.
LEMMA SetsStates ==
    ASSUME EventInv, NEW mask \in SUBSET Flags, Sets(mask),
           NEW any, NEW all, AreScans(mask, any, all)
    PROVE  /\ Woken(mask) \in SUBSET Users /\ WakeAll(Woken(mask))
           /\ \A t \in Woken(mask) : state[t] = "Blocked"
           /\ \A t \in Users :
                 /\ state'[t] = IF any.given[t] # {} \/ all.given[t] # {}
                                THEN "Ready" ELSE state[t]
                 /\ waitPtr'[t] = IF any.given[t] # {} THEN any.given[t] ELSE waitPtr[t]
           /\ bits' = all.bits
           /\ anyList' = any.stay /\ allList' = all.stay
           /\ waiting' = waiting
           /\ waitPtr' \in [Users -> SUBSET Flags]
<1>1. /\ Woken(mask) = {t \in Users : any.given[t] # {} \/ all.given[t] # {}}
      /\ \A t \in Users : any.given[t] # {} => state[t] = "Blocked"
      /\ \A t \in Users : all.given[t] # {} => state[t] = "Blocked"
  BY WokenWereBlocked
<1>2. /\ bits' = all.bits /\ anyList' = any.stay /\ allList' = all.stay
      /\ waitPtr' = [t \in Users |-> IF any.given[t] # {} THEN any.given[t] ELSE waitPtr[t]]
      /\ waiting' = waiting
      /\ WakeAll(Woken(mask))
  BY DEF AreScans, Sets, WakeAll
<1>3. \A t \in Tasks : state'[t] = IF t \in Woken(mask) THEN "Ready" ELSE state[t]
  BY <1>1, <1>2, WokenStates DEF EventInv
<1>4. \A t \in Users : any.given[t] \subseteq waitPtr[t] /\ waitPtr[t] \subseteq Flags
  <2>1. Distributed(mask, any, all)
    BY ScansGive
  <2>2. \A t \in Users : any.given[t] \subseteq waitPtr[t]
    BY <2>1 DEF Distributed
  <2>3. waitPtr \in [Users -> SUBSET Flags]
    BY DEF EventInv, TypeOK
  <2> QED
    BY <2>2, <2>3
<1>5. waitPtr' \in [Users -> SUBSET Flags]
  BY <1>2, <1>4
<1>6. \A t \in Users : waitPtr'[t] = IF any.given[t] # {} THEN any.given[t] ELSE waitPtr[t]
  BY <1>2
<1>7. \A t \in Users : state'[t] = IF any.given[t] # {} \/ all.given[t] # {}
                                   THEN "Ready" ELSE state[t]
  BY <1>1, <1>3, KernelConstants
<1> QED
  BY <1>1, <1>2, <1>5, <1>6, <1>7

LEMMA SetsEvents ==
    ASSUME EventInv, NEW mask \in SUBSET Flags, Sets(mask), KernelInv',
           \A t \in Users : waiting[t] # NoCall => pc'[t] \in {"trigger", "return"}
    PROVE  EventInv'
<1>1. PICK any, all : AreScans(mask, any, all)
  BY DEF AreScans
<1>2. /\ \A t \in Users :
            /\ state'[t] = IF any.given[t] # {} \/ all.given[t] # {}
                           THEN "Ready" ELSE state[t]
            /\ waitPtr'[t] = IF any.given[t] # {} THEN any.given[t] ELSE waitPtr[t]
      /\ bits' = all.bits
      /\ anyList' = any.stay /\ allList' = all.stay
      /\ waiting' = waiting
      /\ waitPtr' \in [Users -> SUBSET Flags]
  BY <1>1, SetsStates
<1>3. /\ all.bits \subseteq any.bits /\ any.bits \subseteq Flags
      /\ any.stay \in Seq(Users) /\ IsInjective(any.stay)
      /\ all.stay \in Seq(Users) /\ IsInjective(all.stay)
      /\ \A t \in Users :
            /\ t \in ToSet(any.stay) <=> t \in ToSet(anyList) /\ any.given[t] = {}
            /\ t \in ToSet(all.stay) <=> t \in ToSet(allList) /\ all.given[t] = {}
            /\ any.given[t] \subseteq waitPtr[t]
            /\ t \in ToSet(any.stay) => waitPtr[t] \cap any.bits = {}
            /\ t \in ToSet(all.stay) => ~(waitPtr[t] \subseteq all.bits)
  <2>1. Distributed(mask, any, all)
    BY <1>1, ScansGive
  <2> QED
    BY <2>1 DEF Distributed
<1>4. /\ \A t \in Users : any.given[t] # {} =>
            state[t] = "Blocked" /\ waiting[t] = <<"any", waitPtr[t]>> /\ all.given[t] = {}
      /\ \A t \in Users : all.given[t] # {} =>
            state[t] = "Blocked" /\ waiting[t] = <<"all", waitPtr[t]>> /\ any.given[t] = {}
  BY <1>1, WokenWereBlocked
<1>5. TypeOK'
  BY <1>2, <1>3 DEF EventInv, TypeOK, KernelInv
<1>6. ToSet(any.stay) \subseteq Users /\ ToSet(all.stay) \subseteq Users
  BY <1>3 DEF ToSet
<1>7. \A t \in Users :
         /\ t \in ToSet(anyList) <=> state[t] = "Blocked" /\ waiting[t] = <<"any", waitPtr[t]>>
         /\ t \in ToSet(allList) <=> state[t] = "Blocked" /\ waiting[t] = <<"all", waitPtr[t]>>
         /\ state[t] = "Blocked" => t \in ToSet(anyList) \cup ToSet(allList)
  BY DEF EventInv, BlockedExactlyWaiting
<1>8. NoSatisfiedWaiter'
  <2>1. ASSUME NEW t \in ToSet(any.stay)
        PROVE  waitPtr'[t] \cap all.bits = {}
    <3>1. t \in Users /\ any.given[t] = {} /\ waitPtr[t] \cap any.bits = {}
      BY <1>3, <1>6
    <3> QED
      BY <1>2, <1>3, <3>1
  <2>2. ASSUME NEW t \in ToSet(all.stay)
        PROVE  ~(waitPtr'[t] \subseteq all.bits)
    <3>1. t \in Users /\ ~(waitPtr[t] \subseteq all.bits) /\ t \in ToSet(allList)
      BY <1>3, <1>6
    <3>2. any.given[t] = {}
      BY <1>4, <1>7, <3>1, NoCallIsNone
    <3> QED
      BY <1>2, <3>1, <3>2
  <2> QED
    BY <1>2, <2>1, <2>2 DEF NoSatisfiedWaiter
<1>9. OneWaitUnderWay'
  <2>1. ASSUME NEW t \in Users, waiting[t] # NoCall
        PROVE  /\ waiting[t][2] # {}
               /\ waiting[t][1] = "any" => waitPtr'[t] # {} /\ waitPtr'[t] \subseteq waiting[t][2]
    <3>1. /\ waiting[t][2] # {}
          /\ waiting[t][1] = "any" => waitPtr[t] # {} /\ waitPtr[t] \subseteq waiting[t][2]
      BY <2>1 DEF EventInv, OneWaitUnderWay
    <3>2. waitPtr'[t] = IF any.given[t] # {} THEN any.given[t] ELSE waitPtr[t]
      BY <1>2
    <3>3. any.given[t] \subseteq waitPtr[t]
      BY <1>3
    <3> QED
      BY <3>1, <3>2, <3>3
  <2> QED
    BY <1>2, <2>1 DEF OneWaitUnderWay
<1>10. BlockedExactlyWaiting'
  <2>1. ASSUME NEW t \in Users
        PROVE  /\ t \in ToSet(any.stay)
                     <=> state'[t] = "Blocked" /\ waiting[t] = <<"any", waitPtr'[t]>>
               /\ t \in ToSet(all.stay)
                     <=> state'[t] = "Blocked" /\ waiting[t] = <<"all", waitPtr'[t]>>
               /\ state'[t] = "Blocked" => t \in ToSet(any.stay) \cup ToSet(all.stay)
    <3>1. CASE any.given[t] # {} \/ all.given[t] # {}
      <4>1. state'[t] = "Ready"
        BY <1>2, <3>1
      <4>2. t \notin ToSet(any.stay) /\ t \notin ToSet(all.stay)
        BY <1>3, <1>4, <1>7, <3>1, NoCallIsNone
      <4> QED
        BY <4>1, <4>2
    <3>2. CASE any.given[t] = {} /\ all.given[t] = {}
      <4>1. state'[t] = state[t] /\ waitPtr'[t] = waitPtr[t]
        BY <1>2, <3>2
      <4>2. /\ t \in ToSet(any.stay) <=> t \in ToSet(anyList)
            /\ t \in ToSet(all.stay) <=> t \in ToSet(allList)
        BY <1>3, <3>2
      <4> QED
        BY <1>7, <4>1, <4>2
    <3> QED
      BY <3>1, <3>2
  <2> QED
    BY <1>2, <1>3, <2>1 DEF BlockedExactlyWaiting
<1> QED
  BY <1>5, <1>8, <1>9, <1>10 DEF EventInv

LEMMA SetEvents ==
    ASSUME EventInv, NEW t \in Users, NEW mask \in SUBSET Flags, Set(t, mask)
    PROVE  EventInv'
<1>1. PICK any, all : AreScans(mask, any, all)
  BY DEF AreScans
<1>2. /\ Woken(mask) \in SUBSET Users /\ WakeAll(Woken(mask))
      /\ \A u \in Woken(mask) : state[u] = "Blocked"
  BY <1>1, SetsStates DEF Set
<1>3. /\ Calls(t) /\ Sets(mask)
      /\ pc' = pc \/ pc' = [pc EXCEPT ![t] = "trigger"]
      /\ UNCHANGED <<current, left, priority, pendsv, seen>>
  BY DEF Set
<1>4. KernelInv' /\ \A u \in Users : u # t => pc'[u] = pc[u]
  BY <1>2, <1>3, TaskWakesAllInv DEF EventInv
<1>5. waiting[t] = NoCall
  BY <1>3, CallerIsFree
<1>6. \A u \in Users : waiting[u] # NoCall => pc'[u] \in {"trigger", "return"}
  BY <1>4, <1>5 DEF EventInv, OneWaitUnderWay
<1> QED
  BY <1>3, <1>4, <1>6, SetsEvents

LEMMA IsrSetEvents ==
    ASSUME EventInv, NEW mask \in SUBSET Flags, IsrSet(mask)
    PROVE  EventInv'
<1>1. PICK any, all : AreScans(mask, any, all)
  BY DEF AreScans
<1>2. /\ Woken(mask) \in SUBSET Users /\ WakeAll(Woken(mask))
      /\ \A u \in Woken(mask) : state[u] = "Blocked"
  BY <1>1, SetsStates DEF IsrSet
<1>3. PICK obeyed \in BOOLEAN :
         pendsv' = (pendsv \/ (obeyed /\ \E u \in Woken(mask) : Outranks(u, current)))
  BY DEF IsrSet
<1>4. pendsv' \in BOOLEAN
  BY <1>3, Zenon
<1>5. (pendsv => pendsv') /\ (pendsv' => pendsv \/ Woken(mask) # {})
  BY <1>3
<1>6. Sets(mask) /\ UNCHANGED <<current, left, priority, seen, pc>>
  BY DEF IsrSet
<1>7. KernelInv'
  BY <1>2, <1>4, <1>5, <1>6, IsrWakesAllInv DEF EventInv
<1>8. \A u \in Users : waiting[u] # NoCall => pc'[u] \in {"trigger", "return"}
  BY <1>6 DEF EventInv, OneWaitUnderWay
<1> QED
  BY <1>6, <1>7, <1>8, SetsEvents

LEMMA CallReturnsEvents ==
    ASSUME EventInv, NEW t \in Users, CallReturns(t)
    PROVE  EventInv'
<1>1. t \in Tasks /\ state[t] = "Running"
  BY KernelConstants, ThreadRuns DEF EventInv, KernelInv, CallReturns, Return
<1>2. KernelInv'
  BY ExitReturnInv DEF EventInv, CallReturns
<1>3. /\ \A u \in Users : waiting'[u] = IF u = t THEN NoCall ELSE waiting[u]
      /\ waiting' \in [Users -> ({"any", "all"} \X SUBSET Flags) \cup {NoCall}]
      /\ \A u \in Users : pc'[u] = IF u = t THEN "user" ELSE pc[u]
      /\ UNCHANGED <<bits, anyList, allList, waitPtr, state>>
  BY KernelConstants
     DEF CallReturns, Return, EventInv, TypeOK, KernelInv, KernelTypeOK
<1>4. TypeOK'
  BY <1>2, <1>3 DEF EventInv, TypeOK, KernelInv
<1>5. NoSatisfiedWaiter' /\ OneWaitUnderWay'
  BY <1>3 DEF EventInv, NoSatisfiedWaiter, OneWaitUnderWay
<1>6. BlockedExactlyWaiting'
  <2>1. ASSUME NEW u \in Users
        PROVE  /\ u \in ToSet(anyList)
                     <=> state[u] = "Blocked" /\ waiting'[u] = <<"any", waitPtr[u]>>
               /\ u \in ToSet(allList)
                     <=> state[u] = "Blocked" /\ waiting'[u] = <<"all", waitPtr[u]>>
               /\ state[u] = "Blocked" => u \in ToSet(anyList) \cup ToSet(allList)
    BY <1>1, <1>3 DEF EventInv, BlockedExactlyWaiting
  <2> QED
    BY <1>3, <2>1 DEF EventInv, BlockedExactlyWaiting
<1> QED
  BY <1>2, <1>4, <1>5, <1>6 DEF EventInv

\* The masks of the constants.
LEMMA Masks ==
    /\ \A t \in Users : AnyMasks[t] \subseteq (SUBSET Flags) \ {{}}
    /\ \A t \in Users : AllMasks[t] \subseteq (SUBSET Flags) \ {{}}
    /\ SetMasks \subseteq SUBSET Flags /\ IsrSets \subseteq SUBSET Flags
BY EventGroupAssumption

LEMMA NextEvents ==
    ASSUME EventInv, [Next]_vars
    PROVE  EventInv'
<1>1. CASE UNCHANGED vars
  <2>1. UNCHANGED kernelVars /\ UNCHANGED eventVars
    BY <1>1 DEF vars
  <2> QED
    BY <2>1, QuietStepEvents, StutterInv DEF kernelVars, EventInv
<1>2. CASE KernelStep /\ UNCHANGED eventVars
  BY <1>2, KernelStepInv, KernelStepKeepsBlocked, QuietStepEvents DEF EventInv, KernelInv
<1>3. ASSUME NEW t \in Users, TaskExits(t)
      PROVE  EventInv'
  <2>1. state[t] = "Running" /\ t \in Tasks
    BY <1>3, CallerIsFree DEF TaskExits, Exit
  <2>2. /\ state' = [state EXCEPT ![t] = "Dead"]
        /\ pc' = [pc EXCEPT ![t] = "trigger"]
    BY <1>3 DEF TaskExits, Exit, LeaveRunning
  <2>3. \A u \in Users :
           /\ state'[u] = "Blocked" <=> state[u] = "Blocked"
           /\ pc[u] \in {"trigger", "return"} => pc'[u] \in {"trigger", "return"}
    BY <2>1, <2>2, KernelConstants DEF EventInv, KernelInv, KernelTypeOK
  <2> QED
    BY <1>3, <2>3, ExitReturnInv, QuietStepEvents DEF TaskExits, EventInv
<1>4. ASSUME NEW t \in Users, NEW mask \in AnyMasks[t], AnyNow(t, mask)
      PROVE  EventInv'
  <2>1. mask \in SUBSET Flags
    BY Masks
  <2>2. /\ Calls(t) /\ bits' \subseteq bits
        /\ UNCHANGED <<kernelVars, anyList, allList, waiting>>
        /\ waitPtr' = [waitPtr EXCEPT ![t] = mask \cap bits]
    BY <1>4 DEF AnyNow
  <2>3. /\ waitPtr' \in [Users -> SUBSET Flags]
        /\ \A u \in Users : u # t => waitPtr'[u] = waitPtr[u]
    BY <2>1, <2>2 DEF EventInv, TypeOK
  <2> QED
    BY <2>2, <2>3, FewerFlags
<1>5. ASSUME NEW t \in Users, NEW mask, AllNow(t, mask) \/ Clear(t, mask)
      PROVE  EventInv'
  <2>1. /\ Calls(t) /\ bits' \subseteq bits
        /\ UNCHANGED <<kernelVars, anyList, allList, waiting, waitPtr>>
    BY <1>5 DEF AllNow, Clear
  <2>2. waitPtr \in [Users -> SUBSET Flags]
    BY DEF EventInv, TypeOK
  <2> QED
    BY <2>1, <2>2, FewerFlags
<1>6. ASSUME NEW t \in Users, NEW mask \in AnyMasks[t], AnyBlocks(t, mask)
      PROVE  EventInv'
  BY <1>6, AnyBlocksEvents, Masks
<1>7. ASSUME NEW t \in Users, NEW mask \in AllMasks[t], AllBlocks(t, mask)
      PROVE  EventInv'
  BY <1>7, AllBlocksEvents, Masks
<1>8. ASSUME NEW t \in Users, NEW mask \in SetMasks, Set(t, mask)
      PROVE  EventInv'
  BY <1>8, SetEvents, Masks
<1>9. ASSUME NEW mask \in IsrSets, IsrSet(mask)
      PROVE  EventInv'
  BY <1>9, IsrSetEvents, Masks
<1> QED
  BY <1>1, <1>2, <1>3, <1>4, <1>5, <1>6, <1>7, <1>8, <1>9, CallReturnsEvents
     DEF Next, TaskStep

LEMMA EventInvHolds == Spec => []EventInv
<1>1. Init => EventInv
  BY InitEvents
<1>2. EventInv /\ [Next]_vars => EventInv'
  BY NextEvents
<1> QED
  BY <1>1, <1>2, PTL DEF Spec

\* Types, and no waiter is lost: whichever tasks of a list a set wakes, a task is
\* Blocked exactly while it is in the list of the call it blocked in, once, with its
\* mask in wait_ptr.
THEOREM NoWaiterIsUnlinked == Spec => []Consistent
<1>1. EventInv => Consistent
  BY DEF EventInv, Consistent
<1> QED
  BY <1>1, EventInvHolds, PTL

\* Nobody waits for flags that are set, whatever masks overlap and in whatever order
\* set() serves them.
THEOREM FlagsAreHandedOut == Spec => []NoSatisfiedWaiter
<1>1. EventInv => NoSatisfiedWaiter
  BY DEF EventInv
<1> QED
  BY <1>1, EventInvHolds, PTL

-----------------------------------------------------------------------------
(***************************************************************************)
(* Preemptions.                                                            *)
(***************************************************************************)

\* A handler that set flags and whose caller did not request the switch that
\* set_from_isr answered is due.
SwitchDeclined ==
    \E mask \in IsrSets :
       /\ IsrSet(mask) /\ ~pendsv'
       /\ \E u \in Woken(mask) : Outranks(u, current)

LEMMA WokenAreUsers ==
    ASSUME EventInv, NEW mask \in SUBSET Flags, Sets(mask)
    PROVE  Woken(mask) \in SUBSET Users /\ WakeAll(Woken(mask))
BY DEF Woken, Sets, WakeAll

LEMMA SetPreempts ==
    ASSUME EventInv, PreemptionPending, NEW t \in Users, NEW mask \in SetMasks, Set(t, mask)
    PROVE  PreemptionPending'
<1>1. Woken(mask) \in SUBSET Users /\ WakeAll(Woken(mask))
  BY WokenAreUsers, Masks DEF Set
<1>2. /\ Calls(t)
      /\ pc' = IF \E u \in Woken(mask) : Outranks(u, t)
               THEN [pc EXCEPT ![t] = "trigger"] ELSE pc
      /\ UNCHANGED <<current, left, priority, pendsv, seen>>
  BY DEF Set
<1> QED
  BY <1>1, <1>2, WakingAllPreempts DEF EventInv

LEMMA IsrSetPreempts ==
    ASSUME EventInv, PreemptionPending, NEW mask \in IsrSets, IsrSet(mask), ~SwitchDeclined
    PROVE  PreemptionPending'
<1>1. Woken(mask) \in SUBSET Users /\ WakeAll(Woken(mask))
  BY WokenAreUsers, Masks DEF IsrSet
<1>2. /\ UNCHANGED <<current, left, priority, seen, pc>>
      /\ pendsv' => pendsv \/ \E u \in Woken(mask) : Outranks(u, current)
      /\ pendsv => pendsv'
      /\ pendsv \in BOOLEAN /\ pendsv' \in BOOLEAN
  BY DEF IsrSet, EventInv, KernelInv, KernelTypeOK
<1>3. (\E u \in Woken(mask) : Outranks(u, current)) => pendsv'
  BY DEF SwitchDeclined
<1>4. pendsv' = (pendsv \/ \E u \in Woken(mask) : Outranks(u, current))
  BY <1>2, <1>3
<1> QED
  BY <1>1, <1>2, <1>4, WakingAllPreempts DEF EventInv

LEMMA StepKeepsPreemptions ==
    ASSUME EventInv, [Next]_vars, PreemptionPending,
           ~(PendSVSwitch /\ seen # ReadyIn(state)), ~SwitchDeclined
    PROVE  PreemptionPending'
<1>1. CASE UNCHANGED vars
  BY <1>1 DEF vars, kernelVars, PreemptionPending, SwitchUnderWay, Outranks
<1>2. CASE KernelStep
  BY <1>2, KernelStepPreempts DEF EventInv, KernelInv
<1>3. ASSUME NEW t \in Users, TaskExits(t) \/ CallReturns(t)
      PROVE  PreemptionPending'
  BY <1>3, ExitReturnPreempts DEF TaskExits, CallReturns, EventInv, KernelInv
<1>4. ASSUME NEW t \in Users, NEW mask, AnyNow(t, mask) \/ AllNow(t, mask) \/ Clear(t, mask)
      PROVE  PreemptionPending'
  BY <1>4, QuietCallPreempts DEF AnyNow, AllNow, Clear, EventInv
<1>5. ASSUME NEW t \in Users, NEW mask, AnyBlocks(t, mask) \/ AllBlocks(t, mask)
      PROVE  PreemptionPending'
  <2>1. Parks(t)
    BY <1>5 DEF AnyBlocks, AllBlocks, Blocks, Parks
  <2> QED
    BY <2>1, QuietCallPreempts DEF EventInv
<1> QED
  BY <1>1, <1>2, <1>3, <1>4, <1>5, SetPreempts, IsrSetPreempts DEF Next, TaskStep

\* A set wakes any number of tasks and forgets no preemption: only a PendSV that a
\* handler preempted does, and a handler whose caller ignores the answer of
\* set_from_isr, until the next tick that finds a task running.
THEOREM OnlyIgnoredAnswersForget ==
    Spec => [][ /\ PreemptionPending /\ ~PreemptionPending'
                      => (PendSVSwitch /\ seen # ReadyIn(state)) \/ SwitchDeclined
                /\ TickRunning => PreemptionPending' ]_kernelVars
<1>1. ASSUME EventInv, [Next]_vars
      PROVE  [ /\ PreemptionPending /\ ~PreemptionPending'
                     => (PendSVSwitch /\ seen # ReadyIn(state)) \/ SwitchDeclined
               /\ TickRunning => PreemptionPending' ]_kernelVars
  BY <1>1, StepKeepsPreemptions, TickPreempts
<1> QED
  BY <1>1, EventInvHolds, PTL DEF Spec

-----------------------------------------------------------------------------
(***************************************************************************)
(* EventGroup implements EventWord.  A task that was woken has been given  *)
(* its flags although it has not run: wait_ptr keeps them for a wait_any.  *)
(***************************************************************************)
Got == [t \in Users |-> IF state[t] = "Blocked" THEN {} ELSE Given(t)]

\* What has been given to a task in each of its states.
LEMMA GotValues ==
    \A t \in Users :
        /\ state[t] = "Blocked" => Got[t] = {}
        /\ waiting[t] = NoCall => Got[t] = {}
        /\ state[t] # "Blocked" => Got[t] = Given(t)
BY NoCallIsNone DEF Got, Given

LEMMA NextGotValues ==
    \A t \in Users :
        /\ state'[t] = "Blocked" => Got'[t] = {}
        /\ waiting'[t] = NoCall => Got'[t] = {}
        /\ state'[t] # "Blocked" => Got'[t] = Given(t)'
BY NoCallIsNone DEF Got, Given

LEMMA UnchangedWord ==
    ASSUME UNCHANGED <<bits, waiting, Got>>
    PROVE  UNCHANGED Word!vars
BY DEF Word!vars, Got

\* Got does not change for tasks whose own variables do not.
LEMMA UnchangedGot ==
    ASSUME \A t \in Users :
              \/ /\ state'[t] = "Blocked" <=> state[t] = "Blocked"
                 /\ waiting'[t] = waiting[t] /\ waitPtr'[t] = waitPtr[t]
              \/ /\ waiting[t] = NoCall
                 /\ waiting'[t] = NoCall \/ state'[t] = "Blocked"
    PROVE  Got' = Got
<1>1. ASSUME NEW t \in Users
      PROVE  Got'[t] = Got[t]
  <2>1. CASE /\ state'[t] = "Blocked" <=> state[t] = "Blocked"
             /\ waiting'[t] = waiting[t] /\ waitPtr'[t] = waitPtr[t]
    BY <2>1 DEF Got, Given
  <2>2. CASE /\ waiting[t] = NoCall
             /\ waiting'[t] = NoCall \/ state'[t] = "Blocked"
    BY <2>2, GotValues, NextGotValues
  <2> QED
    BY <2>1, <2>2
<1> QED
  BY <1>1 DEF Got

LEMMA FewerFlagsWord ==
    ASSUME EventInv, NEW t \in Users, Calls(t), NEW mask \in SUBSET Flags,
           bits' = bits \ mask, UNCHANGED <<kernelVars, waiting>>,
           \A u \in Users : u # t => waitPtr'[u] = waitPtr[u]
    PROVE  Word!Remove(mask)
<1>1. waiting[t] = NoCall /\ state' = state
  BY CallerIsFree DEF kernelVars
<1>2. Got' = Got
  BY <1>1, UnchangedGot
<1> QED
  BY <1>2 DEF Word!Remove, Got

LEMMA BlocksWord ==
    ASSUME EventInv, NEW t \in Users, NEW which \in {"any", "all"},
           NEW mask \in SUBSET Flags, Blocks(t, which, mask)
    PROVE  Word!Ask(t, which, mask)
<1>1. /\ waiting[t] = NoCall /\ bits' = bits
      /\ \A u \in Users :
            /\ state'[u] = IF u = t THEN "Blocked" ELSE state[u]
            /\ waitPtr'[u] = IF u = t THEN mask ELSE waitPtr[u]
            /\ waiting'[u] = IF u = t THEN <<which, mask>> ELSE waiting[u]
  BY BlockedCaller
<1>2. Got' = Got
  BY <1>1, UnchangedGot
<1>3. waiting' = [waiting EXCEPT ![t] = <<which, mask>>]
  BY DEF Blocks
<1> QED
  BY <1>1, <1>2, <1>3 DEF Word!Ask, Got

LEMMA CallReturnsWord ==
    ASSUME EventInv, NEW t \in Users, CallReturns(t)
    PROVE  Word!Return(t) \/ UNCHANGED Word!vars
<1>1. /\ waiting' = [waiting EXCEPT ![t] = NoCall]
      /\ \A u \in Users : waiting'[u] = IF u = t THEN NoCall ELSE waiting[u]
      /\ UNCHANGED <<bits, anyList, allList, waitPtr, state>>
  BY DEF CallReturns, Return, EventInv, TypeOK
<1>2. state[t] = "Running"
  BY ThreadRuns DEF EventInv, KernelInv, CallReturns, Return
<1>3. CASE waiting[t] = NoCall
  <2>1. Got' = Got
    BY <1>1, <1>3, UnchangedGot
  <2>2. waiting' = waiting
    BY <1>1, <1>3 DEF EventInv, TypeOK
  <2> QED
    BY <1>1, <2>1, <2>2, UnchangedWord
<1>4. CASE waiting[t] # NoCall
  <2>1. Got[t] = Given(t)
    BY <1>2, GotValues
  <2>2. Given(t) # {}
    BY <1>4 DEF EventInv, OneWaitUnderWay, Given
  <2>3. Got'[t] = {}
    BY <1>1, NextGotValues
  <2>4. \A u \in Users : u # t => Got'[u] = Got[u]
    BY <1>1 DEF Got, Given
  <2>5. Got' = [Got EXCEPT ![t] = {}]
    BY <2>3, <2>4 DEF Got
  <2> QED
    BY <1>1, <2>1, <2>2, <2>5 DEF Word!Return, Got
<1> QED
  BY <1>3, <1>4

LEMMA SetsWord ==
    ASSUME EventInv, NEW mask \in SUBSET Flags, Sets(mask)
    PROVE  Word!Set(mask)
<1>1. PICK any, all : AreScans(mask, any, all)
  BY DEF AreScans
<1>2. /\ \A t \in Users :
            /\ state'[t] = IF any.given[t] # {} \/ all.given[t] # {}
                           THEN "Ready" ELSE state[t]
            /\ waitPtr'[t] = IF any.given[t] # {} THEN any.given[t] ELSE waitPtr[t]
      /\ bits' = all.bits
      /\ waiting' = waiting
  BY <1>1, SetsStates
<1>3. Distributed(mask, any, all)
  BY <1>1, ScansGive
<1>4. /\ \A t \in Users : any.given[t] # {} =>
            state[t] = "Blocked" /\ waiting[t] = <<"any", waitPtr[t]>> /\ all.given[t] = {}
      /\ \A t \in Users : all.given[t] # {} =>
            state[t] = "Blocked" /\ waiting[t] = <<"all", waitPtr[t]>> /\ any.given[t] = {}
  BY <1>1, WokenWereBlocked
<1>5. ASSUME NEW t \in Users, any.given[t] # {}
      PROVE  /\ Got[t] = {} /\ Got'[t] = any.given[t] /\ waiting[t] # NoCall
             /\ waiting[t] = <<"any", waitPtr[t]>>
             /\ any.given[t] \subseteq waitPtr[t] \cap (bits \cup mask)
  <2>1. state[t] = "Blocked" /\ waiting[t] = <<"any", waitPtr[t]>>
    BY <1>4, <1>5
  <2>2. state'[t] = "Ready" /\ waitPtr'[t] = any.given[t] /\ waiting'[t] = waiting[t]
    BY <1>2, <1>5
  <2>3. Given(t)' = any.given[t]
    BY <2>1, <2>2 DEF Given
  <2>4. any.given[t] \subseteq waitPtr[t] \cap (bits \cup mask)
    BY <1>3 DEF Distributed
  <2> QED
    BY <2>1, <2>2, <2>3, <2>4, GotValues, NextGotValues, NoCallIsNone
<1>6. ASSUME NEW t \in Users, all.given[t] # {}
      PROVE  /\ Got[t] = {} /\ Got'[t] = all.given[t] /\ waiting[t] # NoCall
             /\ waiting[t] = <<"all", waitPtr[t]>>
             /\ all.given[t] = waitPtr[t] /\ all.given[t] \subseteq bits \cup mask
  <2>1. state[t] = "Blocked" /\ waiting[t] = <<"all", waitPtr[t]>>
    BY <1>4, <1>6
  <2>2. state'[t] = "Ready" /\ waiting'[t] = waiting[t]
    BY <1>2, <1>6
  <2>3. all.given[t] = waitPtr[t] /\ all.given[t] \subseteq bits \cup mask
    BY <1>3, <1>6 DEF Distributed
  <2>4. Given(t)' = all.given[t]
    BY <2>1, <2>2, <2>3 DEF Given
  <2> QED
    BY <2>1, <2>2, <2>3, <2>4, GotValues, NextGotValues, NoCallIsNone
<1>7. ASSUME NEW t \in Users, any.given[t] = {}, all.given[t] = {}
      PROVE  Got'[t] = Got[t]
  BY <1>2, <1>7 DEF Got, Given
<1> DEFINE served == {t \in Users : Got'[t] # Got[t]}
<1>8. /\ \A t \in served : any.given[t] # {} \/ all.given[t] # {}
      /\ \A t \in Users : any.given[t] # {} => t \in served /\ Got'[t] = any.given[t]
      /\ \A t \in Users : all.given[t] # {} => t \in served /\ Got'[t] = all.given[t]
      /\ served \subseteq Users
  BY <1>5, <1>6, <1>7
<1>9. \A t \in served :
         /\ waiting[t] # NoCall
         /\ Got[t] = {}
         /\ Got'[t] \subseteq waiting[t][2] \cap (bits \cup mask)
         /\ waiting[t][1] = "all" => Got'[t] = waiting[t][2]
  <2> HIDE DEF served
  <2> TAKE t \in served
  <2>1. CASE any.given[t] # {}
    BY <1>5, <1>8, <2>1
  <2>2. CASE all.given[t] # {}
    BY <1>6, <1>8, <2>2
  <2> QED
    BY <1>8, <2>1, <2>2
<1>10. ASSUME NEW t \in served, NEW u \in served, t # u
       PROVE  Got'[t] \cap Got'[u] = {}
  <2> HIDE DEF served
  <2>1. t \in Users /\ u \in Users
    BY <1>8
  <2>2. /\ any.given[t] \cap any.given[u] = {} /\ all.given[t] \cap all.given[u] = {}
        /\ any.given[t] \cap all.given[u] = {} /\ all.given[t] \cap any.given[u] = {}
    <3>1. /\ any.given[t] \cap any.given[u] = {} /\ all.given[t] \cap all.given[u] = {}
          /\ all.given[t] \subseteq any.bits /\ all.given[u] \subseteq any.bits
          /\ any.bits \subseteq bits \cup mask
      BY <1>3, <1>10, <2>1 DEF Distributed
    <3>2. \A f \in any.bits : f \notin any.given[t] /\ f \notin any.given[u]
      BY <1>3, <2>1, <3>1 DEF Distributed
    <3> QED
      BY <3>1, <3>2
  <2> QED
    BY <1>8, <2>1, <2>2
<1>11. bits' = (bits \cup mask) \ UNION {Got'[t] : t \in served}
  <2> HIDE DEF served
  <2>1. /\ any.bits \subseteq bits \cup mask /\ all.bits \subseteq any.bits
        /\ \A f \in bits \cup mask : f \in any.bits <=> \A t \in Users : f \notin any.given[t]
        /\ \A f \in any.bits : f \in all.bits <=> \A t \in Users : f \notin all.given[t]
        /\ \A t \in Users : all.given[t] \subseteq any.bits
    BY <1>3 DEF Distributed
  <2>2. ASSUME NEW f \in all.bits
        PROVE  f \in bits \cup mask /\ \A t \in served : f \notin Got'[t]
    BY <1>8, <2>1
  <2>3. ASSUME NEW f \in bits \cup mask, \A t \in served : f \notin Got'[t]
        PROVE  f \in all.bits
    <3>1. \A t \in Users : f \notin any.given[t]
      BY <1>8, <2>3
    <3>2. \A t \in Users : f \notin all.given[t]
      BY <1>8, <2>3
    <3> QED
      BY <2>1, <3>1, <3>2
  <2> QED
    BY <1>2, <2>2, <2>3
<1>12. waiting' = waiting
  BY <1>2
<1> QED
  BY <1>9, <1>10, <1>11, <1>12 DEF Word!Set, Got

LEMMA StepImplementsWord ==
    ASSUME EventInv, [Next]_vars
    PROVE  [Word!Next]_(Word!vars)
<1>1. CASE UNCHANGED vars
  <2>1. UNCHANGED <<state, bits, waitPtr, waiting>>
    BY <1>1 DEF vars, kernelVars, eventVars
  <2> QED
    BY <2>1, UnchangedGot, UnchangedWord
<1>2. CASE KernelStep /\ UNCHANGED eventVars
  <2>1. \A t \in Users : state'[t] = "Blocked" <=> state[t] = "Blocked"
    BY <1>2, KernelStepKeepsBlocked DEF EventInv, KernelInv
  <2>2. UNCHANGED <<bits, waitPtr, waiting>>
    BY <1>2 DEF eventVars
  <2> QED
    BY <2>1, <2>2, UnchangedGot, UnchangedWord
<1>3. ASSUME NEW t \in Users, TaskExits(t)
      PROVE  UNCHANGED Word!vars
  <2>1. waiting[t] = NoCall
    BY <1>3, CallerIsFree DEF TaskExits, Exit
  <2>2. \A u \in Users : u # t => state'[u] = state[u]
    BY <1>3, KernelConstants
       DEF TaskExits, Exit, LeaveRunning, EventInv, KernelInv, KernelTypeOK
  <2>3. UNCHANGED <<bits, waitPtr, waiting>>
    BY <1>3 DEF TaskExits, eventVars
  <2> QED
    BY <2>1, <2>2, <2>3, UnchangedGot, UnchangedWord
<1>4. ASSUME NEW t \in Users, NEW mask \in AnyMasks[t], AnyNow(t, mask)
      PROVE  Word!Remove(mask)
  <2>1. /\ Calls(t) /\ bits' = bits \ mask
        /\ UNCHANGED <<kernelVars, waiting>>
        /\ waitPtr' = [waitPtr EXCEPT ![t] = mask \cap bits]
    BY <1>4 DEF AnyNow
  <2>2. \A u \in Users : u # t => waitPtr'[u] = waitPtr[u]
    BY <2>1 DEF EventInv, TypeOK
  <2> QED
    BY <2>1, <2>2, FewerFlagsWord, Masks
<1>5. ASSUME NEW t \in Users, NEW mask \in SUBSET Flags, AllNow(t, mask) \/ Clear(t, mask)
      PROVE  Word!Remove(mask)
  <2>1. /\ Calls(t) /\ bits' = bits \ mask
        /\ UNCHANGED <<kernelVars, waiting, waitPtr>>
    BY <1>5 DEF AllNow, Clear
  <2> QED
    BY <2>1, FewerFlagsWord
<1>6. ASSUME NEW t \in Users, NEW mask \in AnyMasks[t], AnyBlocks(t, mask)
      PROVE  Word!Ask(t, "any", mask)
  BY <1>6, BlocksWord, Masks DEF AnyBlocks
<1>7. ASSUME NEW t \in Users, NEW mask \in AllMasks[t], AllBlocks(t, mask)
      PROVE  Word!Ask(t, "all", mask)
  BY <1>7, BlocksWord, Masks DEF AllBlocks
<1>8. ASSUME NEW mask \in SUBSET Flags, IsrSet(mask) \/ \E t \in Users : Set(t, mask)
      PROVE  Word!Set(mask)
  BY <1>8, SetsWord DEF Set, IsrSet
<1>9. /\ \A t \in Users : \A mask \in AnyMasks[t] : mask \in SUBSET Flags
      /\ \A t \in Users : \A mask \in AllMasks[t] : mask \in SUBSET Flags
      /\ SetMasks \subseteq SUBSET Flags /\ IsrSets \subseteq SUBSET Flags
  BY Masks
<1>10. ASSUME NEW t \in Users, TaskStep(t)
       PROVE  Word!Next \/ UNCHANGED Word!vars
  BY <1>3, <1>4, <1>5, <1>6, <1>7, <1>8, <1>9, <1>10, CallReturnsWord
     DEF TaskStep, Word!Next
<1>11. ASSUME NEW mask \in IsrSets, IsrSet(mask)
       PROVE  Word!Next
  BY <1>8, <1>9, <1>11 DEF Word!Next
<1> QED
  BY <1>1, <1>2, <1>10, <1>11, UnchangedWord DEF Next

\* The group is a word of flags, each of which goes to one task at most every time it
\* is set, whoever else waits for it and however long that task takes to run.
THEOREM EventGroupImplementsEventWord == Spec => ImplementsEventWord
<1>1. Init => Word!Init
  BY NoCallIsNone DEF Init, Word!Init, Given
<1>2. EventInv /\ [Next]_vars => [Word!Next]_(Word!vars)
  BY StepImplementsWord
<1> QED
  BY <1>1, <1>2, EventInvHolds, PTL DEF Spec, ImplementsEventWord, Word!Spec
=============================================================================
