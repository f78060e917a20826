----------------------------- MODULE EventWord -----------------------------
(***************************************************************************)
(* What an EventGroup promises its users: a word of flags, each given to   *)
(* one task at most every time it is set.                                  *)
(***************************************************************************)
CONSTANTS
    Users,      \* the tasks
    Flags,      \* the flags
    NoCall      \* what a task asks for when it asks for nothing

VARIABLES
    flags,      \* the flags that are set
    asked,      \* what each task waits for: any or all of a mask
    got         \* the flags a task is given until its call returns

vars == <<flags, asked, got>>

Init ==
    /\ flags = {}
    /\ asked = [t \in Users |-> NoCall]
    /\ got = [t \in Users |-> {}]

\* A call that blocks.
Ask(t, which, mask) ==
    /\ asked[t] = NoCall
    /\ asked' = [asked EXCEPT ![t] = <<which, mask>>]
    /\ UNCHANGED <<flags, got>>

\* The flags in set are added, and what some tasks asked for goes to them.
Set(set) ==
    LET served == {t \in Users : got'[t] # got[t]} IN
    /\ \A t \in served :
          /\ asked[t] # NoCall
          /\ got[t] = {}
          /\ got'[t] \subseteq asked[t][2] \cap (flags \cup set)
          /\ asked[t][1] = "all" => got'[t] = asked[t][2]
    /\ \A t, u \in served : t # u => got'[t] \cap got'[u] = {}
    /\ flags' = (flags \cup set) \ UNION {got'[t] : t \in served}
    /\ UNCHANGED asked

\* A call returns with what it was given.
Return(t) ==
    /\ got[t] # {}
    /\ asked' = [asked EXCEPT ![t] = NoCall]
    /\ got' = [got EXCEPT ![t] = {}]
    /\ UNCHANGED flags

\* Flags are cleared, or taken by a call that finds them set.
Remove(set) ==
    /\ flags' = flags \ set
    /\ UNCHANGED <<asked, got>>

Next ==
    \/ \E t \in Users :
          Return(t) \/ \E which \in {"any", "all"}, mask \in SUBSET Flags : Ask(t, which, mask)
    \/ \E set \in SUBSET Flags : Set(set) \/ Remove(set)

Spec == Init /\ [][Next]_vars
=============================================================================
