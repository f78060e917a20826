----------------------------- MODULE TimerWaits -----------------------------
(***************************************************************************)
(* Timer with a history of the waits that have completed, which is what    *)
(* the documentation of Timer::wait speaks of.                             *)
(***************************************************************************)
EXTENDS Timer

VARIABLE waited     \* history: the tasks that have waited for the timer they have

WaitsInit == Init /\ waited = {}

ReturnsFromWait(t) == call[t].what = "wait" /\ CallReturns(t)

Renews(t) ==
    \/ \E d \in Delays : After(t, d)
    \/ \E p \in Periods : Every(t, p)

WaitsNext ==
    /\ Next
    /\ waited' = (waited \cup {t \in Users : ReturnsFromWait(t)}) \ {t \in Users : Renews(t)}

WaitsSpec == WaitsInit /\ [][WaitsNext]_<<vars, waited>>

\* What the documentation says of a one-shot timer after its first wait()
\* (timer/mod.rs): "subsequent calls return immediately if the deadline is in the
\* past".  So such a call does not put the task to sleep.
LaterWaitsDoNotSleep ==
    \A t \in waited :
        call[t].what = "wait" /\ period[t] = OneShot /\ call[t].due < call[t].since
            => state[t] # "Sleeping"
=============================================================================
