------------------------ MODULE WorkerLoopProperties ------------------------
(* What the wake-up loop of the worker promises. *)
EXTENDS WorkerLoop

\* The values of every variable, and that run() has an alert at work exactly
\* while it delivers.
TypeOK ==
    /\ table \in [Alerts -> [state : RowState, fire_in : -MaxLate .. MaxDelay]]
    /\ phase \in Phase
    /\ job \in Alerts \cup {NoAlert}
    /\ (job # NoAlert) <=> (phase = "delivering")
    /\ wake_in \in Nat
    /\ connected \in BOOLEAN
    /\ queue \in Nat
    /\ missed \in BOOLEAN
    /\ guessed \in BOOLEAN
    /\ cancelled \in BOOLEAN
    /\ faults \in 0 .. MaxFaults
    /\ repeats \in 0 .. MaxRepeats

\* The timer covers every pending alert: as long as the table was read and
\* every notification since then arrived, a worker that waits with none to
\* read wakes up no later than the first pending alert is due.  It rests on
\* LISTEN before the first read, on a trigger for every write that brings a
\* fire_at forward, and on a minimum that includes what is overdue.
TimerCoversPending ==
    phase = "waiting" /\ queue = 0 /\ ~missed /\ ~guessed =>
        \A a \in InState("pending") : wake_in <= Overdue(table[a].fire_in)

\* A stop that no fault preceded leaves no alert claimed: the token ends the
\* loop between two deliveries, and nobody would release the claim before
\* the next start.
CleanStopLeavesNoClaim ==
    phase = "stopped" /\ faults = MaxFaults => InState("claimed") = {}

\* Every alert that is due leaves the pending state, or was asked to by a
\* shutdown: lost notifications, failed queries and crashes only delay it.
DueAlertsAreClaimed ==
    \A a \in Alerts : a \in Due ~> (a \notin InState("pending") \/ cancelled)

\* The worker does not keep itself awake: its claims and writes notify its
\* own listener, but a round that finds nothing due does not, so that the
\* notifications run out when users and repeats do.
ComesToRest == <>[](queue = 0)
=============================================================================
