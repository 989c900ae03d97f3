----------------------------- MODULE WorkerLoop -----------------------------
(***************************************************************************)
(* The loop of run() in crates/bot/src/worker.rs and what wakes it: the    *)
(* trigger of migrations/0001_init.sql that turns writes of the alerts     *)
(* table into notifications, the listener's connection, the timer and the  *)
(* shutdown token.                                                         *)
(*                                                                         *)
(* One process runs.  A row is reduced to its state and the time left      *)
(* until fire_at; the claims and outcomes of an attempt are the subject of *)
(* module Delivery, and its fairness of ClaimDueAlerts is what is shown    *)
(* here.                                                                   *)
(***************************************************************************)
EXTENDS Integers

CONSTANTS
    Alerts,         \* ids of the alerts table
    NoAlert,        \* "no alert is being delivered"
    IdleWait,       \* wake-up when nothing is pending: one hour
    RetryWait,      \* wake-up when the query failed: 30 seconds
    MaxDelay,       \* bound: largest delay of a new or repeated fire
    MaxLate,        \* bound: how overdue a fire_at is told apart
    MaxRepeats,     \* bound: retries and next occurrences
    MaxFaults       \* bound: crashes, failed queries, lost connections

ASSUME LoopAssumption ==
    /\ NoAlert \notin Alerts
    /\ IdleWait \in Nat
    /\ RetryWait \in Nat
    /\ MaxDelay \in Nat
    /\ MaxLate \in Nat
    /\ MaxRepeats \in Nat
    /\ MaxFaults \in Nat

VARIABLES
    table,      \* the alerts table
    phase,      \* where run() stands
    job,        \* the alert that deliver() is at work on
    wake_in,    \* next_wake - now, 0 once it is over
    connected,  \* the listener's connection is up and listening
    queue,      \* notifications that recv() has not returned yet
    missed,     \* one was lost since the last compute_next_wake
    guessed,    \* the last compute_next_wake could not read the table
    cancelled,  \* the shutdown token
    faults,     \* faults that may still happen
    repeats     \* repeats that may still happen

listener == <<connected, queue, missed>>
budget == <<faults, repeats>>
vars == <<table, phase, job, wake_in, listener, guessed, cancelled, budget>>

RowState == {"none", "pending", "claimed", "closed"}
Running == {"computing", "waiting", "processing", "delivering"}
Phase == {"starting", "stopped", "failed"} \cup Running

Init ==
    /\ table = [a \in Alerts |-> [state |-> "none", fire_in |-> 0]]
    /\ phase = "starting"
    /\ job = NoAlert
    /\ wake_in = 0
    /\ connected = FALSE
    /\ queue = 0
    /\ missed = FALSE
    /\ guessed = FALSE
    /\ cancelled = FALSE
    /\ faults = MaxFaults
    /\ repeats = MaxRepeats

InState(s) == {a \in Alerts : table[a].state = s}
Due == {a \in InState("pending") : table[a].fire_in <= 0}

Fault == faults > 0 /\ faults' = faults - 1 /\ UNCHANGED repeats

-----------------------------------------------------------------------------
(* Writes of the table.  The trigger is AFTER INSERT OR UPDATE OF fire_at, *)
(* state FOR EACH ROW; the notifications of one transaction are alike and  *)
(* Postgres delivers them as one.                                          *)

\* mutant
FiresOnInsert(rows) == \E a \in rows : table[a].state = "none"
\* mutant: FOR EACH STATEMENT
FiresPerStatement(rows) == TRUE
Fires(rows) == rows # {}

\* Only a listener that is connected receives what is sent.
Notify(rows) ==
    /\ queue' = IF Fires(rows) /\ connected THEN queue + 1 ELSE queue
    /\ missed' = (missed \/ (Fires(rows) /\ ~connected))
    /\ UNCHANGED connected

\* A statement: the rows it touches, with their new values.
Write(changes) ==
    /\ table' = [a \in Alerts |->
                   IF a \in DOMAIN changes THEN changes[a] ELSE table[a]]
    /\ Notify(DOMAIN changes)

Moved(rows, s) ==
    [a \in rows |-> [state |-> s, fire_in |-> table[a].fire_in]]
Armed(rows, delay) ==
    [a \in rows |-> [state |-> "pending", fire_in |-> delay]]

CreateAlert(a) ==
    /\ table[a].state = "none"
    /\ \E delay \in 1 .. MaxDelay : Write(Armed({a}, delay))
    /\ UNCHANGED <<phase, job, wake_in, guessed, cancelled, budget>>

CancelAlert(a) ==
    /\ table[a].state = "pending"
    /\ Write(Moved({a}, "closed"))
    /\ UNCHANGED <<phase, job, wake_in, guessed, cancelled, budget>>

\* reaper_loop, which ends with the token.  How old a claim is is left to
\* Delivery: one that is not at work may be stale, one at work only by a fault.
ReleaseStaleClaims ==
    /\ phase \in Running /\ ~cancelled
    /\ \E rows \in SUBSET InState("claimed") :
        /\ rows # {}
        /\ Write(Moved(rows, "pending"))
        /\ IF job \in rows THEN Fault ELSE UNCHANGED budget
    /\ UNCHANGED <<phase, job, wake_in, guessed, cancelled>>

-----------------------------------------------------------------------------
(* run(): connect, LISTEN, then compute, wait and process in a loop.       *)

Start ==
    /\ phase = "starting"
    /\ phase' = "computing"
    /\ connected' = TRUE
    /\ UNCHANGED <<table, job, wake_in, queue, missed, guessed, cancelled,
                   budget>>

Overdue(t) == IF t > 0 THEN t ELSE 0

\* MIN(fire_at) of the pending alerts, or an hour from now.
NextPendingFireAt ==
    \/ InState("pending") = {} /\ wake_in' = IdleWait
    \/ \E a \in InState("pending") :
        /\ \A b \in InState("pending") : table[a].fire_in <= table[b].fire_in
        /\ wake_in' = Overdue(table[a].fire_in)

\* Both selects are biased: a cancelled token wins.  (That recv() wins over
\* the timer is left open: a notification may still be on its way.)
ComputeNextWake ==
    /\ phase = "computing" /\ ~cancelled
    /\ NextPendingFireAt
    /\ phase' = "waiting"
    /\ missed' = FALSE
    /\ guessed' = FALSE
    /\ UNCHANGED <<table, job, connected, queue, cancelled, budget>>

ComputeFails ==
    /\ phase = "computing" /\ ~cancelled
    /\ wake_in' = RetryWait
    /\ phase' = "waiting"
    /\ guessed' = TRUE
    /\ Fault
    /\ UNCHANGED <<table, job, listener, cancelled>>

\* mutant: the token not looked at before recv()
ReceiveNotification ==
    /\ phase = "waiting" /\ ~cancelled
    /\ queue > 0
    /\ queue' = queue - 1
    /\ phase' = "processing"
    /\ UNCHANGED <<table, job, wake_in, connected, missed, guessed, cancelled,
                   budget>>

\* mutant: the timer only has the next wake-up computed
TimerRecomputes ==
    /\ phase = "waiting" /\ ~cancelled
    /\ wake_in = 0
    /\ phase' = "computing"
    /\ UNCHANGED <<table, job, wake_in, listener, guessed, cancelled, budget>>
TimerFires ==
    /\ phase = "waiting" /\ ~cancelled
    /\ wake_in = 0
    /\ phase' = "processing"
    /\ UNCHANGED <<table, job, wake_in, listener, guessed, cancelled, budget>>

\* Inside recv(), and only there, PgListener reconnects and listens again;
\* it does not return, so the worker is not told that it was deaf.
Reconnect ==
    /\ phase = "waiting" /\ ~cancelled
    /\ ~connected
    /\ connected' = TRUE
    /\ UNCHANGED <<table, phase, job, wake_in, queue, missed, guessed,
                   cancelled, budget>>

-----------------------------------------------------------------------------
(* process_due: the result of the claim and of the delivery is logged at   *)
(* most, and the loop goes on.                                             *)

\* A claim that selects no row is a statement all the same.
ClaimNothing ==
    /\ phase = "processing"
    /\ Due = {}
    /\ Write(Moved({}, "claimed"))
    /\ phase' = "computing"
    /\ UNCHANGED <<job, wake_in, guessed, cancelled, budget>>

ClaimFirst(a) ==
    /\ phase = "processing"
    /\ a \in Due
    /\ \A b \in Due : table[a].fire_in <= table[b].fire_in
    /\ Write(Moved({a}, "claimed"))

ClaimDueAlert(a) ==
    /\ ClaimFirst(a)
    /\ phase' = "delivering"
    /\ job' = a
    /\ UNCHANGED <<wake_in, guessed, cancelled, budget>>

\* The claim commits, its result is lost.
ClaimLost(a) ==
    /\ ClaimFirst(a)
    /\ phase' = "computing"
    /\ Fault
    /\ UNCHANGED <<job, wake_in, guessed, cancelled>>

ClaimFails ==
    /\ phase = "processing"
    /\ phase' = "computing"
    /\ Fault
    /\ UNCHANGED <<table, job, wake_in, listener, guessed, cancelled>>

\* The rows that the write of deliver() still finds claimed.
Held == {job} \cap InState("claimed")

DeliveryEnds ==
    /\ phase = "delivering"
    /\ phase' = "computing"
    /\ job' = NoAlert
    /\ UNCHANGED <<wake_in, guessed, cancelled>>

\* mark_sent, mark_failed.
CloseAlert ==
    /\ DeliveryEnds
    /\ Write(Moved(Held, "closed"))
    /\ UNCHANGED budget

\* reschedule, advance_to_next_occurrence.
RepeatAlert ==
    /\ DeliveryEnds
    /\ \E delay \in 0 .. MaxDelay : Write(Armed(Held, delay))
    /\ repeats > 0 /\ repeats' = repeats - 1
    /\ UNCHANGED faults

WriteFails ==
    /\ DeliveryEnds
    /\ Fault
    /\ UNCHANGED <<table, listener>>

-----------------------------------------------------------------------------
(* Shutdown, failures, restart, time.                                      *)

RequestShutdown ==
    /\ ~cancelled /\ phase # "stopped"
    /\ cancelled' = TRUE
    /\ UNCHANGED <<table, phase, job, wake_in, listener, guessed, budget>>

\* The listener goes with run(), and so does what it has not returned.
\* mutant: deliver() in a task that outlives run()
LeaveDelivery(p) ==
    /\ phase' = p
    /\ connected' = FALSE
    /\ queue' = 0
    /\ UNCHANGED <<table, job, wake_in, missed, guessed, cancelled>>
Leave(p) ==
    /\ phase' = p
    /\ job' = NoAlert
    /\ connected' = FALSE
    /\ queue' = 0
    /\ UNCHANGED <<table, wake_in, missed, guessed, cancelled>>

\* mutant: the token ends a delivery as well
StopAtOnce ==
    /\ phase \in Running /\ cancelled
    /\ Leave("stopped")
    /\ UNCHANGED budget
Stop ==
    /\ phase \in {"computing", "waiting"} /\ cancelled
    /\ Leave("stopped")
    /\ UNCHANGED budget

\* The error of connect_with, listen or recv() ends run(); the supervisor
\* ends the process.  A panic, a kill or a power cut ends it anywhere.
Fail ==
    /\ phase \in {"starting"} \cup Running
    /\ Leave("failed")
    /\ Fault

\* systemd, unless the process was asked to stop.
Restart ==
    /\ phase = "failed" /\ ~cancelled
    /\ phase' = "starting"
    /\ UNCHANGED <<table, job, wake_in, listener, guessed, cancelled, budget>>

\* What the connection carried and recv() did not read may be lost with it.
ConnectionLost ==
    /\ connected
    /\ connected' = FALSE
    /\ \E kept \in 0 .. queue :
        /\ queue' = kept
        /\ missed' = (missed \/ kept < queue)
    /\ Fault
    /\ UNCHANGED <<table, phase, job, wake_in, guessed, cancelled>>

Tick ==
    /\ table' = [a \in Alerts |->
          IF /\ table[a].state \in {"pending", "claimed"}
             /\ table[a].fire_in > -MaxLate
          THEN [table[a] EXCEPT !.fire_in = table[a].fire_in - 1]
          ELSE table[a]]
    /\ wake_in' = IF wake_in > 0 THEN wake_in - 1 ELSE 0
    /\ UNCHANGED <<phase, job, listener, guessed, cancelled, budget>>

-----------------------------------------------------------------------------
Users == \E a \in Alerts : CreateAlert(a) \/ CancelAlert(a)

ProcessDue ==
    \/ ClaimNothing \/ ClaimFails
    \/ \E a \in Alerts : ClaimDueAlert(a) \/ ClaimLost(a)
    \/ CloseAlert \/ RepeatAlert \/ WriteFails

Run ==
    \/ Start \/ ComputeNextWake \/ ComputeFails
    \/ ReceiveNotification \/ TimerFires \/ Reconnect
    \/ ProcessDue \/ Stop

Next ==
    \/ Users \/ ReleaseStaleClaims \/ Run
    \/ RequestShutdown \/ Fail \/ Restart \/ ConnectionLost
    \/ Tick

\* run() is never blocked but in the wait, which has a timer; a notification
\* arrives in the end, and recv() comes before the timer; the reaper runs
\* every REAPER_INTERVAL; systemd restarts what failed.
Fairness ==
    /\ WF_vars(Run) /\ SF_vars(ReceiveNotification)
    /\ WF_vars(ReleaseStaleClaims) /\ WF_vars(Restart) /\ WF_vars(Tick)

Spec == Init /\ [][Next]_vars
FairSpec == Spec /\ Fairness
=============================================================================
