----------------------------- MODULE Supervision -----------------------------
(***************************************************************************)
(* The life of one process of the bot and of its successors: supervise(),  *)
(* the signal handler and the task it watches over in crates/bot/src/      *)
(* main.rs, and systemd, which restarts what failed.                       *)
(*                                                                         *)
(* The dispatcher and the worker are reduced to what the supervisor sees;  *)
(* what they do is in ChatHandlers and WorkerLoop.                         *)
(***************************************************************************)
EXTENDS Integers

CONSTANTS
    MaxHandlers,    \* bound: handlers in flight at once
    MaxFailures     \* bound: tasks that fail over all lives

ASSUME SupervisionAssumption == MaxHandlers \in Nat /\ MaxFailures \in Nat

VARIABLES
    signal,         \* the task of spawn_signal_handler
    token,          \* the CancellationToken is cancelled
    dispatcher,     \* the future that dispatches updates
    inFlight,       \* handlers that run in the dispatcher's tasks
    worker,         \* the task of worker::run
    supervisor,     \* where supervise() and then main() stand
    result,         \* what supervise() returned
    failures,       \* tasks that have failed so far
    cut             \* the process ended with handlers in flight

vars == <<signal, token, dispatcher, inFlight, worker, supervisor, result,
          failures, cut>>

SignalTask == {"listening", "notifying", "cancelling", "finished"}
Dispatcher == {"starting", "running", "draining", "ended", "failed"}
Worker == {"waiting", "delivering", "stopped", "failed"}
Supervisor == {"select", "join_worker", "join_dispatch", "reporting", "exited"}
Result == {"none", "ok", "error"}

DispatchDone == dispatcher \in {"ended", "failed"}
WorkerDone == worker \in {"stopped", "failed"}
Running == supervisor # "exited"

\* What main() sets up before supervise().
FreshProcess ==
    /\ signal' = "listening" /\ token' = FALSE /\ dispatcher' = "starting"
    /\ inFlight' = 0 /\ worker' = "waiting" /\ supervisor' = "select"
    /\ result' = "none" /\ cut' = FALSE

Init ==
    /\ signal = "listening" /\ token = FALSE /\ dispatcher = "starting"
    /\ inFlight = 0 /\ worker = "waiting" /\ supervisor = "select"
    /\ result = "none" /\ cut = FALSE /\ failures = 0

Failure == failures < MaxFailures /\ failures' = failures + 1

-----------------------------------------------------------------------------
(* spawn_signal_handler: one signal, then an awaited note to the           *)
(* administrator, then the dispatcher, then the token.                     *)

SignalArrives ==
    /\ Running /\ signal = "listening"
    /\ signal' = "notifying"
    /\ UNCHANGED <<token, dispatcher, inFlight, worker, supervisor, result, failures, cut>>

\* ShutdownToken::shutdown takes effect on a dispatcher that runs; on one that
\* has not started it is an error, which is logged.
\* mutant
TellNobody ==
    /\ Running /\ signal = "notifying"
    /\ signal' = "cancelling"
    /\ UNCHANGED <<token, dispatcher, inFlight, worker, supervisor, result, failures, cut>>
\* mutant
TellOrReturn ==
    /\ Running /\ signal = "notifying"
    /\ IF dispatcher = "running"
       THEN signal' = "cancelling" /\ dispatcher' = "draining"
       ELSE signal' = "finished" /\ UNCHANGED dispatcher
    /\ UNCHANGED <<token, inFlight, worker, supervisor, result, failures, cut>>
TellDispatcher ==
    /\ Running /\ signal = "notifying"
    /\ signal' = "cancelling"
    /\ dispatcher' = IF dispatcher = "running" THEN "draining" ELSE dispatcher
    /\ UNCHANGED <<token, inFlight, worker, supervisor, result, failures, cut>>

CancelToken ==
    /\ Running /\ signal = "cancelling"
    /\ signal' = "finished"
    /\ token' = TRUE
    /\ UNCHANGED <<dispatcher, inFlight, worker, supervisor, result, failures, cut>>

-----------------------------------------------------------------------------
(* The dispatcher.  supervise() drops its future when it returns, the      *)
(* handlers' own tasks run on until the process ends.                      *)

Supervised == supervisor \in {"select", "join_worker", "join_dispatch"}

StartDispatching ==
    /\ Supervised /\ dispatcher = "starting"
    /\ \/ dispatcher' = "running" /\ UNCHANGED failures
       \/ Failure /\ dispatcher' = "failed"
    /\ UNCHANGED <<signal, token, inFlight, worker, supervisor, result, cut>>

TakeUpdate ==
    /\ Supervised /\ dispatcher = "running" /\ inFlight < MaxHandlers
    /\ inFlight' = inFlight + 1
    /\ UNCHANGED <<signal, token, dispatcher, worker, supervisor, result, failures, cut>>

HandlerEnds ==
    /\ Running /\ inFlight > 0
    /\ inFlight' = inFlight - 1
    /\ UNCHANGED <<signal, token, dispatcher, worker, supervisor, result, failures, cut>>

\* The webhook listener ends by itself.
ListenerEnds ==
    /\ Supervised /\ dispatcher = "running"
    /\ Failure
    /\ dispatcher' = "draining"
    /\ UNCHANGED <<signal, token, inFlight, worker, supervisor, result, cut>>

DispatchEnds ==
    /\ Supervised /\ dispatcher = "draining" /\ inFlight = 0
    /\ dispatcher' = "ended"
    /\ UNCHANGED <<signal, token, inFlight, worker, supervisor, result, failures, cut>>

-----------------------------------------------------------------------------
(* The worker.                                                             *)

WorkerDelivers ==
    /\ Running /\ worker = "waiting"
    /\ worker' = "delivering"
    /\ UNCHANGED <<signal, token, dispatcher, inFlight, supervisor, result, failures, cut>>

DeliveryEnds ==
    /\ Running /\ worker = "delivering"
    /\ worker' = "waiting"
    /\ UNCHANGED <<signal, token, dispatcher, inFlight, supervisor, result, failures, cut>>

WorkerStops ==
    /\ Running /\ worker = "waiting" /\ token
    /\ worker' = "stopped"
    /\ UNCHANGED <<signal, token, dispatcher, inFlight, supervisor, result, failures, cut>>

\* The listener's connection is refused, or the task panics.
WorkerFails ==
    /\ Running /\ ~WorkerDone
    /\ Failure
    /\ worker' = "failed"
    /\ UNCHANGED <<signal, token, dispatcher, inFlight, supervisor, result, cut>>

-----------------------------------------------------------------------------
(* supervise(): a select without bias over dispatcher and worker.          *)

Return(r) == supervisor' = "reporting" /\ result' = r

\* mutant
DispatchResultAlone ==
    /\ supervisor = "select" /\ DispatchDone
    /\ token' = TRUE
    /\ Return(IF dispatcher = "failed" THEN "error" ELSE "ok")
    /\ UNCHANGED <<signal, dispatcher, inFlight, worker, failures, cut>>
\* mutant
JoinWorkerUntold ==
    /\ supervisor = "select" /\ DispatchDone
    /\ supervisor' = "join_worker"
    /\ UNCHANGED <<signal, token, dispatcher, inFlight, worker, result, failures, cut>>
SeeDispatchEnd ==
    /\ supervisor = "select" /\ DispatchDone
    /\ token' = TRUE
    /\ supervisor' = "join_worker"
    /\ UNCHANGED <<signal, dispatcher, inFlight, worker, result, failures, cut>>

JoinWorker ==
    /\ supervisor = "join_worker" /\ WorkerDone
    /\ Return(IF worker = "stopped" /\ dispatcher = "ended" THEN "ok" ELSE "error")
    /\ UNCHANGED <<signal, token, dispatcher, inFlight, worker, failures, cut>>

\* An error or a panic returns at once; so does an end that nobody requested.
\* mutant
WaitAfterWorkerError ==
    /\ supervisor = "select" /\ WorkerDone
    /\ token' = TRUE
    /\ supervisor' = "join_dispatch" /\ UNCHANGED result
    /\ UNCHANGED <<signal, dispatcher, inFlight, worker, failures, cut>>
SeeWorkerEnd ==
    /\ supervisor = "select" /\ WorkerDone
    /\ token' = TRUE
    /\ IF worker = "stopped" /\ token
       THEN supervisor' = "join_dispatch" /\ UNCHANGED result
       ELSE Return("error")
    /\ UNCHANGED <<signal, dispatcher, inFlight, worker, failures, cut>>

JoinDispatch ==
    /\ supervisor = "join_dispatch" /\ DispatchDone
    /\ Return(IF dispatcher = "ended" THEN "ok" ELSE "error")
    /\ UNCHANGED <<signal, token, dispatcher, inFlight, worker, failures, cut>>

\* main() awaits its last notes and ends; every task ends with it.
Exit ==
    /\ supervisor = "reporting"
    /\ supervisor' = "exited"
    /\ cut' = (inFlight > 0)
    /\ inFlight' = 0
    /\ UNCHANGED <<signal, token, dispatcher, worker, result, failures>>

\* Restart=on-failure.
Restart ==
    /\ ~Running /\ result = "error"
    /\ FreshProcess
    /\ UNCHANGED failures

-----------------------------------------------------------------------------
SignalHandler == TellDispatcher \/ CancelToken
Dispatch == StartDispatching \/ DispatchEnds
Work == DeliveryEnds \/ WorkerStops
Supervise == SeeDispatchEnd \/ JoinWorker \/ SeeWorkerEnd \/ JoinDispatch \/ Exit

Next ==
    \/ SignalArrives \/ SignalHandler
    \/ Dispatch \/ TakeUpdate \/ HandlerEnds \/ ListenerEnds
    \/ WorkerDelivers \/ Work \/ WorkerFails
    \/ Supervise \/ Restart

Spec == Init /\ [][Next]_vars

\* Every await of these tasks ends: the note to the administrator and the
\* deliveries with the HTTP client's timeout, a handler with its last await.
\* WorkerStops competes with deliveries for the waiting worker; its select
\* looks at the token first.
Fairness ==
    /\ WF_vars(SignalHandler) /\ WF_vars(Dispatch) /\ WF_vars(Supervise)
    /\ WF_vars(HandlerEnds) /\ WF_vars(DeliveryEnds) /\ SF_vars(WorkerStops)
    /\ WF_vars(Restart)

FairSpec == Spec /\ Fairness
=============================================================================
