------------------------ MODULE SupervisionProperties ------------------------
(***************************************************************************)
(* What systemd and the administrator can rely on, and what they cannot.   *)
(***************************************************************************)
EXTENDS Supervision

\* Type correctness; supervise() has a result once it has returned, and the
\* signal task does not end before it has cancelled the token, whether the
\* dispatcher could be told or not (spawn_signal_handler).
TypeOK ==
    /\ signal \in SignalTask /\ dispatcher \in Dispatcher /\ worker \in Worker
    /\ supervisor \in Supervisor /\ result \in Result
    /\ token \in BOOLEAN /\ cut \in BOOLEAN
    /\ inFlight \in 0 .. MaxHandlers /\ failures \in 0 .. MaxFailures
    /\ result = "none" <=> Supervised
    /\ signal = "finished" => token

\* The exit status tells a requested end from a failure: status 0 means that
\* the worker finished its delivery and stopped, the dispatcher drained, and
\* no handler was cut off, in whichever order the two tasks ended (supervise).
CleanExitFinishesAll ==
    result = "ok" =>
        worker = "stopped" /\ dispatcher = "ended" /\ inFlight = 0 /\ ~cut

\* A worker that died is never mistaken for a requested stop, even if a signal
\* arrives at the same moment: its process ends with an error.
DeadWorkerFailsProcess ==
    worker = "failed" => result # "ok" /\ supervisor # "join_dispatch"

\* The supervisor waits only for a task that was told to stop: the worker
\* through the token, the dispatcher unless it had not started when the
\* signal came.
JoinsAreTold ==
    /\ supervisor = "join_worker" => token
    /\ supervisor = "join_dispatch" => signal = "finished" \/ DispatchDone

\* A signal that finds the dispatcher at work ends the process, whatever fails
\* on the way (spawn_signal_handler, supervise).
StopsWhenAsked ==
    (signal = "notifying" /\ dispatcher = "running") ~> supervisor = "exited"

\* main.rs:367-372: the signal handler tells the dispatcher to stop, because
\* otherwise it "ignores SIGTERM" and "systemd has to SIGKILL us": any
\* signal ends the process.
EverySignalStops == signal = "notifying" ~> supervisor = "exited"
=============================================================================
