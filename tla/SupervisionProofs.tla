-------------------------- MODULE SupervisionProofs --------------------------
(***************************************************************************)
(* Proofs about Supervision, for any number of handlers and failures: the  *)
(* exit status means what systemd takes it for.                            *)
(***************************************************************************)
EXTENDS SupervisionProperties, TLAPS

\* What the supervisor has seen at each of its stages.  It joins the worker
\* after the dispatcher's end, and the dispatcher after a requested stop of
\* the worker: only a signal cancels the token before supervise() does.
Stages ==
    /\ supervisor = "select" /\ token => signal = "finished"
    /\ supervisor = "join_worker" => DispatchDone /\ token
    /\ supervisor = "join_dispatch" =>
          worker = "stopped" /\ token /\ (signal = "finished" \/ DispatchDone)

\* A dispatcher that ended has drained; a process that goes on has cut
\* nothing.
Drained ==
    /\ dispatcher = "ended" => inFlight = 0
    /\ Running => ~cut

IInv == TypeOK /\ Stages /\ Drained /\ CleanExitFinishesAll

-----------------------------------------------------------------------------
LEMMA InvInit == Init => IInv
<1> SUFFICES ASSUME Init PROVE IInv
  OBVIOUS
<1>1. 0 \in 0 .. MaxHandlers /\ 0 \in 0 .. MaxFailures
  BY SupervisionAssumption
<1>2. TypeOK
  BY <1>1 DEF Init, TypeOK, SignalTask, Dispatcher, Worker, Supervisor, Result,
              Supervised
<1> QED
  BY <1>2 DEF Init, IInv, Stages, Drained, CleanExitFinishesAll

\* The signal task: it only tells others.
LEMMA InvSignal ==
    ASSUME IInv, SignalArrives \/ SignalHandler
    PROVE  IInv'
<1> USE DEF IInv, TypeOK, SignalTask, Dispatcher, Worker, Supervisor, Result,
            Stages, Drained, CleanExitFinishesAll, DispatchDone, Running, Supervised
<1>1. CASE SignalArrives
  BY <1>1 DEF SignalArrives
<1>2. CASE TellDispatcher
  BY <1>2 DEF TellDispatcher
<1>3. CASE CancelToken
  BY <1>3 DEF CancelToken
<1> QED
  BY <1>1, <1>2, <1>3 DEF SignalHandler

\* A failure is counted and stays within its bound.
LEMMA FailureCounted ==
    ASSUME failures \in 0 .. MaxFailures, Failure
    PROVE  failures' \in 0 .. MaxFailures
  BY SupervisionAssumption DEF Failure

\* The dispatcher and its handlers.
LEMMA InvDispatch ==
    ASSUME IInv, Dispatch \/ TakeUpdate \/ HandlerEnds \/ ListenerEnds
    PROVE  IInv'
<1> USE DEF IInv, TypeOK, SignalTask, Dispatcher, Worker, Supervisor, Result,
            Stages, Drained, CleanExitFinishesAll, DispatchDone, Running, Supervised
<1>1. CASE StartDispatching
  BY <1>1, FailureCounted DEF StartDispatching
<1>2. CASE DispatchEnds
  BY <1>2 DEF DispatchEnds
<1>3. CASE TakeUpdate
  BY <1>3, SupervisionAssumption DEF TakeUpdate
<1>4. CASE HandlerEnds
  BY <1>4, SupervisionAssumption DEF HandlerEnds
<1>5. CASE ListenerEnds
  BY <1>5, FailureCounted DEF ListenerEnds
<1> QED
  BY <1>1, <1>2, <1>3, <1>4, <1>5 DEF Dispatch

\* The worker: it stops only when it was told to, and a worker that stopped
\* does not fail any more.
LEMMA InvWork ==
    ASSUME IInv, WorkerDelivers \/ Work \/ WorkerFails
    PROVE  IInv'
<1> USE DEF IInv, TypeOK, SignalTask, Dispatcher, Worker, Supervisor, Result,
            Stages, Drained, CleanExitFinishesAll, DispatchDone, Running, Supervised
<1>1. CASE WorkerDelivers
  BY <1>1 DEF WorkerDelivers
<1>2. CASE DeliveryEnds
  BY <1>2 DEF DeliveryEnds
<1>3. CASE WorkerStops
  BY <1>3 DEF WorkerStops
<1>4. CASE WorkerFails
  BY <1>4, FailureCounted DEF WorkerFails, WorkerDone
<1> QED
  BY <1>1, <1>2, <1>3, <1>4 DEF Work

\* supervise() and main(): a success is reported only from a join, after both
\* tasks have ended.
LEMMA InvSupervise ==
    ASSUME IInv, Supervise \/ Restart
    PROVE  IInv'
<1> USE DEF IInv, TypeOK, SignalTask, Dispatcher, Worker, Supervisor, Result,
            Stages, Drained, CleanExitFinishesAll, DispatchDone, Running, Supervised
<1>1. CASE SeeDispatchEnd
  BY <1>1 DEF SeeDispatchEnd
<1>2. CASE JoinWorker
  BY <1>2 DEF JoinWorker, Return
<1>3. CASE SeeWorkerEnd
  BY <1>3 DEF SeeWorkerEnd, Return
<1>4. CASE JoinDispatch
  BY <1>4 DEF JoinDispatch, Return
<1>5. CASE Exit
  BY <1>5, SupervisionAssumption DEF Exit
<1>6. CASE Restart
  <2>1. 0 \in 0 .. MaxHandlers
    BY SupervisionAssumption
  <2> QED
    BY <1>6, <2>1 DEF Restart, FreshProcess
<1> QED
  BY <1>1, <1>2, <1>3, <1>4, <1>5, <1>6 DEF Supervise

LEMMA InvNext == IInv /\ [Next]_vars => IInv'
<1> SUFFICES ASSUME IInv, [Next]_vars PROVE IInv'
  OBVIOUS
<1>1. CASE Next
  BY <1>1, InvSignal, InvDispatch, InvWork, InvSupervise DEF Next
<1>2. CASE UNCHANGED vars
  BY <1>2 DEF vars, IInv, TypeOK, Stages, Drained, CleanExitFinishesAll,
              DispatchDone, Running, Supervised
<1> QED
  BY <1>1, <1>2

LEMMA Invariance == Spec => []IInv
  BY InvInit, InvNext, PTL DEF Spec

-----------------------------------------------------------------------------
\* Type correctness of the process and its tasks.
THEOREM TypeCorrect == Spec => []TypeOK
<1>1. IInv => TypeOK
  BY DEF IInv
<1> QED
  BY <1>1, Invariance, PTL

\* Status 0 means that both tasks finished and no handler was cut off, in
\* whichever order tasks end, fail and are told to stop (supervise).
THEOREM CleanExit == Spec => []CleanExitFinishesAll
<1>1. IInv => CleanExitFinishesAll
  BY DEF IInv
<1> QED
  BY <1>1, Invariance, PTL

\* A worker that failed ends the process with an error, so that systemd
\* replaces it (supervise, Restart=on-failure).
THEOREM DeadWorkerIsNoticed == Spec => []DeadWorkerFailsProcess
<1>1. IInv => DeadWorkerFailsProcess
  BY DEF IInv, Stages, CleanExitFinishesAll, DeadWorkerFailsProcess
<1> QED
  BY <1>1, Invariance, PTL

\* supervise() joins no task that nobody told to stop.
THEOREM JoinsTold == Spec => []JoinsAreTold
<1>1. IInv => JoinsAreTold
  BY DEF IInv, Stages, JoinsAreTold
<1> QED
  BY <1>1, Invariance, PTL
=============================================================================
