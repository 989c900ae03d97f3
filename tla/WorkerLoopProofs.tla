-------------------------- MODULE WorkerLoopProofs --------------------------
(***************************************************************************)
(* Proofs about WorkerLoop, for every set of alerts, every wait and delay  *)
(* and every number of faults.                                             *)
(***************************************************************************)
EXTENDS WorkerLoopProperties, TLAPS

TableRow == [state : RowState, fire_in : -MaxLate .. MaxDelay]

-----------------------------------------------------------------------------
(* Statements.                                                             *)

LEMMA MovedType ==
    ASSUME TypeOK, NEW rows \in SUBSET Alerts, NEW s \in RowState
    PROVE  Moved(rows, s) \in [rows -> TableRow]
  BY DEF Moved, TableRow, TypeOK

LEMMA ArmedType ==
    ASSUME NEW rows \in SUBSET Alerts, NEW delay \in 0 .. MaxDelay
    PROVE  Armed(rows, delay) \in [rows -> TableRow]
<1>1. delay \in -MaxLate .. MaxDelay
  BY LoopAssumption
<1> QED
  BY <1>1 DEF Armed, TableRow, RowState

\* A statement keeps the table and the listener well typed.
LEMMA WriteType ==
    ASSUME TypeOK, NEW rows \in SUBSET Alerts,
           NEW changes \in [rows -> TableRow], Write(changes)
    PROVE  /\ table' \in [Alerts -> TableRow]
           /\ connected' \in BOOLEAN /\ queue' \in Nat /\ missed' \in BOOLEAN
  BY DEF TypeOK, TableRow, Write, Notify

\* The state of the table that an invariant of the other variables needs.
LEMMA TypeFromParts ==
    ASSUME table' \in [Alerts -> TableRow],
           connected' \in BOOLEAN, queue' \in Nat, missed' \in BOOLEAN,
           phase' \in Phase, job' \in Alerts \cup {NoAlert},
           (job' # NoAlert) <=> (phase' = "delivering"),
           wake_in' \in Nat, guessed' \in BOOLEAN, cancelled' \in BOOLEAN,
           faults' \in 0 .. MaxFaults, repeats' \in 0 .. MaxRepeats
    PROVE  TypeOK'
  BY DEF TypeOK, TableRow

\* The budgets, however a step spends them.
LEMMA BudgetType ==
    ASSUME TypeOK, \/ Fault
                   \/ UNCHANGED budget
                   \/ repeats > 0 /\ repeats' = repeats - 1 /\ UNCHANGED faults
    PROVE  faults' \in 0 .. MaxFaults /\ repeats' \in 0 .. MaxRepeats
  BY LoopAssumption DEF TypeOK, Fault, budget

-----------------------------------------------------------------------------
(* Type correctness.                                                       *)

LEMMA TypeInit == Init => TypeOK
<1> SUFFICES ASSUME Init PROVE TypeOK
  OBVIOUS
<1>1. 0 \in -MaxLate .. MaxDelay
  BY LoopAssumption
<1>2. table \in [Alerts -> TableRow]
  BY <1>1 DEF Init, TableRow, RowState
<1>3. faults \in 0 .. MaxFaults /\ repeats \in 0 .. MaxRepeats
  BY LoopAssumption DEF Init
<1> QED BY <1>2, <1>3 DEF Init, TypeOK, TableRow, Phase

\* Steps that write the table: users, the reaper, the claim, its outcome.
LEMMA WritersType ==
    ASSUME TypeOK, Users \/ ReleaseStaleClaims \/ ProcessDue
    PROVE  TypeOK'
<1> USE DEF Phase, Running, RowState
<1>1. ASSUME NEW a \in Alerts, CreateAlert(a) PROVE TypeOK'
  <2>1. PICK delay \in 1 .. MaxDelay : Write(Armed({a}, delay))
    BY <1>1 DEF CreateAlert
  <2>2. Armed({a}, delay) \in [{a} -> TableRow]
    BY ArmedType
  <2> QED
    BY <1>1, <2>1, <2>2, WriteType, BudgetType, TypeFromParts
       DEF CreateAlert, TypeOK
<1>2. ASSUME NEW a \in Alerts, CancelAlert(a) PROVE TypeOK'
  <2>1. Moved({a}, "closed") \in [{a} -> TableRow]
    BY MovedType
  <2> QED
    BY <1>2, <2>1, WriteType, BudgetType, TypeFromParts
       DEF CancelAlert, TypeOK
<1>3. ASSUME ReleaseStaleClaims PROVE TypeOK'
  <2>1. PICK rows \in SUBSET InState("claimed") :
            /\ Write(Moved(rows, "pending"))
            /\ Fault \/ UNCHANGED budget
    BY <1>3 DEF ReleaseStaleClaims
  <2>2. rows \in SUBSET Alerts
    BY DEF InState
  <2>3. Moved(rows, "pending") \in [rows -> TableRow]
    BY <2>2, MovedType
  <2> QED
    BY <1>3, <2>1, <2>2, <2>3, WriteType, BudgetType, TypeFromParts
       DEF ReleaseStaleClaims, TypeOK
<1>4. ASSUME ClaimNothing PROVE TypeOK'
  <2>1. Moved({}, "claimed") \in [{} -> TableRow]
    BY MovedType
  <2> QED
    BY <1>4, <2>1, WriteType, BudgetType, TypeFromParts
       DEF ClaimNothing, TypeOK
<1>5. ASSUME NEW a \in Alerts, ClaimDueAlert(a) \/ ClaimLost(a) PROVE TypeOK'
  <2>1. Moved({a}, "claimed") \in [{a} -> TableRow]
    BY MovedType
  <2>2. Write(Moved({a}, "claimed")) /\ phase = "processing"
    BY <1>5 DEF ClaimDueAlert, ClaimLost, ClaimFirst
  <2>3. /\ table' \in [Alerts -> TableRow]
        /\ connected' \in BOOLEAN /\ queue' \in Nat /\ missed' \in BOOLEAN
    BY <2>1, <2>2, WriteType
  <2>4. CASE ClaimDueAlert(a)
    BY <2>3, <2>4, LoopAssumption, BudgetType, TypeFromParts
       DEF ClaimDueAlert, TypeOK
  <2>5. CASE ClaimLost(a)
    BY <2>2, <2>3, <2>5, BudgetType, TypeFromParts DEF ClaimLost, TypeOK
  <2> QED BY <1>5, <2>4, <2>5
<1>6. ASSUME ClaimFails PROVE TypeOK'
  BY <1>6, BudgetType DEF ClaimFails, TypeOK, listener
<1>7. ASSUME CloseAlert \/ RepeatAlert PROVE TypeOK'
  <2>1. Held \in SUBSET Alerts
    BY DEF Held, InState
  <2>2. PICK changes \in [Held -> TableRow] : Write(changes)
    <3>1. CASE CloseAlert
      BY <2>1, <3>1, MovedType DEF CloseAlert
    <3>2. CASE RepeatAlert
      <4>1. PICK delay \in 0 .. MaxDelay : Write(Armed(Held, delay))
        BY <3>2 DEF RepeatAlert
      <4> QED BY <2>1, <4>1, ArmedType
    <3> QED BY <1>7, <3>1, <3>2
  <2>3. DeliveryEnds
    BY <1>7 DEF CloseAlert, RepeatAlert
  <2>4. faults' \in 0 .. MaxFaults /\ repeats' \in 0 .. MaxRepeats
    BY <1>7, BudgetType DEF CloseAlert, RepeatAlert
  <2> QED
    BY <2>1, <2>2, <2>3, <2>4, WriteType, TypeFromParts
       DEF DeliveryEnds, TypeOK
<1>8. ASSUME WriteFails PROVE TypeOK'
  BY <1>8, BudgetType DEF WriteFails, DeliveryEnds, TypeOK, listener
<1> QED
  BY <1>1, <1>2, <1>3, <1>4, <1>5, <1>6, <1>7, <1>8 DEF Users, ProcessDue

\* The other steps of run().
LEMMA LoopType ==
    ASSUME TypeOK,
           \/ Start \/ ComputeNextWake \/ ComputeFails
           \/ ReceiveNotification \/ TimerFires \/ Reconnect
    PROVE  TypeOK'
<1> USE DEF TypeOK, Phase, Running, listener, budget
<1>1. ASSUME Start PROVE TypeOK'
  BY <1>1 DEF Start
<1>2. ASSUME ComputeNextWake PROVE TypeOK'
  <2>1. wake_in' \in Nat
    BY <1>2, LoopAssumption
       DEF ComputeNextWake, NextPendingFireAt, InState, Overdue
  <2> QED BY <1>2, <2>1 DEF ComputeNextWake
<1>3. ASSUME ComputeFails PROVE TypeOK'
  BY <1>3, BudgetType, LoopAssumption DEF ComputeFails
<1>4. ASSUME ReceiveNotification PROVE TypeOK'
  BY <1>4 DEF ReceiveNotification
<1>5. ASSUME TimerFires PROVE TypeOK'
  BY <1>5 DEF TimerFires
<1>6. ASSUME Reconnect PROVE TypeOK'
  BY <1>6 DEF Reconnect
<1> QED BY <1>1, <1>2, <1>3, <1>4, <1>5, <1>6

\* Shutdown, failure, restart, the connection and time.
LEMMA SurroundingsType ==
    ASSUME TypeOK,
           Stop \/ RequestShutdown \/ Fail \/ Restart \/ ConnectionLost \/ Tick
    PROVE  TypeOK'
<1> USE DEF TypeOK, Phase, Running, listener, budget
<1>1. ASSUME Stop PROVE TypeOK'
  BY <1>1 DEF Stop, Leave
<1>2. ASSUME RequestShutdown PROVE TypeOK'
  BY <1>2 DEF RequestShutdown
<1>3. ASSUME Fail PROVE TypeOK'
  BY <1>3, BudgetType DEF Fail, Leave
<1>4. ASSUME Restart PROVE TypeOK'
  BY <1>4 DEF Restart
<1>5. ASSUME ConnectionLost PROVE TypeOK'
  <2>1. PICK kept \in 0 .. queue :
            queue' = kept /\ missed' = (missed \/ kept < queue)
    BY <1>5 DEF ConnectionLost
  <2>2. queue' \in Nat
    BY <2>1
  <2>3. missed' \in BOOLEAN
    BY <2>1, Zenon
  <2>4. Fault
    BY <1>5 DEF ConnectionLost
  <2>5. /\ connected' = FALSE
        /\ UNCHANGED <<table, phase, job, wake_in, guessed, cancelled>>
    BY <1>5 DEF ConnectionLost
  <2> QED BY <2>2, <2>3, <2>4, <2>5, BudgetType
<1>6. ASSUME Tick PROVE TypeOK'
  <2>1. table' \in [Alerts -> TableRow]
    BY <1>6, LoopAssumption DEF Tick, TableRow
  <2>2. wake_in' \in Nat
    BY <1>6 DEF Tick
  <2> QED BY <1>6, <2>1, <2>2 DEF Tick, TableRow
<1> QED BY <1>1, <1>2, <1>3, <1>4, <1>5, <1>6

LEMMA TypeStep == TypeOK /\ [Next]_vars => TypeOK'
<1> SUFFICES ASSUME TypeOK, [Next]_vars PROVE TypeOK'
  OBVIOUS
<1>1. CASE UNCHANGED vars
  BY <1>1 DEF vars, listener, budget, TypeOK
<1>2. CASE Next
  BY <1>2, WritersType, LoopType, SurroundingsType DEF Next, Run
<1> QED BY <1>1, <1>2

\* The loop of run() keeps its types and delivers one alert at a time.
THEOREM TypeCorrect == Spec => []TypeOK
<1>1. Init => TypeOK
  BY TypeInit
<1>2. TypeOK /\ [Next]_vars => TypeOK'
  BY TypeStep
<1> QED BY <1>1, <1>2, PTL DEF Spec

-----------------------------------------------------------------------------
(* The timer covers what is pending.                                       *)

\* The notification of a statement that touches a row waits in the queue, or
\* it is missed.
LEMMA StatementIsHeard ==
    ASSUME TypeOK, NEW changes, Write(changes), DOMAIN changes # {}
    PROVE  queue' # 0 \/ missed'
<1>1. CASE connected
  <2>1. queue' = queue + 1
    BY <1>1 DEF Write, Notify, Fires
  <2> QED BY <2>1 DEF TypeOK
<1>2. CASE ~connected
  BY <1>2, Zenon DEF Write, Notify, Fires
<1> QED BY <1>1, <1>2

LEMMA TimerCoversStep ==
    TypeOK /\ TimerCoversPending /\ [Next]_vars => TimerCoversPending'
<1> SUFFICES ASSUME TypeOK, TimerCoversPending, [Next]_vars
             PROVE  TimerCoversPending'
  OBVIOUS
<1>1. CASE phase' # "waiting"
  BY <1>1 DEF TimerCoversPending
<1>2. CASE UNCHANGED vars
  BY <1>2 DEF vars, listener, TimerCoversPending, InState
<1>3. CASE Users
  <2>1. PICK a \in Alerts : CreateAlert(a) \/ CancelAlert(a)
    BY <1>3 DEF Users
  <2>2. UNCHANGED <<phase, wake_in, guessed>>
    BY <2>1 DEF CreateAlert, CancelAlert
  <2>3. queue' # 0 \/ missed'
    <3>1. CASE CreateAlert(a)
      <4>1. PICK delay \in 1 .. MaxDelay : Write(Armed({a}, delay))
        BY <3>1 DEF CreateAlert
      <4>2. DOMAIN Armed({a}, delay) # {}
        BY DEF Armed
      <4> QED BY <4>1, <4>2, StatementIsHeard
    <3>2. CASE CancelAlert(a)
      <4>1. Write(Moved({a}, "closed")) /\ DOMAIN Moved({a}, "closed") # {}
        BY <3>2 DEF CancelAlert, Moved
      <4> QED BY <4>1, StatementIsHeard
    <3> QED BY <2>1, <3>1, <3>2
  <2> QED BY <2>3 DEF TimerCoversPending
<1>4. CASE ReleaseStaleClaims
  <2>1. queue' # 0 \/ missed'
    <3>1. PICK rows \in SUBSET InState("claimed") :
              rows # {} /\ Write(Moved(rows, "pending"))
      BY <1>4 DEF ReleaseStaleClaims
    <3>2. DOMAIN Moved(rows, "pending") # {}
      BY <3>1 DEF Moved
    <3> QED BY <3>1, <3>2, StatementIsHeard
  <2> QED BY <2>1 DEF TimerCoversPending
<1>5. CASE Run /\ phase' = "waiting"
  <2>1. ComputeNextWake \/ ComputeFails \/ Reconnect
    BY <1>5 DEF Run, Start, ReceiveNotification, TimerFires, ProcessDue,
                ClaimNothing, ClaimFails, ClaimDueAlert, ClaimLost, CloseAlert,
                RepeatAlert, WriteFails, DeliveryEnds, Stop, Leave
  <2>2. CASE ComputeNextWake
    <3>1. table' = table
      BY <2>2 DEF ComputeNextWake
    <3>2. \A a \in InState("pending") : wake_in' <= Overdue(table[a].fire_in)
      <4>1. CASE InState("pending") = {}
        BY <4>1
      <4>2. CASE InState("pending") # {}
        BY <2>2, <4>2
           DEF ComputeNextWake, NextPendingFireAt, InState, Overdue, TypeOK
      <4> QED BY <4>1, <4>2
    <3> QED BY <3>1, <3>2 DEF TimerCoversPending, InState
  <2>3. CASE ComputeFails
    BY <2>3 DEF ComputeFails, TimerCoversPending
  <2>4. CASE Reconnect
    BY <2>4 DEF Reconnect, TimerCoversPending, InState
  <2> QED BY <2>1, <2>2, <2>3, <2>4
<1>6. CASE RequestShutdown
  BY <1>6 DEF RequestShutdown, listener, TimerCoversPending, InState
<1>7. CASE Fail \/ Restart
  BY <1>7 DEF Fail, Leave, Restart, TimerCoversPending
<1>8. CASE ConnectionLost
  <2>1. /\ UNCHANGED <<table, phase, wake_in, guessed>>
        /\ queue' = 0 /\ ~missed' => queue = 0 /\ ~missed
    <3>1. PICK kept \in 0 .. queue :
              queue' = kept /\ missed' = (missed \/ kept < queue)
      BY <1>8 DEF ConnectionLost
    <3>2. ~missed' => ~missed /\ ~(kept < queue)
      BY <3>1, Zenon
    <3>3. queue' = 0 /\ ~missed' => queue = 0
      BY <3>1, <3>2 DEF TypeOK
    <3>4. UNCHANGED <<table, phase, wake_in, guessed>>
      BY <1>8 DEF ConnectionLost
    <3> QED BY <3>2, <3>3, <3>4
  <2> QED BY <2>1 DEF TimerCoversPending, InState
<1>9. CASE Tick
  <2>1. UNCHANGED <<phase, queue, missed, guessed>>
    BY <1>9 DEF Tick, listener
  <2> SUFFICES ASSUME phase = "waiting", queue = 0, ~missed, ~guessed,
                      NEW a \in Alerts, table'[a].state = "pending"
               PROVE  wake_in' <= Overdue(table'[a].fire_in)
    BY <2>1 DEF TimerCoversPending, InState
  <2>2. /\ table[a].state = "pending"
        /\ table[a].fire_in \in -MaxLate .. MaxDelay
        /\ table'[a].fire_in = IF table[a].fire_in > -MaxLate
                               THEN table[a].fire_in - 1
                               ELSE table[a].fire_in
    BY <1>9 DEF Tick, TypeOK
  <2>3. wake_in <= Overdue(table[a].fire_in)
    BY <2>2 DEF TimerCoversPending, InState
  <2> QED BY <1>9, <2>2, <2>3, LoopAssumption DEF Tick, Overdue, TypeOK
<1> QED
  BY <1>1, <1>2, <1>3, <1>4, <1>5, <1>6, <1>7, <1>8, <1>9 DEF Next

\* While every notification since the last read has arrived, the worker never
\* sleeps past the first pending alert.
THEOREM TimerCovers == Spec => []TimerCoversPending
<1>1. Init => TimerCoversPending
  BY DEF Init, TimerCoversPending
<1>2. TypeOK /\ TimerCoversPending /\ [Next]_vars => TimerCoversPending'
  BY TimerCoversStep
<1> QED BY <1>1, <1>2, TypeCorrect, PTL DEF Spec

-----------------------------------------------------------------------------
(* A clean stop.  Without faults, what is claimed is at work.              *)

ClaimsAreAtWork ==
    faults = MaxFaults => \A a \in Alerts : table[a].state = "claimed" => a = job

\* A statement that claims nothing but what is at work.
LEMMA StatementKeepsClaims ==
    ASSUME NEW changes, Write(changes),
           \A a \in Alerts \cap DOMAIN changes : changes[a].state # "claimed",
           \A a \in Alerts \ DOMAIN changes : table[a].state = "claimed" => a = job'
    PROVE  \A a \in Alerts : table'[a].state = "claimed" => a = job'
  BY DEF Write

LEMMA ClaimsStep == TypeOK /\ ClaimsAreAtWork /\ [Next]_vars => ClaimsAreAtWork'
<1> SUFFICES ASSUME TypeOK, ClaimsAreAtWork, [Next]_vars, faults' = MaxFaults
             PROVE  \A a \in Alerts : table'[a].state = "claimed" => a = job'
  BY DEF ClaimsAreAtWork
<1>1. ~Fault
  BY LoopAssumption DEF Fault, TypeOK
<1>2. ASSUME faults' = faults, job' = job
      PROVE  \A a \in Alerts : table[a].state = "claimed" => a = job'
  BY <1>2 DEF ClaimsAreAtWork
<1>3. ASSUME UNCHANGED <<table, faults>>, job' = job \/ phase # "delivering"
      PROVE  \A a \in Alerts : table'[a].state = "claimed" => a = job'
  BY <1>3, LoopAssumption DEF ClaimsAreAtWork, TypeOK
<1>4. CASE Users
  <2>1. PICK a \in Alerts : CreateAlert(a) \/ CancelAlert(a)
    BY <1>4 DEF Users
  <2>2. UNCHANGED <<job, faults>>
    BY <2>1 DEF CreateAlert, CancelAlert, budget
  <2>3. CASE CreateAlert(a)
    <3>1. PICK delay \in 1 .. MaxDelay : Write(Armed({a}, delay))
      BY <2>3 DEF CreateAlert
    <3> QED BY <1>2, <2>2, <3>1, StatementKeepsClaims DEF Armed
  <2>4. CASE CancelAlert(a)
    <3>1. Write(Moved({a}, "closed"))
      BY <2>4 DEF CancelAlert
    <3> QED BY <1>2, <2>2, <3>1, StatementKeepsClaims DEF Moved
  <2> QED BY <2>1, <2>3, <2>4
<1>5. CASE ReleaseStaleClaims
  <2>1. PICK rows \in SUBSET InState("claimed") :
          Write(Moved(rows, "pending")) /\ UNCHANGED <<job, budget>>
    BY <1>1, <1>5 DEF ReleaseStaleClaims
  <2> QED BY <1>2, <2>1, StatementKeepsClaims DEF Moved, budget
<1>6. CASE ClaimNothing
  <2>1. Write(Moved({}, "claimed")) /\ UNCHANGED <<job, budget>>
    BY <1>6 DEF ClaimNothing
  <2> QED BY <1>2, <2>1, StatementKeepsClaims DEF Moved, budget
<1>7. ASSUME NEW a \in Alerts, ClaimDueAlert(a)
      PROVE  \A b \in Alerts : table'[b].state = "claimed" => b = job'
  <2>1. Write(Moved({a}, "claimed")) /\ job' = a /\ faults' = faults
        /\ phase = "processing"
    BY <1>7 DEF ClaimDueAlert, ClaimFirst, budget
  <2>2. \A b \in Alerts : table[b].state # "claimed"
    BY <2>1, LoopAssumption DEF ClaimsAreAtWork, TypeOK
  <2> QED BY <2>1, <2>2 DEF Write, Moved
<1>8. CASE CloseAlert \/ RepeatAlert
  <2>1. faults' = faults /\ phase = "delivering"
    BY <1>8 DEF CloseAlert, RepeatAlert, DeliveryEnds, budget
  <2>2. \A a \in Alerts \ Held : table[a].state # "claimed"
    BY <2>1 DEF ClaimsAreAtWork, Held, InState
  <2>3. CASE CloseAlert
    <3>1. Write(Moved(Held, "closed"))
      BY <2>3 DEF CloseAlert
    <3> QED BY <2>2, <3>1, StatementKeepsClaims DEF Moved
  <2>4. CASE RepeatAlert
    <3>1. PICK delay \in 0 .. MaxDelay : Write(Armed(Held, delay))
      BY <2>4 DEF RepeatAlert
    <3> QED BY <2>2, <3>1, StatementKeepsClaims DEF Armed
  <2> QED BY <1>8, <2>3, <2>4
<1>9. CASE Start \/ ComputeNextWake \/ ReceiveNotification \/ TimerFires
           \/ Reconnect \/ RequestShutdown \/ Restart
  BY <1>3, <1>9 DEF Start, ComputeNextWake, ReceiveNotification, TimerFires,
     Reconnect, RequestShutdown, Restart, budget
<1>10. CASE Stop
  BY <1>3, <1>10 DEF Stop, Leave, budget
<1>11. CASE Tick
  BY <1>2, <1>11 DEF Tick, budget, TypeOK
<1>12. CASE UNCHANGED vars
  BY <1>3, <1>12 DEF vars, budget
<1>13. CASE ComputeFails \/ ClaimFails \/ WriteFails \/ Fail \/ ConnectionLost
            \/ \E a \in Alerts : ClaimLost(a)
  BY <1>1, <1>13 DEF ComputeFails, ClaimFails, WriteFails, Fail, ConnectionLost, ClaimLost
<1> QED
  BY <1>4, <1>5, <1>6, <1>7, <1>8, <1>9, <1>10, <1>11, <1>12, <1>13
     DEF Next, Run, ProcessDue

\* The token ends the loop between two deliveries: without faults no alert is
\* left claimed by a process that has stopped (run).
THEOREM CleanStop == Spec => []CleanStopLeavesNoClaim
<1>1. Init => ClaimsAreAtWork
  BY DEF Init, ClaimsAreAtWork
<1>2. TypeOK /\ ClaimsAreAtWork => CleanStopLeavesNoClaim
  BY LoopAssumption DEF TypeOK, ClaimsAreAtWork, CleanStopLeavesNoClaim, InState
<1> QED BY <1>1, <1>2, ClaimsStep, TypeCorrect, PTL DEF Spec
=============================================================================
