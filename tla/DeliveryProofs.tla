--------------------------- MODULE DeliveryProofs ---------------------------
(***************************************************************************)
(* Proofs about Delivery, for every set of alerts and workers, every       *)
(* timeout and retry limit and every number of faults.                     *)
(***************************************************************************)
EXTENDS DeliveryProperties, TLAPS

-----------------------------------------------------------------------------
(* The statements of the store.                                            *)

\* The columns of a row, and what the statements compute from them.
LEMMA Columns ==
    /\ Unclaimed \in ClaimAge /\ 0 \in ClaimAge
    /\ 0 \in 0 .. AttemptsCeiling
    /\ \A n \in 0 .. AttemptsCeiling : NextAttempt(n) \in 0 .. AttemptsCeiling
    /\ \A t \in Int : Elapsed(t) \in Int
    /\ \A t \in ClaimAge : Older(t) \in ClaimAge
    /\ \A n \in Nat : n + 1 \in Nat
  BY StoreAssumption DEF Unclaimed, ClaimAge, NextAttempt, Elapsed, Older

LEMMA ColumnTypes ==
    ASSUME NEW r \in Row
    PROVE  /\ r.state \in AlertState
           /\ r.fire_in \in Int
           /\ r.attempts \in 0 .. AttemptsCeiling
           /\ r.claim_generation \in Nat
           /\ r.claim_age \in ClaimAge
           /\ r.chat_id \in ChatId
           /\ r.occurrence \in Nat
  BY DEF Row

\* Every statement turns a row of the table into a row of the table.
LEMMA NewRowTypes ==
    /\ NoRow \in Row
    /\ \A d \in Int, c \in ChatId : Inserted(d, c) \in Row
<1>1. NoRow \in Row
  BY Columns DEF NoRow, Row, AlertState, ChatId
<1>2. ASSUME NEW d \in Int, NEW c \in ChatId PROVE Inserted(d, c) \in Row
  BY Columns DEF Inserted, NoRow, Row, AlertState
<1> QED BY <1>1, <1>2

LEMMA StatementTypes ==
    ASSUME NEW r \in Row
    PROVE  /\ Cancelled(r) \in Row
           /\ Claimed(r) \in Row
           /\ MarkSent(r) \in Row /\ MarkFailed(r) \in Row
           /\ \A d \in Int : Rescheduled(r, d) \in Row
           /\ \A d \in Int : Advanced(r, d) \in Row
           /\ Released(r) \in Row
           /\ \A c, d \in ChatId : Migrated(r, c, d) \in Row
           /\ Aged(r) \in Row
<1>1. Cancelled(r) \in Row /\ MarkSent(r) \in Row /\ MarkFailed(r) \in Row
  BY DEF Cancelled, MarkSent, MarkFailed, Row, AlertState
<1>2. Claimed(r) \in Row
  <2> DEFINE n == NextAttempt(r.attempts)
             g == r.claim_generation + 1
  <2>1. n \in 0 .. AttemptsCeiling /\ g \in Nat
    BY ColumnTypes, Columns
  <2>2. Claimed(r) = [r EXCEPT !.state = "claimed", !.attempts = n,
                               !.claim_generation = g, !.claim_age = 0]
    BY DEF Claimed
  <2> HIDE DEF n, g
  <2> QED BY <2>1, <2>2, Columns DEF Row, AlertState
<1>3. \A d \in Int : Rescheduled(r, d) \in Row
  BY Columns DEF Rescheduled, Row, AlertState
<1>4. ASSUME NEW d \in Int PROVE Advanced(r, d) \in Row
  <2> DEFINE k == r.occurrence + 1
  <2>1. k \in Nat
    BY ColumnTypes, Columns
  <2>2. Advanced(r, d) =
          [r EXCEPT !.state = "pending", !.fire_in = d,
                    !.claim_age = Unclaimed, !.attempts = 0, !.occurrence = k]
    BY DEF Advanced
  <2> HIDE DEF k
  <2> QED BY <2>1, <2>2, Columns DEF Row, AlertState
<1>5. Released(r) \in Row
  BY Columns DEF Released, Row, AlertState
<1>6. \A c, d \in ChatId : Migrated(r, c, d) \in Row
  BY DEF Migrated, Row
<1>7. Aged(r) \in Row
  <2> DEFINE f == Elapsed(r.fire_in)
             c == Older(r.claim_age)
  <2>1. f \in Int /\ c \in ClaimAge
    BY ColumnTypes, Columns
  <2>2. [r EXCEPT !.fire_in = f, !.claim_age = c] \in Row
    <3> HIDE DEF f, c
    <3> QED BY <2>1 DEF Row
  <2> QED BY <2>2 DEF Aged
<1> QED BY <1>1, <1>2, <1>3, <1>4, <1>5, <1>6, <1>7

\* The retry delay of a transient error is a number of seconds.
LEMMA BackoffType == \A n \in Nat : BackoffOf(n) \in Nat
  BY BackoffAssumption DEF BackoffOf

-----------------------------------------------------------------------------
(* Type correctness.                                                       *)

\* The part of TypeOK that speaks of workers, and the rest.
WorkersOK ==
    /\ phase \in [Workers -> Phase]
    /\ job \in [Workers -> Job \cup {NoJob}]
    /\ \A w \in Workers : IsBusy(w) <=> job[w] \in Job
    /\ stalled \in SUBSET Workers
    /\ \A w \in stalled : IsBusy(w)

WorldOK ==
    /\ inbox \in [Alerts -> [Occurrences -> Nat]]
    /\ upgraded \in BOOLEAN
    /\ reachable \in BOOLEAN

FaultsOK == faults \in 0 .. MaxFaults

TableOK == row \in [Alerts -> Row]

LEMMA TypeParts == TypeOK <=> WorkersOK /\ WorldOK /\ FaultsOK /\ TableOK
  BY DEF TypeOK, WorkersOK, WorldOK, FaultsOK, TableOK

LEMMA TypePartsNext ==
    WorkersOK' /\ WorldOK' /\ FaultsOK' /\ TableOK' => TypeOK'
  BY DEF TypeOK, WorkersOK, WorldOK, FaultsOK, TableOK

LEMMA FaultType == FaultsOK /\ Fault => FaultsOK'
  BY DeliveryAssumption DEF FaultsOK, Fault

\* What a busy worker knows of its claim.
LEMMA JobTypes ==
    ASSUME TypeOK, NEW w \in Workers, IsBusy(w)
    PROVE  /\ job[w] \in Job
           /\ job[w].alert \in Alerts
           /\ job[w].generation \in Nat
           /\ job[w].attempts \in Nat
           /\ job[w].occurrence \in Nat
           /\ ClaimedRow(w) \in Row
  BY StoreAssumption DEF TypeOK, Job, ClaimedRow

\* A worker that goes idle, or down, takes its job and its stall with it.
LEMMA FreedType ==
    ASSUME WorkersOK, NEW w \in Workers, NEW p \in {"idle", "down"},
           phase' = [phase EXCEPT ![w] = p],
           job' = [job EXCEPT ![w] = NoJob],
           stalled' = stalled \ {w}
    PROVE  WorkersOK'
  BY NoJobAssumption DEF WorkersOK, IsBusy, Phase, Busy, Answered, OtherError

\* A worker that moves on to the next await of deliver keeps both.
LEMMA AdvanceType ==
    ASSUME WorkersOK, NEW w \in Workers, IsBusy(w), NEW p \in Busy,
           phase' = [phase EXCEPT ![w] = p],
           UNCHANGED <<job, stalled>>
    PROVE  WorkersOK'
  BY DEF WorkersOK, IsBusy, Phase

LEMMA WriteType ==
    ASSUME TypeOK, NEW w \in Workers, IsBusy(w), NEW r \in Row, Write(w, r)
    PROVE  TypeOK'
<1>1. TableOK'
  BY JobTypes DEF TypeOK, TableOK, Write
<1>2. WorkersOK'
  BY FreedType, TypeParts DEF Write, WorkerFreed
<1>3. WorldOK' /\ FaultsOK'
  BY TypeParts DEF Write, WorkerFreed, WorldOK, FaultsOK
<1> QED BY <1>1, <1>2, <1>3, TypePartsNext

LEMMA RingType ==
    ASSUME TypeOK, NEW w \in Workers, IsBusy(w), Ring(w)
    PROVE  inbox' \in [Alerts -> [Occurrences -> Nat]]
<1> DEFINE a == job[w].alert
           k == job[w].occurrence
<1>1. inbox[a] \in [Occurrences -> Nat]
  BY JobTypes DEF TypeOK
<1> DEFINE g == [inbox[a] EXCEPT ![k] = @ + 1]
<1>2. g \in [Occurrences -> Nat]
  <2>1. \A n \in Occurrences :
          g[n] = IF n = k THEN inbox[a][n] + 1 ELSE inbox[a][n]
    BY <1>1
  <2>2. \A n \in Occurrences : inbox[a][n] \in Nat /\ inbox[a][n] + 1 \in Nat
    BY <1>1
  <2>3. g = [n \in Occurrences |-> g[n]]
    BY <1>1
  <2> QED BY <2>1, <2>2, <2>3
<1> QED BY <1>2 DEF TypeOK, Ring

LEMMA MigrateType == TableOK /\ MigrateChat => TableOK'
  BY StatementTypes DEF TableOK, MigrateChat, ChatId

LEMMA TypeInit == Init => TypeOK
<1> SUFFICES ASSUME Init PROVE TypeOK
  OBVIOUS
<1>1. TableOK
  BY NewRowTypes DEF Init, TableOK
<1>2. WorkersOK
  BY NoJobAssumption
     DEF Init, WorkersOK, IsBusy, Phase, Busy, Answered, OtherError
<1>3. WorldOK
  BY DEF Init, WorldOK
<1>4. FaultsOK
  BY DeliveryAssumption DEF Init, FaultsOK
<1> QED BY <1>1, <1>2, <1>3, <1>4, TypeParts

\* One step per action; the writes of deliver share WriteType.
LEMMA TypeStep == TypeOK /\ [Next]_vars => TypeOK'
<1> SUFFICES ASSUME TypeOK, [Next]_vars PROVE TypeOK'
  OBVIOUS
<1> USE TypeParts
<1>1. ASSUME NEW a \in Alerts, CreateAlert(a) PROVE TypeOK'
  <2>1. PICK d \in 1 .. MaxDelay, c \in ChatId :
          row' = [row EXCEPT ![a] = Inserted(d, c)]
    BY <1>1 DEF CreateAlert, ChatId
  <2>2. Inserted(d, c) \in Row
    BY NewRowTypes, DeliveryAssumption
  <2> QED BY <1>1, <2>1, <2>2 DEF CreateAlert, TypeOK, IsBusy
<1>2. ASSUME NEW a \in Alerts, CancelAlert(a) PROVE TypeOK'
  BY <1>2, StatementTypes DEF CancelAlert, TypeOK, IsBusy
<1>3. CASE UpgradeGroup
  BY <1>3 DEF UpgradeGroup, TypeOK, IsBusy
<1>4. CASE BlockBot
  BY <1>4 DEF BlockBot, TypeOK, IsBusy
<1>5. CASE HandleChatMigration
  <2>1. TableOK'
    BY <1>5, MigrateType DEF HandleChatMigration
  <2>2. WorkersOK' /\ WorldOK' /\ FaultsOK'
    BY <1>5 DEF HandleChatMigration, WorkersOK, WorldOK, FaultsOK, IsBusy
  <2> QED BY <2>1, <2>2, TypePartsNext
<1>6. ASSUME NEW w \in Workers, ClaimDueAlerts(w) PROVE TypeOK'
  <2>1. PICK a \in Alerts :
          /\ row' = [row EXCEPT ![a] = Claimed(@)]
          /\ job' = [job EXCEPT ![w] = Snapshot(a, Claimed(row[a]))]
    BY <1>6 DEF ClaimDueAlerts
  <2>2. Claimed(row[a]) \in Row
    BY StatementTypes DEF TypeOK
  <2>3. Snapshot(a, Claimed(row[a])) \in Job
    BY <2>2, ColumnTypes DEF Snapshot, Job
  <2>4. TableOK'
    BY <2>1, <2>2 DEF TableOK
  <2>5. phase' = [phase EXCEPT ![w] = "sending"] /\ stalled' = stalled
    BY <1>6 DEF ClaimDueAlerts
  <2>6. WorkersOK'
    BY <2>1, <2>3, <2>5, NoJobAssumption
       DEF WorkersOK, IsBusy, Phase, Busy, Answered, OtherError
  <2>7. WorldOK' /\ FaultsOK'
    BY <1>6 DEF ClaimDueAlerts, WorldOK, FaultsOK
  <2> QED BY <2>4, <2>6, <2>7, TypePartsNext
<1>7. ASSUME NEW w \in Workers, ClaimLost(w) PROVE TypeOK'
  <2>1. PICK a \in Alerts : row' = [row EXCEPT ![a] = Claimed(@)]
    BY <1>7 DEF ClaimLost
  <2>2. Claimed(row[a]) \in Row
    BY StatementTypes DEF TypeOK
  <2>3. TableOK'
    BY <2>1, <2>2 DEF TableOK
  <2>4. WorkersOK' /\ WorldOK'
    BY <1>7 DEF ClaimLost, WorkersOK, WorldOK, IsBusy
  <2>5. FaultsOK'
    BY <1>7, FaultType DEF ClaimLost
  <2> QED BY <2>3, <2>4, <2>5, TypePartsNext
<1>8. ASSUME NEW w \in Workers, NEW p \in Busy, Answer(w, p)
      PROVE  IsBusy(w) /\ WorkersOK' /\ TableOK'
                       /\ upgraded' = upgraded /\ reachable' = reachable
  <2>1. IsBusy(w)
    BY <1>8 DEF Answer, IsBusy, Busy
  <2> QED BY <1>8, <2>1, AdvanceType DEF Answer, TableOK
<1>9. ASSUME NEW w \in Workers, SendAccepted(w) PROVE TypeOK'
  <2>1. "accepted" \in Busy
    BY DEF Busy, Answered, OtherError
  <2>2. IsBusy(w) /\ WorkersOK' /\ TableOK'
                  /\ upgraded' = upgraded /\ reachable' = reachable
    BY <1>8, <1>9, <2>1 DEF SendAccepted
  <2>3. WorldOK' /\ FaultsOK'
    BY <1>9, <2>2, RingType DEF SendAccepted, WorldOK, FaultsOK
  <2> QED BY <2>2, <2>3, TypePartsNext
<1>10. ASSUME NEW w \in Workers,
              SendMigrated(w) \/ SendRejected(w) \/ SendRefused(w)
       PROVE  TypeOK'
  <2>1. {"migrating", "rejected", "refused"} \subseteq Busy
    BY DEF Busy, Answered, OtherError
  <2>2. WorkersOK' /\ TableOK'
                   /\ upgraded' = upgraded /\ reachable' = reachable
    BY <1>8, <1>10, <2>1 DEF SendMigrated, SendRejected, SendRefused
  <2>3. WorldOK' /\ FaultsOK'
    BY <1>10, <2>2 DEF SendMigrated, SendRejected, SendRefused, WorldOK,
                         FaultsOK
  <2> QED BY <2>2, <2>3, TypePartsNext
<1>11. ASSUME NEW w \in Workers, SendLimited(w) \/ SendFailed(w)
       PROVE  TypeOK'
  <2>1. "limited" \in Busy /\ "transient" \in Busy
    BY DEF Busy, Answered, OtherError
  <2>2. IsBusy(w) /\ WorkersOK' /\ TableOK'
                  /\ upgraded' = upgraded /\ reachable' = reachable
    BY <1>8, <1>11, <2>1 DEF SendLimited, SendFailed
  <2>3. WorldOK'
    BY <1>11, <2>2, RingType DEF SendLimited, SendFailed, WorldOK
  <2>4. FaultsOK'
    BY <1>11, FaultType DEF SendLimited, SendFailed
  <2> QED BY <2>2, <2>3, <2>4, TypePartsNext
<1>12. ASSUME NEW w \in Workers, IsBusy(w), AdvanceToNext(w) PROVE TypeOK'
  <2>1. PICK d \in 1 .. MaxDelay : Write(w, Advanced(ClaimedRow(w), d))
    BY <1>12 DEF AdvanceToNext
  <2>2. d \in Int
    BY DeliveryAssumption
  <2>3. Advanced(ClaimedRow(w), d) \in Row
    BY <1>12, <2>2, JobTypes, StatementTypes
  <2> QED BY <1>12, <2>1, <2>3, WriteType
<1>13. ASSUME NEW w \in Workers, Settle(w) PROVE TypeOK'
  <2>1. IsBusy(w)
    BY <1>13 DEF Settle, FinaliseAfterSend, RescheduleLimited,
         FailPermanently, GiveUpOccurrence, RetryLater, MigrateThenRequeue,
         RequeueNow, IsBusy, Busy, Answered, OtherError
  <2>2. ClaimedRow(w) \in Row /\ job[w].attempts \in Nat
    BY <2>1, JobTypes
  <2>3. CASE FinaliseAfterSend(w)
    BY <1>12, <2>1, <2>2, <2>3, WriteType, StatementTypes
       DEF FinaliseAfterSend
  <2>4. CASE RescheduleLimited(w)
    <3>1. PICK d \in 1 .. MaxDelay : Write(w, Rescheduled(ClaimedRow(w), d))
      BY <2>4 DEF RescheduleLimited
    <3>2. d \in Int
      BY DeliveryAssumption
    <3>3. Rescheduled(ClaimedRow(w), d) \in Row
      BY <2>2, <3>2, StatementTypes
    <3> QED BY <2>1, <3>1, <3>3, WriteType
  <2>5. CASE FailPermanently(w)
    BY <2>1, <2>2, <2>5, WriteType, StatementTypes DEF FailPermanently
  <2>6. CASE GiveUpOccurrence(w)
    BY <1>12, <2>1, <2>2, <2>6, WriteType, StatementTypes DEF GiveUpOccurrence
  <2>7. CASE RetryLater(w)
    <3>1. BackoffOf(job[w].attempts) \in Int
      BY <2>2, BackoffType
    <3>2. Rescheduled(ClaimedRow(w), BackoffOf(job[w].attempts)) \in Row
      BY <2>2, <3>1, StatementTypes
    <3> QED BY <2>1, <2>7, <3>2, WriteType DEF RetryLater
  <2>8. CASE MigrateThenRequeue(w)
    <3>1. "requeueing" \in Busy
      BY DEF Busy
    <3>2. WorkersOK'
      BY <2>1, <2>8, <3>1, AdvanceType DEF MigrateThenRequeue
    <3>3. WorldOK'
      BY <2>8 DEF MigrateThenRequeue, WorldOK
    <3>4. FaultsOK'
      BY <2>8, FaultType DEF MigrateThenRequeue, FaultsOK
    <3>5. TableOK'
      BY <2>8, MigrateType DEF MigrateThenRequeue, TableOK
    <3> QED BY <3>2, <3>3, <3>4, <3>5, TypePartsNext
  <2>9. CASE RequeueNow(w)
    <3>1. 0 \in Int
      OBVIOUS
    <3>2. Rescheduled(ClaimedRow(w), 0) \in Row
      BY <2>2, <3>1, StatementTypes
    <3> QED BY <2>1, <2>9, <3>2, WriteType DEF RequeueNow
  <2> QED BY <1>13, <2>3, <2>4, <2>5, <2>6, <2>7, <2>8, <2>9 DEF Settle
<1>14. ASSUME NEW w \in Workers, WriteFailed(w) PROVE TypeOK'
  <2>1. WorkersOK'
    BY <1>14, FreedType DEF WriteFailed, WorkerFreed
  <2>2. FaultsOK'
    BY <1>14, FaultType DEF WriteFailed
  <2>3. WorldOK' /\ TableOK'
    BY <1>14 DEF WriteFailed, WorkerFreed, WorldOK, TableOK
  <2> QED BY <2>1, <2>2, <2>3, TypePartsNext
<1>15. ASSUME NEW w \in Workers, Stall(w) PROVE TypeOK'
  <2>1. WorkersOK'
    BY <1>15 DEF Stall, StillOwns, WorkersOK, IsBusy
  <2>2. FaultsOK'
    BY <1>15, FaultType DEF Stall
  <2>3. WorldOK' /\ TableOK'
    BY <1>15 DEF Stall, WorldOK, TableOK
  <2> QED BY <2>1, <2>2, <2>3, TypePartsNext
<1>16. ASSUME NEW w \in Workers, Crash(w) PROVE TypeOK'
  <2>1. WorkersOK'
    BY <1>16, FreedType DEF Crash
  <2>2. FaultsOK'
    BY <1>16, FaultType DEF Crash
  <2>3. WorldOK' /\ TableOK'
    BY <1>16 DEF Crash, WorldOK, TableOK
  <2> QED BY <2>1, <2>2, <2>3, TypePartsNext
<1>17. ASSUME NEW w \in Workers, Restart(w) PROVE TypeOK'
  <2>1. WorkersOK'
    BY <1>17 DEF Restart, WorkersOK, IsBusy, Phase, Busy, Answered, OtherError
  <2>2. WorldOK' /\ TableOK' /\ FaultsOK'
    BY <1>17 DEF Restart, WorldOK, TableOK, FaultsOK
  <2> QED BY <2>1, <2>2, TypePartsNext
<1>18. CASE ReleaseStaleClaims
  <2>1. TableOK'
    BY <1>18, StatementTypes DEF ReleaseStaleClaims, TableOK
  <2>2. WorkersOK' /\ WorldOK' /\ FaultsOK'
    BY <1>18 DEF ReleaseStaleClaims, WorkersOK, WorldOK, FaultsOK, IsBusy
  <2> QED BY <2>1, <2>2, TypePartsNext
<1>19. CASE Tick
  <2>1. TableOK'
    BY <1>19, StatementTypes DEF Tick, TableOK
  <2>2. WorkersOK' /\ WorldOK' /\ FaultsOK'
    BY <1>19 DEF Tick, WorkersOK, WorldOK, FaultsOK, IsBusy
  <2> QED BY <2>1, <2>2, TypePartsNext
<1>20. CASE UNCHANGED vars
  BY <1>20 DEF vars, TypeOK, IsBusy
<1> QED
  BY <1>1, <1>2, <1>3, <1>4, <1>5, <1>6, <1>7, <1>9, <1>10, <1>11, <1>13,
     <1>14, <1>15, <1>16, <1>17, <1>18, <1>19, <1>20
     DEF Next, Users, Send, Misfortune

\* Every reachable state is well typed, for every value of the constants.
THEOREM TypeCorrect == Spec => []TypeOK
  BY TypeInit, TypeStep, PTL DEF Spec

-----------------------------------------------------------------------------
(* Fencing.  ClaimFencing is inductive with TypeOK.  Only a claim makes a   *)
(* row claimed or hands out a job, and it hands out a generation above     *)
(* every one in a worker's hands; every other step is quiet.               *)

\* A row change that claims nothing.
QuietChange(r, s) ==
    /\ r.state # "none" =>
        /\ s.state # "none"
        /\ s.claim_generation = r.claim_generation
    /\ s.state = "claimed" =>
        /\ r.state = "claimed"
        /\ s.attempts = r.attempts
        /\ s.occurrence = r.occurrence

QuietTable == \A a \in Alerts : QuietChange(row[a], row'[a])

\* Busy workers keep their jobs; no worker becomes busy.
QuietWorkers ==
    \A w \in Workers : IsBusy(w)' => IsBusy(w) /\ job'[w] = job[w]

LEMMA QuietStatements ==
    ASSUME NEW r \in Row
    PROVE  /\ QuietChange(r, r)
           /\ \A d \in Int, c \in ChatId :
                r.state = "none" => QuietChange(r, Inserted(d, c))
           /\ QuietChange(r, Cancelled(r))
           /\ QuietChange(r, MarkSent(r)) /\ QuietChange(r, MarkFailed(r))
           /\ \A d \in Int : QuietChange(r, Rescheduled(r, d))
           /\ \A d \in Int : QuietChange(r, Advanced(r, d))
           /\ QuietChange(r, Released(r))
           /\ \A c, d \in ChatId : QuietChange(r, Migrated(r, c, d))
           /\ QuietChange(r, Aged(r))
<1> USE DEF QuietChange, Row
<1>1. \A d \in Int, c \in ChatId :
        r.state = "none" => QuietChange(r, Inserted(d, c))
  BY DEF Inserted, NoRow
<1>2. QuietChange(r, Cancelled(r))
  BY DEF Cancelled
<1>3. QuietChange(r, MarkSent(r)) /\ QuietChange(r, MarkFailed(r))
  BY DEF MarkSent, MarkFailed
<1>4. \A d \in Int : QuietChange(r, Rescheduled(r, d))
  BY DEF Rescheduled
<1>5. \A d \in Int : QuietChange(r, Advanced(r, d))
  BY DEF Advanced
<1>6. QuietChange(r, Released(r))
  BY DEF Released
<1>7. \A c, d \in ChatId : QuietChange(r, Migrated(r, c, d))
  BY DEF Migrated
<1>8. QuietChange(r, Aged(r))
  BY DEF Aged
<1> QED BY <1>1, <1>2, <1>3, <1>4, <1>5, <1>6, <1>7, <1>8

LEMMA QuietKeepsFencing ==
    ASSUME TypeOK, ClaimFencing, QuietTable, QuietWorkers
    PROVE  ClaimFencing'
<1>1. ASSUME NEW w \in Workers, IsBusy(w)'
      PROVE  /\ IsBusy(w) /\ job'[w] = job[w] /\ job[w].alert \in Alerts
             /\ QuietChange(ClaimedRow(w), ClaimedRow(w)')
  BY <1>1, JobTypes DEF QuietTable, QuietWorkers, ClaimedRow
<1>2. GenerationsBehind'
  BY <1>1 DEF ClaimFencing, GenerationsBehind, QuietChange
<1>3. OneWorkerPerGeneration'
  BY <1>1 DEF ClaimFencing, OneWorkerPerGeneration
<1>4. FreshSnapshot'
  <2> SUFFICES ASSUME NEW w \in Workers, StillOwns(w)'
               PROVE  /\ job'[w].attempts = ClaimedRow(w)'.attempts
                      /\ job'[w].occurrence = ClaimedRow(w)'.occurrence
    BY DEF FreshSnapshot
  <2>1. IsBusy(w)' /\ ClaimedRow(w)'.state = "claimed"
        /\ ClaimedRow(w)'.claim_generation = job'[w].generation
    BY DEF StillOwns, ClaimedRow
  <2>2. StillOwns(w)
    BY <1>1, <2>1 DEF QuietChange, StillOwns, ClaimedRow
  <2> QED BY <1>1, <2>1, <2>2 DEF ClaimFencing, FreshSnapshot, QuietChange
<1> QED BY <1>2, <1>3, <1>4 DEF ClaimFencing

LEMMA UnchangedTableIsQuiet == TypeOK /\ UNCHANGED row => QuietTable
  BY QuietStatements DEF QuietTable, TypeOK

LEMMA UnchangedWorkersAreQuiet == UNCHANGED <<phase, job>> => QuietWorkers
  BY DEF QuietWorkers, IsBusy

LEMMA FreedIsQuiet ==
    ASSUME TypeOK, NEW w \in Workers, NEW p \in {"idle", "down"},
           phase' = [phase EXCEPT ![w] = p],
           job' = [job EXCEPT ![w] = NoJob]
    PROVE  QuietWorkers
  BY DEF TypeOK, QuietWorkers, IsBusy, Busy, Answered, OtherError

LEMMA WriteIsQuiet ==
    ASSUME TypeOK, NEW w \in Workers, IsBusy(w), NEW r,
           QuietChange(ClaimedRow(w), r), Write(w, r)
    PROVE  QuietTable /\ QuietWorkers
<1>1. QuietTable
  BY JobTypes, QuietStatements
     DEF Write, QuietTable, ClaimedRow, TypeOK
<1>2. QuietWorkers
  BY FreedIsQuiet DEF Write, WorkerFreed
<1> QED BY <1>1, <1>2

LEMMA MigrateIsQuiet == TypeOK /\ MigrateChat => QuietTable
  BY QuietStatements DEF TypeOK, MigrateChat, QuietTable, ChatId

LEMMA AnswerIsQuiet ==
    ASSUME TypeOK, NEW w \in Workers, NEW p, Answer(w, p)
    PROVE  QuietTable /\ QuietWorkers
<1>1. QuietTable
  BY UnchangedTableIsQuiet DEF Answer
<1>2. QuietWorkers
  BY DEF Answer, QuietWorkers, IsBusy, Busy, TypeOK
<1> QED BY <1>1, <1>2

LEMMA SettleIsQuiet ==
    ASSUME TypeOK, NEW w \in Workers, Settle(w)
    PROVE  QuietTable /\ QuietWorkers
<1>1. IsBusy(w)
  BY DEF Settle, FinaliseAfterSend, RescheduleLimited, FailPermanently,
     GiveUpOccurrence, RetryLater, MigrateThenRequeue, RequeueNow,
     IsBusy, Busy, Answered, OtherError
<1>2. ClaimedRow(w) \in Row /\ job[w].attempts \in Nat
  BY <1>1, JobTypes
<1>3. ASSUME AdvanceToNext(w) PROVE QuietTable /\ QuietWorkers
  <2>1. PICK d \in 1 .. MaxDelay : Write(w, Advanced(ClaimedRow(w), d))
    BY <1>3 DEF AdvanceToNext
  <2>2. d \in Int
    BY DeliveryAssumption
  <2>3. QuietChange(ClaimedRow(w), Advanced(ClaimedRow(w), d))
    BY <1>2, <2>2, QuietStatements
  <2> QED BY <1>1, <2>1, <2>3, WriteIsQuiet
<1>4. ASSUME NEW d \in Int, Write(w, Rescheduled(ClaimedRow(w), d))
      PROVE  QuietTable /\ QuietWorkers
  <2>1. QuietChange(ClaimedRow(w), Rescheduled(ClaimedRow(w), d))
    BY <1>2, QuietStatements
  <2> QED BY <1>1, <1>4, <2>1, WriteIsQuiet
<1>5. ASSUME \/ Write(w, MarkSent(ClaimedRow(w)))
             \/ Write(w, MarkFailed(ClaimedRow(w)))
      PROVE  QuietTable /\ QuietWorkers
  <2>1. /\ QuietChange(ClaimedRow(w), MarkSent(ClaimedRow(w)))
        /\ QuietChange(ClaimedRow(w), MarkFailed(ClaimedRow(w)))
    BY <1>2, QuietStatements
  <2> QED BY <1>1, <1>5, <2>1, WriteIsQuiet
<1>6. CASE FinaliseAfterSend(w) \/ GiveUpOccurrence(w) \/ FailPermanently(w)
  BY <1>3, <1>5, <1>6
     DEF FinaliseAfterSend, GiveUpOccurrence, FailPermanently
<1>7. CASE RescheduleLimited(w)
  <2>1. PICK d \in 1 .. MaxDelay : Write(w, Rescheduled(ClaimedRow(w), d))
    BY <1>7 DEF RescheduleLimited
  <2>2. d \in Int
    BY DeliveryAssumption
  <2> QED BY <1>4, <2>1, <2>2
<1>8. CASE RetryLater(w)
  <2>1. BackoffOf(job[w].attempts) \in Int
    BY <1>2, BackoffType
  <2> QED BY <1>4, <1>8, <2>1 DEF RetryLater
<1>9. CASE MigrateThenRequeue(w)
  <2>1. QuietTable
    BY <1>9, MigrateIsQuiet, UnchangedTableIsQuiet DEF MigrateThenRequeue
  <2>2. QuietWorkers
    BY <1>1, <1>9 DEF MigrateThenRequeue, QuietWorkers, IsBusy, TypeOK
  <2> QED BY <2>1, <2>2
<1>10. CASE RequeueNow(w)
  <2>1. 0 \in Int
    OBVIOUS
  <2> QED BY <1>4, <1>10, <2>1 DEF RequeueNow
<1> QED BY <1>6, <1>7, <1>8, <1>9, <1>10 DEF Settle

\* Users, time, the reaper, the chat and every misfortune but a lost claim.
LEMMA OtherStepsAreQuiet ==
    ASSUME TypeOK,
           \/ Users \/ ReleaseStaleClaims \/ Tick \/ UNCHANGED vars
           \/ \E w \in Workers : WriteFailed(w) \/ Stall(w) \/ Crash(w)
                                 \/ Restart(w)
    PROVE  QuietTable /\ QuietWorkers
<1> USE UnchangedTableIsQuiet, UnchangedWorkersAreQuiet
<1>1. ASSUME NEW a \in Alerts, CreateAlert(a) PROVE QuietTable /\ QuietWorkers
  <2>1. PICK d \in 1 .. MaxDelay, c \in ChatId :
          row' = [row EXCEPT ![a] = Inserted(d, c)]
    BY <1>1 DEF CreateAlert, ChatId
  <2>2. row[a].state = "none" /\ d \in Int
    BY <1>1, DeliveryAssumption DEF CreateAlert
  <2>3. QuietTable
    BY <2>1, <2>2, QuietStatements DEF QuietTable, TypeOK
  <2> QED BY <1>1, <2>3 DEF CreateAlert
<1>2. ASSUME NEW a \in Alerts, CancelAlert(a) PROVE QuietTable /\ QuietWorkers
  <2>1. QuietTable
    BY <1>2, QuietStatements DEF CancelAlert, QuietTable, TypeOK
  <2> QED BY <1>2, <2>1 DEF CancelAlert
<1>3. CASE UpgradeGroup \/ BlockBot
  BY <1>3 DEF UpgradeGroup, BlockBot
<1>4. CASE HandleChatMigration
  BY <1>4, MigrateIsQuiet DEF HandleChatMigration
<1>5. CASE ReleaseStaleClaims
  <2>1. QuietTable
    BY <1>5, QuietStatements DEF ReleaseStaleClaims, QuietTable, TypeOK
  <2> QED BY <1>5, <2>1 DEF ReleaseStaleClaims
<1>6. CASE Tick
  <2>1. QuietTable
    BY <1>6, QuietStatements DEF Tick, QuietTable, TypeOK
  <2> QED BY <1>6, <2>1 DEF Tick
<1>7. CASE UNCHANGED vars
  BY <1>7 DEF vars
<1>8. ASSUME NEW w \in Workers, WriteFailed(w) \/ Crash(w)
      PROVE  QuietTable /\ QuietWorkers
  BY <1>8, FreedIsQuiet DEF WriteFailed, WorkerFreed, Crash
<1>9. ASSUME NEW w \in Workers, Stall(w) PROVE QuietTable /\ QuietWorkers
  BY <1>9 DEF Stall
<1>10. ASSUME NEW w \in Workers, Restart(w) PROVE QuietTable /\ QuietWorkers
  <2>1. QuietWorkers
    BY <1>10 DEF Restart, QuietWorkers, IsBusy, Busy, Answered, OtherError,
                 TypeOK
  <2> QED BY <1>10, <2>1 DEF Restart
<1> QED
  BY <1>1, <1>2, <1>3, <1>4, <1>5, <1>6, <1>7, <1>8, <1>9, <1>10 DEF Users

\* What a claim makes of the row it takes: a new generation, still unheld.
LEMMA ClaimedRowFacts ==
    ASSUME NEW r \in Row
    PROVE  /\ Claimed(r).state = "claimed"
           /\ Claimed(r).claim_generation = r.claim_generation + 1
  BY DEF Claimed, Row

LEMMA ClaimKeepsFencing ==
    ASSUME TypeOK, ClaimFencing, NEW w \in Workers, NEW a \in Alerts,
           phase[w] = "idle", IsDue(row[a]),
           row' = [row EXCEPT ![a] = Claimed(@)],
           \/ /\ job' = [job EXCEPT ![w] = Snapshot(a, Claimed(row[a]))]
              /\ phase' = [phase EXCEPT ![w] = "sending"]
           \/ UNCHANGED <<phase, job>>
    PROVE  ClaimFencing'
<1> DEFINE new == Claimed(row[a])
           g == row[a].claim_generation
<1>1. row[a] \in Row /\ g \in Nat /\ row'[a] = new
      /\ \A b \in Alerts : b # a => row'[b] = row[b]
  BY ColumnTypes DEF TypeOK
<1>2. new.state = "claimed" /\ new.claim_generation = g + 1
  BY <1>1, ClaimedRowFacts
<1>3. \* A worker that was busy keeps its job and a generation below g + 1.
      ASSUME NEW v \in Workers, IsBusy(v)
      PROVE  /\ IsBusy(v)' /\ job'[v] = job[v] /\ job[v].alert \in Alerts
             /\ job[v].generation \in Nat
             /\ job[v].alert = a => job[v].generation <= g
  <2>1. v # w \/ UNCHANGED <<phase, job>>
    BY <1>3 DEF IsBusy, Busy, Answered, OtherError
  <2>2. IsBusy(v)' /\ job'[v] = job[v]
    BY <1>3, <2>1 DEF IsBusy, TypeOK
  <2> QED BY <1>3, <2>2, JobTypes
          DEF ClaimFencing, GenerationsBehind, ClaimedRow
<1>4. \* Any other busy worker is w, with the new snapshot.
      ASSUME NEW v \in Workers, IsBusy(v)', ~IsBusy(v)
      PROVE  v = w /\ job'[v] = Snapshot(a, new)
  BY <1>4 DEF IsBusy, TypeOK
<1>5. /\ Snapshot(a, new).alert = a
      /\ Snapshot(a, new).generation = g + 1
      /\ Snapshot(a, new).attempts = new.attempts
      /\ Snapshot(a, new).occurrence = new.occurrence
  BY <1>2 DEF Snapshot
<1> HIDE DEF new, g
<1>6. GenerationsBehind'
  <2> SUFFICES ASSUME NEW v \in Workers, IsBusy(v)'
               PROVE  /\ row'[job'[v].alert].state # "none"
                      /\ job'[v].generation
                           <= row'[job'[v].alert].claim_generation
    BY DEF GenerationsBehind, ClaimedRow
  <2>1. CASE IsBusy(v) /\ job[v].alert = a
    BY <1>1, <1>2, <1>3, <2>1
  <2>2. CASE IsBusy(v) /\ job[v].alert # a
    BY <1>1, <1>3, <2>2 DEF ClaimFencing, GenerationsBehind, ClaimedRow
  <2>3. CASE ~IsBusy(v)
    BY <1>1, <1>2, <1>4, <1>5, <2>3
  <2> QED BY <2>1, <2>2, <2>3
<1>7. OneWorkerPerGeneration'
  <2> SUFFICES ASSUME NEW u \in Workers, NEW v \in Workers,
                      IsBusy(u)', IsBusy(v)', u # v,
                      job'[u].alert = job'[v].alert
               PROVE  job'[u].generation # job'[v].generation
    BY DEF OneWorkerPerGeneration
  <2>1. CASE IsBusy(u) /\ IsBusy(v)
    BY <1>3, <2>1 DEF ClaimFencing, OneWorkerPerGeneration
  <2>2. CASE IsBusy(u) /\ ~IsBusy(v)
    BY <1>1, <1>3, <1>4, <1>5, <2>2
  <2>3. CASE ~IsBusy(u) /\ IsBusy(v)
    BY <1>1, <1>3, <1>4, <1>5, <2>3
  <2>4. CASE ~IsBusy(u) /\ ~IsBusy(v)
    BY <1>4, <2>4
  <2> QED BY <2>1, <2>2, <2>3, <2>4
<1>8. FreshSnapshot'
  <2> SUFFICES ASSUME NEW v \in Workers, StillOwns(v)'
               PROVE  /\ job'[v].attempts = ClaimedRow(v)'.attempts
                      /\ job'[v].occurrence = ClaimedRow(v)'.occurrence
    BY DEF FreshSnapshot
  <2>1. /\ IsBusy(v)' /\ row'[job'[v].alert].state = "claimed"
        /\ row'[job'[v].alert].claim_generation = job'[v].generation
    BY DEF StillOwns
  <2>2. CASE IsBusy(v) /\ job[v].alert = a
    BY <1>1, <1>2, <1>3, <2>1, <2>2
  <2>3. CASE IsBusy(v) /\ job[v].alert # a
    BY <1>1, <1>3, <2>1, <2>3
       DEF ClaimFencing, FreshSnapshot, StillOwns, ClaimedRow
  <2>4. CASE ~IsBusy(v)
    BY <1>1, <1>4, <1>5, <2>1, <2>4 DEF ClaimedRow
  <2> QED BY <2>2, <2>3, <2>4
<1> QED BY <1>6, <1>7, <1>8 DEF ClaimFencing

LEMMA FencingStep == TypeOK /\ ClaimFencing /\ [Next]_vars => ClaimFencing'
<1> SUFFICES ASSUME TypeOK, ClaimFencing, [Next]_vars PROVE ClaimFencing'
  OBVIOUS
<1>1. ASSUME NEW w \in Workers, ClaimDueAlerts(w) \/ ClaimLost(w)
      PROVE  ClaimFencing'
  <2>1. PICK a \in Alerts :
          /\ IsDue(row[a]) /\ row' = [row EXCEPT ![a] = Claimed(@)]
          /\ \/ /\ job' = [job EXCEPT ![w] = Snapshot(a, Claimed(row[a]))]
                /\ phase' = [phase EXCEPT ![w] = "sending"]
             \/ UNCHANGED <<phase, job>>
    BY <1>1 DEF ClaimDueAlerts, ClaimLost, DueFirst
  <2>2. phase[w] = "idle"
    BY <1>1 DEF ClaimDueAlerts, ClaimLost
  <2> QED BY <2>1, <2>2, ClaimKeepsFencing
<1>2. ASSUME NEW w \in Workers,
             Send(w) \/ Settle(w) \/ SendLimited(w) \/ SendFailed(w)
      PROVE  ClaimFencing'
  BY <1>2, AnswerIsQuiet, SettleIsQuiet, QuietKeepsFencing
     DEF Send, SendAccepted, SendMigrated, SendRejected, SendRefused,
         SendLimited, SendFailed
<1>3. ASSUME \/ Users \/ ReleaseStaleClaims \/ Tick \/ UNCHANGED vars
             \/ \E w \in Workers : WriteFailed(w) \/ Stall(w) \/ Crash(w)
                                   \/ Restart(w)
      PROVE  ClaimFencing'
  BY <1>3, OtherStepsAreQuiet, QuietKeepsFencing
<1> QED BY <1>1, <1>2, <1>3 DEF Next, Misfortune

\* The claim generation fences every worker whose claim was taken away, for
\* any number of alerts, workers, releases and faults.
THEOREM Fencing == Spec => []ClaimFencing
<1>1. Init => ClaimFencing
  BY DEF Init, ClaimFencing, GenerationsBehind, OneWorkerPerGeneration,
     FreshSnapshot, StillOwns, IsBusy, Busy, Answered, OtherError
<1> QED BY <1>1, FencingStep, TypeCorrect, PTL DEF Spec
=============================================================================
