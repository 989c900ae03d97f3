------------------------ MODULE DeliveryOutcomeProofs ------------------------
(***************************************************************************)
(* Proofs about what becomes of an alert in Delivery: who may still write  *)
(* its row, on what evidence it is closed or moved on, what an extra copy  *)
(* of it costs, and that all of it implements the lifecycle of an alert.   *)
(***************************************************************************)
EXTENDS DeliveryProofs, FiniteSetTheorems

-----------------------------------------------------------------------------
(* Steps as one row, one worker and the chat see them.                     *)

GivesUp(w) == phase[w] \in OtherError /\ OutOfAttempts(w)

\* What deliver writes at its end, and why.
Outcome(w, r) ==
    \/ /\ phase[w] = "accepted" \/ GivesUp(w)
       /\ HasNext(w)
       /\ \E d \in 1 .. MaxDelay : r = Advanced(ClaimedRow(w), d)
    \/ phase[w] = "accepted" /\ ~HasNext(w) /\ r = MarkSent(ClaimedRow(w))
    \/ /\ phase[w] = "rejected" \/ (GivesUp(w) /\ ~HasNext(w))
       /\ r = MarkFailed(ClaimedRow(w))
    \/ \E d \in Nat : r = Rescheduled(ClaimedRow(w), d)

LEMMA SettleSteps ==
    ASSUME TypeOK, NEW w \in Workers, Settle(w)
    PROVE  /\ IsBusy(w)
           /\ MigrateThenRequeue(w) \/ \E r : Outcome(w, r) /\ Write(w, r)
<1>1. IsBusy(w)
  BY DEF Settle, FinaliseAfterSend, RescheduleLimited, FailPermanently,
     GiveUpOccurrence, RetryLater, MigrateThenRequeue, RequeueNow,
     IsBusy, Busy, Answered, OtherError
<1>2. CASE FinaliseAfterSend(w) \/ GiveUpOccurrence(w)
  <2>1. phase[w] = "accepted" \/ GivesUp(w)
    BY <1>2 DEF FinaliseAfterSend, GiveUpOccurrence, GivesUp
  <2>2. CASE AdvanceToNext(w)
    <3>1. PICK d \in 1 .. MaxDelay : Write(w, Advanced(ClaimedRow(w), d))
      BY <2>2 DEF AdvanceToNext
    <3>2. Outcome(w, Advanced(ClaimedRow(w), d))
      BY <2>1, <2>2 DEF AdvanceToNext, Outcome
    <3> QED BY <1>1, <3>1, <3>2
  <2>3. CASE FinaliseAfterSend(w) /\ ~AdvanceToNext(w)
    <3>1. Outcome(w, MarkSent(ClaimedRow(w))) /\ Write(w, MarkSent(ClaimedRow(w)))
      BY <2>3 DEF FinaliseAfterSend, Outcome
    <3> QED BY <1>1, <3>1
  <2>4. CASE GiveUpOccurrence(w) /\ ~AdvanceToNext(w)
    <3>1. Outcome(w, MarkFailed(ClaimedRow(w))) /\ Write(w, MarkFailed(ClaimedRow(w)))
      BY <2>4 DEF GiveUpOccurrence, Outcome, GivesUp
    <3> QED BY <1>1, <3>1
  <2> QED BY <1>2, <2>2, <2>3, <2>4
<1>3. CASE FailPermanently(w)
  BY <1>1, <1>3 DEF FailPermanently, Outcome
<1>4. CASE RescheduleLimited(w)
  <2>1. PICK d \in 1 .. MaxDelay : Write(w, Rescheduled(ClaimedRow(w), d))
    BY <1>4 DEF RescheduleLimited
  <2>2. d \in Nat
    BY DeliveryAssumption
  <2> QED BY <1>1, <2>1, <2>2 DEF Outcome
<1>5. CASE RetryLater(w)
  <2>1. BackoffOf(job[w].attempts) \in Nat
    BY <1>1, JobTypes, BackoffType
  <2> QED BY <1>1, <1>5, <2>1 DEF RetryLater, Outcome
<1>6. CASE RequeueNow(w)
  BY <1>1, <1>6 DEF RequeueNow, Outcome
<1> QED BY <1>1, <1>2, <1>3, <1>4, <1>5, <1>6 DEF Settle

\* A write of deliver reaches the row only while its claim stands.
Settled(a, r) ==
    \E w \in Workers :
        /\ StillOwns(w) /\ job[w].alert = a
        /\ ~IsBusy(w)'
        /\ Outcome(w, r)

RowStep(a) ==
    \/ row'[a] = row[a]
    \/ row[a].state = "none" /\ row'[a].state = "pending"
       /\ row'[a].occurrence = 0 /\ row'[a].attempts = 0
       /\ row'[a].claim_generation = 0
    \/ Cancellable(row[a]) /\ row'[a] = Cancelled(row[a])
    \/ IsDue(row[a]) /\ row'[a] = Claimed(row[a])
    \/ Settled(a, row'[a])
    \/ IsStale(row[a]) /\ row'[a] = Released(row[a])
    \/ row'[a] = Migrated(row[a], "group", "supergroup")
    \/ Tick /\ row'[a] = Aged(row[a])

LEMMA RowSteps ==
    ASSUME TypeOK, [Next]_vars, NEW a \in Alerts
    PROVE  RowStep(a)
<1> USE DEF RowStep
<1>1. CASE Users
  <2>1. ASSUME NEW b \in Alerts, CreateAlert(b) PROVE RowStep(a)
    <3>1. PICK d \in 1 .. MaxDelay, c \in ChatId :
            row' = [row EXCEPT ![b] = Inserted(d, c)]
      BY <2>1 DEF CreateAlert, ChatId
    <3>2. Inserted(d, c).state = "pending" /\ Inserted(d, c).occurrence = 0
          /\ Inserted(d, c).attempts = 0 /\ Inserted(d, c).claim_generation = 0
      BY DEF Inserted, NoRow
    <3> QED BY <2>1, <3>1, <3>2 DEF CreateAlert, TypeOK
  <2>2. ASSUME NEW b \in Alerts, CancelAlert(b) PROVE RowStep(a)
    BY <2>2 DEF CancelAlert, TypeOK
  <2>3. CASE UpgradeGroup \/ BlockBot
    BY <2>3 DEF UpgradeGroup, BlockBot
  <2>4. CASE HandleChatMigration
    BY <2>4 DEF HandleChatMigration, MigrateChat
  <2> QED BY <1>1, <2>1, <2>2, <2>3, <2>4 DEF Users
<1>2. ASSUME NEW w \in Workers, ClaimDueAlerts(w) \/ ClaimLost(w) PROVE RowStep(a)
  <2>1. PICK b \in Alerts : IsDue(row[b]) /\ row' = [row EXCEPT ![b] = Claimed(@)]
    BY <1>2 DEF ClaimDueAlerts, ClaimLost, DueFirst
  <2> QED BY <2>1 DEF TypeOK
<1>3. ASSUME NEW w \in Workers, Settle(w) PROVE RowStep(a)
  <2>1. CASE MigrateThenRequeue(w)
    BY <2>1 DEF MigrateThenRequeue, MigrateChat
  <2>2. ASSUME NEW r, Outcome(w, r), Write(w, r) PROVE RowStep(a)
    <3>1. IsBusy(w) /\ job[w].alert \in Alerts
      BY <1>3, SettleSteps, JobTypes
    <3>2. ~IsBusy(w)'
      BY <2>2 DEF Write, WorkerFreed, TypeOK, IsBusy, Busy, Answered, OtherError
    <3>3. CASE a = job[w].alert /\ HoldsClaim(row[a], job[w].generation)
      <4>1. row'[a] = r /\ StillOwns(w)
        BY <2>2, <3>1, <3>3 DEF Write, TypeOK, HoldsClaim, StillOwns
      <4> QED BY <2>2, <3>2, <3>3, <4>1 DEF Settled
    <3>4. CASE ~(a = job[w].alert /\ HoldsClaim(row[a], job[w].generation))
      BY <2>2, <3>1, <3>4 DEF Write, TypeOK
    <3> QED BY <3>3, <3>4
  <2> QED BY <1>3, <2>1, <2>2, SettleSteps
<1>4. ASSUME NEW w \in Workers,
             Send(w) \/ SendLimited(w) \/ SendFailed(w) \/ WriteFailed(w)
               \/ Stall(w) \/ Crash(w) \/ Restart(w)
      PROVE  RowStep(a)
  BY <1>4 DEF Send, SendAccepted, SendMigrated, SendRejected, SendRefused,
     SendLimited, SendFailed, Answer, WriteFailed, Stall, Crash, Restart
<1>5. CASE ReleaseStaleClaims
  BY <1>5 DEF ReleaseStaleClaims
<1>6. CASE Tick
  BY <1>6 DEF Tick
<1>7. CASE UNCHANGED vars
  BY <1>7 DEF vars
<1> QED
  BY <1>1, <1>2, <1>3, <1>4, <1>5, <1>6, <1>7 DEF Next, Misfortune

\* A worker that is busy after a step has just claimed, or goes on with its
\* job; an answer it has heard has a cause.
Starts(w) ==
    \E a \in Alerts :
        /\ IsDue(row[a]) /\ row'[a] = Claimed(row[a])
        /\ job'[w] = Snapshot(a, Claimed(row[a]))
        /\ phase'[w] = "sending"

GoesOn(w) ==
    /\ IsBusy(w) /\ job'[w] = job[w]
    /\ w \in stalled => w \in stalled'
    /\ phase'[w] = "accepted" => phase[w] = "accepted" \/ Ring(w)
    /\ phase'[w] = "rejected" => phase[w] = "rejected" \/ ~reachable

LEMMA WorkerSteps ==
    ASSUME TypeOK, [Next]_vars, NEW v \in Workers, IsBusy(v)'
    PROVE  Starts(v) \/ GoesOn(v)
<1> USE DEF TypeOK, GoesOn
<1>1. ASSUME UNCHANGED <<phase, job>>, stalled \subseteq stalled'
      PROVE  GoesOn(v)
  BY <1>1 DEF IsBusy
<1>2. ASSUME NEW w \in Workers, NEW p \in {"idle", "down"},
             phase' = [phase EXCEPT ![w] = p], job' = [job EXCEPT ![w] = NoJob],
             stalled' = stalled \ {w}
      PROVE  GoesOn(v)
  BY <1>2 DEF IsBusy, Busy, Answered, OtherError
<1>3. CASE Users \/ ReleaseStaleClaims \/ Tick \/ UNCHANGED vars
  BY <1>1, <1>3 DEF Users, CreateAlert, CancelAlert, UpgradeGroup, BlockBot,
     HandleChatMigration, ReleaseStaleClaims, Tick, vars
<1>4. ASSUME NEW w \in Workers, ClaimDueAlerts(w) PROVE Starts(v) \/ GoesOn(v)
  <2>1. CASE v = w
    BY <1>4, <2>1 DEF ClaimDueAlerts, DueFirst, Starts
  <2>2. CASE v # w
    BY <1>4, <2>2 DEF ClaimDueAlerts, IsBusy
  <2> QED BY <2>1, <2>2
<1>5. ASSUME NEW w \in Workers,
             Send(w) \/ SendLimited(w) \/ SendFailed(w) PROVE GoesOn(v)
  BY <1>5 DEF Send, SendAccepted, SendMigrated, SendRejected, SendRefused,
     SendLimited, SendFailed, Answer, IsBusy, Busy
<1>6. ASSUME NEW w \in Workers, Settle(w) PROVE GoesOn(v)
  <2>1. CASE MigrateThenRequeue(w)
    BY <2>1 DEF MigrateThenRequeue, IsBusy, Busy
  <2>2. CASE \E r : Write(w, r)
    BY <1>2, <2>2 DEF Write, WorkerFreed
  <2> QED BY <1>6, <2>1, <2>2, SettleSteps
<1>7. ASSUME NEW w \in Workers, ClaimLost(w) \/ Stall(w) PROVE GoesOn(v)
  BY <1>1, <1>7 DEF ClaimLost, Stall
<1>8. ASSUME NEW w \in Workers, WriteFailed(w) \/ Crash(w) PROVE GoesOn(v)
  BY <1>2, <1>8 DEF WriteFailed, WorkerFreed, Crash
<1>9. ASSUME NEW w \in Workers, Restart(w) PROVE GoesOn(v)
  BY <1>9 DEF Restart, IsBusy, Busy, Answered, OtherError
<1> QED
  BY <1>3, <1>4, <1>5, <1>6, <1>7, <1>8, <1>9 DEF Next, Misfortune

\* What each statement leaves alone, and what it sets.
LEMMA Fields ==
    ASSUME NEW r \in Row
    PROVE  /\ Claimed(r).state = "claimed" /\ Claimed(r).claim_age = 0
           /\ Claimed(r).claim_generation = r.claim_generation + 1
           /\ Claimed(r).occurrence = r.occurrence
           /\ Claimed(r).attempts >= r.attempts
           /\ \A s \in {Migrated(r, "group", "supergroup"), Aged(r)} :
                /\ s.state = r.state /\ s.claim_generation = r.claim_generation
                /\ s.occurrence = r.occurrence /\ s.attempts = r.attempts
           /\ Migrated(r, "group", "supergroup").claim_age = r.claim_age
           /\ r.state = "claimed" => Aged(r).claim_age = Older(r.claim_age)
           /\ \A s \in {Cancelled(r), MarkSent(r), MarkFailed(r), Released(r)} :
                /\ s.claim_generation = r.claim_generation
                /\ s.occurrence = r.occurrence /\ s.attempts = r.attempts
           /\ Cancelled(r).state = "cancelled" /\ MarkSent(r).state = "sent"
           /\ MarkFailed(r).state = "failed" /\ Released(r).state = "pending"
           /\ \A d \in Int :
                /\ Rescheduled(r, d).state = "pending"
                /\ Rescheduled(r, d).claim_generation = r.claim_generation
                /\ Rescheduled(r, d).occurrence = r.occurrence
                /\ Rescheduled(r, d).attempts = r.attempts
           /\ \A d \in Int :
                /\ Advanced(r, d).state = "pending" /\ Advanced(r, d).fire_in = d
                /\ Advanced(r, d).claim_generation = r.claim_generation
                /\ Advanced(r, d).occurrence = r.occurrence + 1
                /\ Advanced(r, d).attempts = 0
<1>1. NextAttempt(r.attempts) >= r.attempts
  BY ColumnTypes, StoreAssumption DEF NextAttempt
<1>2. /\ Claimed(r).state = "claimed" /\ Claimed(r).claim_age = 0
      /\ Claimed(r).claim_generation = r.claim_generation + 1
      /\ Claimed(r).occurrence = r.occurrence
      /\ Claimed(r).attempts = NextAttempt(r.attempts)
  BY DEF Claimed, Row
<1>3. \A s \in {Migrated(r, "group", "supergroup"), Aged(r)} :
        /\ s.state = r.state /\ s.claim_generation = r.claim_generation
        /\ s.occurrence = r.occurrence /\ s.attempts = r.attempts
  BY DEF Migrated, Aged, Row
<1>4. /\ Migrated(r, "group", "supergroup").claim_age = r.claim_age
      /\ r.state = "claimed" => Aged(r).claim_age = Older(r.claim_age)
  BY DEF Migrated, Aged, Row
<1>5. \A s \in {Cancelled(r), MarkSent(r), MarkFailed(r), Released(r)} :
        /\ s.claim_generation = r.claim_generation
        /\ s.occurrence = r.occurrence /\ s.attempts = r.attempts
  BY DEF Cancelled, MarkSent, MarkFailed, Released, Row
<1>6. /\ Cancelled(r).state = "cancelled" /\ MarkSent(r).state = "sent"
      /\ MarkFailed(r).state = "failed" /\ Released(r).state = "pending"
  BY DEF Cancelled, MarkSent, MarkFailed, Released, Row
<1>7. \A d \in Int :
        /\ Rescheduled(r, d).state = "pending"
        /\ Rescheduled(r, d).claim_generation = r.claim_generation
        /\ Rescheduled(r, d).occurrence = r.occurrence
        /\ Rescheduled(r, d).attempts = r.attempts
  BY DEF Rescheduled, Row
<1>8. \A d \in Int :
        /\ Advanced(r, d).state = "pending" /\ Advanced(r, d).fire_in = d
        /\ Advanced(r, d).claim_generation = r.claim_generation
        /\ Advanced(r, d).occurrence = r.occurrence + 1
        /\ Advanced(r, d).attempts = 0
  BY DEF Advanced, Row
<1> QED BY <1>1, <1>2, <1>3, <1>4, <1>5, <1>6, <1>7, <1>8

-----------------------------------------------------------------------------
(* A claim within its time stands.  The reaper takes older ones only, and  *)
(* the clock waits for an attempt that is in time.                         *)

YoungClaims ==
    \A w \in Workers :
        StillOwns(w) /\ w \notin stalled => ClaimedRow(w).claim_age \in 0 .. StaleClaimSecs

Timely == TimelyAttemptsOwnTheirClaim /\ YoungClaims

\* The row of an attempt that is in time, under any step it survives.
LEMMA OwnedRowStep ==
    ASSUME TypeOK, ClaimFencing, Timely, [Next]_vars,
           NEW v \in Workers, IsBusy(v), v \notin stalled, IsBusy(v)'
    PROVE  LET r == row'[job[v].alert] IN
           /\ r.state = "claimed" /\ r.claim_generation = job[v].generation
           /\ r.claim_age \in 0 .. StaleClaimSecs
<1> DEFINE a == job[v].alert
           r == row[a]
<1>1. a \in Alerts /\ r \in Row /\ StillOwns(v)
      /\ r.state = "claimed" /\ r.claim_generation = job[v].generation
      /\ r.claim_age \in 0 .. StaleClaimSecs
  BY JobTypes DEF Timely, TimelyAttemptsOwnTheirClaim, YoungClaims, StillOwns, ClaimedRow
<1>2. ~Settled(a, row'[a])
  BY <1>1 DEF Settled, StillOwns, ClaimFencing, OneWorkerPerGeneration
<1>3. ~IsStale(r) /\ ~IsDue(r) /\ ~Cancellable(r) /\ r.state # "none"
  BY <1>1, StoreAssumption DEF IsStale, IsDue, Cancellable
<1>4. \/ row'[a] = r \/ row'[a] = Migrated(r, "group", "supergroup")
      \/ Tick /\ row'[a] = Aged(r)
  BY <1>1, <1>2, <1>3, RowSteps DEF RowStep
<1>5. CASE Tick /\ row'[a] = Aged(r)
  <2>1. r.claim_age < StaleClaimSecs
    BY <1>1, <1>5 DEF Tick, ClaimedRow
  <2>2. Older(r.claim_age) = r.claim_age + 1
    BY <1>1 DEF Older
  <2> QED BY <1>1, <1>5, <2>1, <2>2, Fields, StoreAssumption
<1> QED BY <1>1, <1>4, <1>5, Fields

LEMMA TimelyStep ==
    TypeOK /\ TypeOK' /\ ClaimFencing /\ Timely /\ [Next]_vars => Timely'
<1> SUFFICES ASSUME TypeOK, TypeOK', ClaimFencing, Timely, [Next]_vars,
                    NEW v \in Workers, IsBusy(v)', v \notin stalled'
             PROVE  /\ StillOwns(v)'
                    /\ ClaimedRow(v)'.claim_age \in 0 .. StaleClaimSecs
  BY DEF Timely, TimelyAttemptsOwnTheirClaim, YoungClaims, StillOwns
<1>1. CASE Starts(v)
  <2>1. PICK a \in Alerts : row'[a] = Claimed(row[a])
                            /\ job'[v] = Snapshot(a, Claimed(row[a]))
    BY <1>1 DEF Starts
  <2>2. /\ job'[v].alert = a
        /\ job'[v].generation = Claimed(row[a]).claim_generation
    BY <2>1 DEF Snapshot
  <2>3. row[a] \in Row
    BY DEF TypeOK
  <2>4. row'[a].state = "claimed" /\ row'[a].claim_age = 0
    BY <2>1, <2>3, Fields
  <2> QED BY <2>1, <2>2, <2>4, StoreAssumption DEF StillOwns, ClaimedRow
<1>2. CASE GoesOn(v)
  BY <1>2, OwnedRowStep DEF GoesOn, StillOwns, ClaimedRow
<1> QED BY <1>1, <1>2, WorkerSteps

LEMMA TimelyAlways == Spec => []Timely
<1>1. Init => Timely
  BY DEF Init, Timely, TimelyAttemptsOwnTheirClaim, YoungClaims, StillOwns,
         IsBusy, Busy, Answered, OtherError
<1> QED BY <1>1, TimelyStep, TypeCorrect, Fencing, PTL DEF Spec

\* Until it outlives the claim timeout, an attempt still owns its claim: the
\* reaper, other workers, cancellations and migrations leave it (REAPER,
\* claim_due_alerts).
THEOREM TimelyAttempts == Spec => []TimelyAttemptsOwnTheirClaim
<1>1. Timely => TimelyAttemptsOwnTheirClaim
  BY DEF Timely
<1> QED BY <1>1, TimelyAlways, PTL

-----------------------------------------------------------------------------
(* Action properties of a row.                                             *)

\* A row that was settled under a standing claim, and what the owner knows.
LEMMA SettledRow ==
    ASSUME TypeOK, ClaimFencing, NEW a \in Alerts, Settled(a, row'[a])
    PROVE  \E w \in Workers :
             /\ StillOwns(w) /\ job[w].alert = a /\ Outcome(w, row'[a])
             /\ row[a].state = "claimed" /\ ClaimedRow(w) = row[a]
             /\ job[w].attempts = row[a].attempts
             /\ job[w].occurrence = row[a].occurrence
  BY DEF Settled, StillOwns, ClaimFencing, FreshSnapshot, ClaimedRow

\* What deliver writes keeps the generation; it moves the row on or keeps
\* its occurrence and attempts.
LEMMA OutcomeFields ==
    ASSUME NEW w \in Workers, ClaimedRow(w) \in Row, NEW s, Outcome(w, s)
    PROVE  LET r == ClaimedRow(w) IN
           /\ s.claim_generation = r.claim_generation /\ s.state # "claimed"
           /\ \/ /\ s.occurrence = r.occurrence /\ s.attempts = r.attempts
                 /\ s.state = "sent" => phase[w] = "accepted" /\ ~HasNext(w)
                 /\ s.state = "failed" =>
                       phase[w] = "rejected" \/ (GivesUp(w) /\ ~HasNext(w))
              \/ /\ s.occurrence = r.occurrence + 1 /\ s.attempts = 0
                 /\ s.fire_in > 0 /\ s.state = "pending" /\ HasNext(w)
                 /\ phase[w] = "accepted" \/ GivesUp(w)
<1>1. ASSUME NEW d \in 1 .. MaxDelay PROVE d \in Int /\ d > 0
  BY DeliveryAssumption
<1> QED BY <1>1, Fields DEF Outcome

\* An id that was not handed out has no row.
Unused == \A a \in Alerts : row[a].state = "none" => row[a] = NoRow

LEMMA UnusedStep == TypeOK /\ ClaimFencing /\ Unused /\ [Next]_vars => Unused'
<1> SUFFICES ASSUME TypeOK, ClaimFencing, Unused, [Next]_vars,
                    NEW a \in Alerts, row'[a].state = "none"
             PROVE  row'[a] = NoRow
  BY DEF Unused
<1>1. row[a] \in Row
  BY DEF TypeOK
<1>2. ~Settled(a, row'[a])
  <2> SUFFICES ASSUME Settled(a, row'[a]) PROVE FALSE
    OBVIOUS
  <2>1. PICK w \in Workers : Outcome(w, row'[a]) /\ ClaimedRow(w) = row[a]
    BY SettledRow
  <2>2. \E d \in Int : row'[a] \in {Advanced(row[a], d), MarkSent(row[a]),
                                  MarkFailed(row[a]), Rescheduled(row[a], d)}
    BY <2>1, DeliveryAssumption DEF Outcome
  <2> QED BY <1>1, <2>2, Fields
<1>3. \/ row'[a] = row[a] \/ row'[a] = Migrated(row[a], "group", "supergroup")
      \/ row'[a] = Aged(row[a])
  BY <1>1, <1>2, Fields, RowSteps DEF RowStep
<1>4. row[a].state = "none"
  BY <1>1, <1>3, Fields
<1> QED BY <1>3, <1>4 DEF Unused, Migrated, Aged

LEMMA UnusedAlways == Spec => []Unused
<1>1. Init => Unused
  BY DEF Init, Unused
<1> QED BY <1>1, UnusedStep, TypeCorrect, Fencing, PTL DEF Spec

LEMMA FinishedStep ==
    ASSUME TypeOK, ClaimFencing, Unused, [Next]_vars, NEW a \in Alerts
    PROVE  /\ row[a].state \in Terminal => row'[a].state = row[a].state
           /\ row'[a].claim_generation >= row[a].claim_generation
           /\ row[a].state # "claimed" /\ row'[a].state = "claimed"
                => row'[a].claim_generation > row[a].claim_generation
<1>1. row[a] \in Row /\ row[a].claim_generation \in Nat
  BY ColumnTypes DEF TypeOK
<1>2. CASE Settled(a, row'[a])
  <2>1. PICK w \in Workers : /\ Outcome(w, row'[a]) /\ ClaimedRow(w) = row[a]
                             /\ row[a].state = "claimed"
    BY <1>2, SettledRow
  <2> QED BY <1>1, <2>1, OutcomeFields DEF Terminal
<1>3. CASE IsDue(row[a]) /\ row'[a] = Claimed(row[a])
  BY <1>1, <1>3, Fields DEF IsDue, Terminal
<1>4. CASE Cancellable(row[a]) /\ row'[a] = Cancelled(row[a])
  BY <1>1, <1>4, Fields DEF Cancellable, Terminal
<1>5. CASE IsStale(row[a]) /\ row'[a] = Released(row[a])
  BY <1>1, <1>5, Fields DEF IsStale, Terminal
<1>6. CASE row'[a] \in {row[a], Migrated(row[a], "group", "supergroup"), Aged(row[a])}
  BY <1>1, <1>6, Fields
<1>7. CASE row[a].state = "none" /\ row'[a].state = "pending"
           /\ row'[a].claim_generation = 0
  BY <1>7 DEF Unused, NoRow, Terminal
<1> QED BY <1>2, <1>3, <1>4, <1>5, <1>6, <1>7, RowSteps DEF RowStep

\* A finished alert is never taken up again, and a generation is handed out
\* once, whatever late writes, reapers and migrations follow (migration 0005).
THEOREM Finished == Spec => FinishedForGood
<1>1. TypeOK /\ ClaimFencing /\ Unused /\ [Next]_vars =>
        [\A a \in Alerts :
           /\ row[a].state \in Terminal => row'[a].state = row[a].state
           /\ row'[a].claim_generation >= row[a].claim_generation
           /\ row[a].state # "claimed" /\ row'[a].state = "claimed"
               => row'[a].claim_generation > row[a].claim_generation]_vars
  BY FinishedStep
<1> QED BY <1>1, TypeCorrect, Fencing, UnusedAlways, PTL DEF Spec, FinishedForGood

-----------------------------------------------------------------------------
(* The evidence behind an outcome: what a worker has heard from Telegram   *)
(* about the occurrence it claimed stays true until it writes.             *)

Evidence ==
    /\ \A a \in Alerts : row[a].occurrence \in Occurrences
    /\ \A w \in Workers : IsBusy(w) =>
          /\ job[w].occurrence \in Occurrences
          /\ phase[w] = "accepted" => inbox[job[w].alert][job[w].occurrence] > 0
          /\ phase[w] = "rejected" => ~reachable

\* One more copy, of the occurrence that was claimed.
LEMMA RingCounts ==
    ASSUME TypeOK, Evidence, NEW w \in Workers, IsBusy(w), Ring(w)
    PROVE  \A a \in Alerts :
             /\ job[w].alert # a => inbox'[a] = inbox[a]
             /\ \A k \in Occurrences :
                  inbox'[a][k] = IF job[w].alert = a /\ job[w].occurrence = k
                                 THEN inbox[a][k] + 1 ELSE inbox[a][k]
<1> DEFINE b == job[w].alert
           i == job[w].occurrence
<1>1. b \in Alerts /\ i \in Occurrences
  BY JobTypes DEF Evidence
<1>2. \A a \in Alerts : inbox[a] \in [Occurrences -> Nat]
  BY DEF TypeOK
<1>3. inbox' = [inbox EXCEPT ![b] = [inbox[b] EXCEPT ![i] = inbox[b][i] + 1]]
  BY DEF Ring
<1>4. \A a \in Alerts :
        inbox'[a] = IF a = b THEN [inbox[b] EXCEPT ![i] = inbox[b][i] + 1] ELSE inbox[a]
  BY <1>3 DEF TypeOK
<1>5. \A k \in Occurrences :
        [inbox[b] EXCEPT ![i] = inbox[b][i] + 1][k]
          = IF k = i THEN inbox[b][i] + 1 ELSE inbox[b][k]
  BY <1>1, <1>2
<1> HIDE DEF b, i
<1>6. \A a \in Alerts, k \in Occurrences :
        inbox'[a][k] = IF b = a /\ i = k THEN inbox[a][k] + 1 ELSE inbox[a][k]
  BY <1>1, <1>4, <1>5
<1> QED BY <1>4, <1>6 DEF b, i

LEMMA RingStep ==
    ASSUME TypeOK, Evidence, NEW w \in Workers, IsBusy(w), Ring(w)
    PROVE  /\ inbox'[job[w].alert][job[w].occurrence] > 0
           /\ \A a \in Alerts, k \in Occurrences : inbox'[a][k] >= inbox[a][k]
           /\ \A a \in Alerts : inbox'[a] # inbox[a] => job[w].alert = a
<1>1. job[w].alert \in Alerts /\ job[w].occurrence \in Occurrences
  BY JobTypes DEF Evidence
<1>2. \A a \in Alerts, k \in Occurrences : inbox[a][k] \in Nat
  BY DEF TypeOK
<1>3. inbox'[job[w].alert][job[w].occurrence] > 0
  BY <1>1, <1>2, RingCounts
<1>4. \A a \in Alerts, k \in Occurrences : inbox'[a][k] >= inbox[a][k]
  BY <1>2, RingCounts
<1> QED BY <1>3, <1>4, RingCounts

\* Messages are not taken back, and a chat that is lost stays lost.
LEMMA ChatSteps ==
    ASSUME TypeOK, Evidence, [Next]_vars
    PROVE  /\ \A a \in Alerts, k \in Occurrences : inbox'[a][k] >= inbox[a][k]
           /\ \A a \in Alerts : inbox'[a] # inbox[a] =>
                 \E w \in Workers : phase[w] = "sending" /\ job[w].alert = a
           /\ reachable' => reachable
<1>1. \A a \in Alerts, k \in Occurrences : inbox[a][k] \in Nat
  BY DEF TypeOK
<1>2. \/ UNCHANGED inbox
      \/ \E w \in Workers : phase[w] = "sending" /\ Ring(w)
  BY DEF Next, Users, CreateAlert, CancelAlert, UpgradeGroup, BlockBot,
     HandleChatMigration, ReleaseStaleClaims, Tick, vars, ClaimDueAlerts, Send,
     SendAccepted, SendMigrated, SendRejected, SendRefused, Answer, Settle,
     FinaliseAfterSend, GiveUpOccurrence, AdvanceToNext, RescheduleLimited,
     FailPermanently, RetryLater, RequeueNow, MigrateThenRequeue, Write,
     WorkerFreed, Misfortune, ClaimLost, SendLimited, SendFailed, WriteFailed,
     Stall, Crash, Restart
<1>3. reachable' => reachable
  BY DEF Next, Users, CreateAlert, CancelAlert, UpgradeGroup, BlockBot,
     HandleChatMigration, ReleaseStaleClaims, Tick, vars, ClaimDueAlerts, Send,
     SendAccepted, SendMigrated, SendRejected, SendRefused, Answer, Settle,
     FinaliseAfterSend, GiveUpOccurrence, AdvanceToNext, RescheduleLimited,
     FailPermanently, RetryLater, RequeueNow, MigrateThenRequeue, Write,
     WorkerFreed, Misfortune, ClaimLost, SendLimited, SendFailed, WriteFailed,
     Stall, Crash, Restart
<1>4. CASE UNCHANGED inbox
  <2>1. \A a \in Alerts, k \in Occurrences : inbox'[a][k] >= inbox[a][k]
    BY <1>1, <1>4
  <2> QED BY <1>3, <1>4, <2>1
<1>5. ASSUME NEW w \in Workers, phase[w] = "sending", Ring(w)
      PROVE  /\ \A a \in Alerts, k \in Occurrences : inbox'[a][k] >= inbox[a][k]
             /\ \A a \in Alerts : inbox'[a] # inbox[a] => job[w].alert = a
  BY <1>5, RingStep DEF IsBusy, Busy
<1> QED BY <1>2, <1>3, <1>4, <1>5

LEMMA EvidenceStep ==
    TypeOK /\ TypeOK' /\ ClaimFencing /\ Evidence /\ [Next]_vars => Evidence'
<1> SUFFICES ASSUME TypeOK, TypeOK', ClaimFencing, Evidence, [Next]_vars
             PROVE  Evidence'
  OBVIOUS
<1>1. ASSUME NEW a \in Alerts PROVE row'[a].occurrence \in Occurrences
  <2>1. row[a] \in Row /\ row[a].occurrence \in Occurrences
    BY DEF TypeOK, Evidence
  <2>2. CASE Settled(a, row'[a])
    <3>1. PICK w \in Workers :
            /\ job[w].alert = a /\ Outcome(w, row'[a]) /\ ClaimedRow(w) = row[a]
            /\ job[w].occurrence = row[a].occurrence
      BY <2>2, SettledRow
    <3>2. \/ row'[a].occurrence = row[a].occurrence
          \/ row'[a].occurrence = row[a].occurrence + 1 /\ HasNext(w)
      BY <2>1, <3>1, OutcomeFields
    <3> QED BY <2>1, <3>1, <3>2, DeliveryAssumption DEF HasNext, Occurrences
  <2>3. CASE row'[a].occurrence = 0
    BY <2>3, DeliveryAssumption DEF Occurrences
  <2> QED BY <2>1, <2>2, <2>3, Fields, RowSteps DEF RowStep
<1>2. ASSUME NEW w \in Workers, IsBusy(w)'
      PROVE  /\ job'[w].occurrence \in Occurrences
             /\ phase'[w] = "accepted" => inbox'[job'[w].alert][job'[w].occurrence] > 0
             /\ phase'[w] = "rejected" => ~reachable'
  <2>1. CASE Starts(w)
    <3>1. PICK a \in Alerts : job'[w] = Snapshot(a, Claimed(row[a]))
      BY <2>1 DEF Starts
    <3>2. job'[w].occurrence = row[a].occurrence
      BY <3>1, Fields DEF Snapshot, TypeOK
    <3> QED BY <2>1, <3>2 DEF Starts, Evidence
  <2>2. CASE GoesOn(w)
    <3>1. IsBusy(w) /\ job'[w] = job[w] /\ job[w].alert \in Alerts
      BY <2>2, JobTypes DEF GoesOn
    <3>2. job[w].occurrence \in Occurrences
      BY <3>1 DEF Evidence
    <3>3. inbox[job[w].alert][job[w].occurrence] \in Nat
          /\ inbox'[job[w].alert][job[w].occurrence] \in Nat
      BY <3>1, <3>2 DEF TypeOK
    <3>4. phase'[w] = "accepted" => inbox'[job[w].alert][job[w].occurrence] > 0
      BY <2>2, <3>1, <3>2, <3>3, RingStep, ChatSteps DEF GoesOn, Evidence
    <3>5. phase'[w] = "rejected" => ~reachable'
      BY <2>2, <3>1, ChatSteps DEF GoesOn, Evidence
    <3> QED BY <3>1, <3>2, <3>4, <3>5
  <2> QED BY <1>2, <2>1, <2>2, WorkerSteps
<1> QED BY <1>1, <1>2 DEF Evidence

LEMMA EvidenceAlways == Spec => []Evidence
<1>1. Init => Evidence
  BY DeliveryAssumption DEF Init, Evidence, NoRow, Occurrences, IsBusy, Busy,
     Answered, OtherError
<1> QED BY <1>1, EvidenceStep, TypeCorrect, Fencing, PTL DEF Spec

\* How a row is closed, in terms of what has happened.
LEMMA SettledOnEvidence ==
    ASSUME TypeOK, ClaimFencing, Evidence, NEW a \in Alerts, Settled(a, row'[a])
    PROVE  LET r == row[a]
               s == row'[a]
               spent == r.attempts >= MaxAttempts
               ended == ~(a \in Recurring /\ r.occurrence < LastOccurrence)
           IN  /\ s.claim_generation = r.claim_generation /\ s.state # "claimed"
               /\ \/ /\ s.occurrence = r.occurrence /\ s.attempts = r.attempts
                     /\ s.state = "sent" => inbox[a][r.occurrence] > 0
                     /\ s.state = "failed" => ~reachable \/ (spent /\ ended)
                  \/ /\ s.occurrence = r.occurrence + 1 /\ s.attempts = 0
                     /\ s.fire_in > 0 /\ s.state = "pending"
                     /\ inbox[a][r.occurrence] > 0 \/ spent
<1>1. PICK w \in Workers :
        /\ StillOwns(w) /\ job[w].alert = a /\ Outcome(w, row'[a])
        /\ ClaimedRow(w) = row[a]
        /\ job[w].attempts = row[a].attempts
        /\ job[w].occurrence = row[a].occurrence
  BY SettledRow
<1>2. row[a] \in Row /\ IsBusy(w)
  BY <1>1 DEF TypeOK, StillOwns
<1>3. /\ phase[w] = "accepted" => inbox[a][row[a].occurrence] > 0
      /\ phase[w] = "rejected" => ~reachable
  BY <1>1, <1>2 DEF Evidence
<1>4. GivesUp(w) => row[a].attempts >= MaxAttempts
  BY <1>1 DEF GivesUp, OutOfAttempts
<1>5. HasNext(w) <=> (a \in Recurring /\ row[a].occurrence < LastOccurrence)
  BY <1>1 DEF HasNext
<1> QED BY <1>1, <1>2, <1>3, <1>4, <1>5, OutcomeFields

Closing == SentWasDelivered /\ FailureIsJustified

LEMMA ClosingStep ==
    TypeOK /\ TypeOK' /\ ClaimFencing /\ Evidence /\ Closing /\ [Next]_vars => Closing'
<1> SUFFICES ASSUME TypeOK, TypeOK', ClaimFencing, Evidence, Closing, [Next]_vars,
                    NEW a \in Alerts
             PROVE  /\ row'[a].state = "sent" => inbox'[a][row'[a].occurrence] > 0
                    /\ row'[a].state = "failed" =>
                         \/ ~reachable'
                         \/ /\ row'[a].attempts >= MaxAttempts
                            /\ ~(a \in Recurring /\ row'[a].occurrence < LastOccurrence)
  BY DEF Closing, SentWasDelivered, FailureIsJustified
<1>1. /\ row[a] \in Row /\ row[a].occurrence \in Occurrences
      /\ inbox[a][row[a].occurrence] \in Nat /\ inbox'[a][row[a].occurrence] \in Nat
  BY DEF TypeOK, Evidence
<1>2. inbox[a][row[a].occurrence] > 0 => inbox'[a][row[a].occurrence] > 0
  BY <1>1, ChatSteps
<1>3. ~reachable => ~reachable'
  BY ChatSteps
<1>4. CASE Settled(a, row'[a])
  BY <1>2, <1>3, <1>4, SettledOnEvidence
<1>5. CASE /\ row'[a].state = row[a].state /\ row'[a].occurrence = row[a].occurrence
           /\ row'[a].attempts = row[a].attempts
  BY <1>2, <1>3, <1>5 DEF Closing, SentWasDelivered, FailureIsJustified
<1>6. row'[a].state \notin {"sent", "failed"} \/ Settled(a, row'[a])
      \/ row'[a] \in {row[a], Migrated(row[a], "group", "supergroup"), Aged(row[a])}
  BY <1>1, Fields, RowSteps DEF RowStep
<1> QED BY <1>1, <1>4, <1>5, <1>6, Fields

LEMMA ClosingAlways == Spec => []Closing
<1>1. Init => Closing
  BY DEF Init, Closing, SentWasDelivered, FailureIsJustified, NoRow
<1> QED BY <1>1, ClosingStep, EvidenceAlways, TypeCorrect, Fencing, PTL DEF Spec

\* No alert is closed as sent before Telegram accepted the occurrence it was
\* closed on (finalise_after_send).
THEOREM Delivered == Spec => []SentWasDelivered
<1>1. Closing => SentWasDelivered
  BY DEF Closing
<1> QED BY <1>1, ClosingAlways, PTL

\* No alert fails but for an unreachable chat or MAX_ATTEMPTS, and a series
\* with occurrences left for the chat only (give_up_occurrence).
THEOREM Justified == Spec => []FailureIsJustified
<1>1. Closing => FailureIsJustified
  BY DEF Closing
<1> QED BY <1>1, ClosingAlways, PTL

-----------------------------------------------------------------------------
(* Action properties that rest on the evidence.                            *)

LEMMA OccurrenceStep ==
    ASSUME TypeOK, ClaimFencing, Unused, Evidence, [Next]_vars, NEW a \in Alerts
    PROVE  /\ row'[a].occurrence # row[a].occurrence =>
                /\ row'[a].occurrence = row[a].occurrence + 1
                /\ row'[a].fire_in > 0 /\ row'[a].attempts = 0
                /\ \/ inbox[a][row[a].occurrence] > 0
                   \/ row[a].attempts >= MaxAttempts
           /\ row'[a].occurrence = row[a].occurrence =>
                row'[a].attempts >= row[a].attempts
<1>1. /\ row[a] \in Row /\ row[a].attempts \in Nat /\ row[a].occurrence \in Nat
  BY ColumnTypes, StoreAssumption DEF TypeOK
<1>2. CASE Settled(a, row'[a])
  BY <1>1, <1>2, SettledOnEvidence
<1>3. CASE row'[a] = Claimed(row[a])
  BY <1>1, <1>3, Fields
<1>4. CASE row'[a] \in {Cancelled(row[a]), Released(row[a]), row[a],
                       Migrated(row[a], "group", "supergroup"), Aged(row[a])}
  BY <1>1, <1>4, Fields
<1>5. CASE row[a].state = "none" /\ row'[a].occurrence = 0 /\ row'[a].attempts = 0
  BY <1>5 DEF Unused, NoRow
<1> QED BY <1>2, <1>3, <1>4, <1>5, RowSteps DEF RowStep

\* No occurrence of a series is skipped or counted anew, except once it has
\* arrived or used up its attempts (advance_to_next_occurrence).
THEOREM NothingDropped == Spec => NoOccurrenceIsDropped
<1>1. TypeOK /\ ClaimFencing /\ Unused /\ Evidence /\ [Next]_vars =>
        [\A a \in Alerts :
           /\ row'[a].occurrence # row[a].occurrence =>
               /\ row'[a].occurrence = row[a].occurrence + 1
               /\ row'[a].fire_in > 0 /\ row'[a].attempts = 0
               /\ \/ inbox[a][row[a].occurrence] > 0
                  \/ row[a].attempts >= MaxAttempts
           /\ row'[a].occurrence = row[a].occurrence =>
               row'[a].attempts >= row[a].attempts]_vars
  BY OccurrenceStep
<1> QED
  BY <1>1, TypeCorrect, Fencing, UnusedAlways, EvidenceAlways, PTL
     DEF Spec, NoOccurrenceIsDropped

\* A finished or cancelled alert is silent but for attempts that outlived
\* their claim (HTTP timeout below STALE_CLAIM_SECS).
THEOREM Silent == Spec => FinishedStaysSilent
<1>1. ASSUME TypeOK, ClaimFencing, Timely, Evidence, [Next]_vars,
             NEW a \in Alerts, row[a].state \in Terminal, inbox'[a] # inbox[a]
      PROVE  \E w \in stalled : job[w].alert = a
  <2>1. PICK w \in Workers : phase[w] = "sending" /\ job[w].alert = a
    BY <1>1, ChatSteps
  <2>2. IsBusy(w) /\ ~StillOwns(w)
    BY <1>1, <2>1 DEF IsBusy, Busy, StillOwns, Terminal
  <2> QED BY <1>1, <2>1, <2>2 DEF Timely, TimelyAttemptsOwnTheirClaim
<1>2. TypeOK /\ ClaimFencing /\ Timely /\ Evidence /\ [Next]_vars =>
        [\A a \in Alerts :
           row[a].state \in Terminal /\ inbox'[a] # inbox[a] =>
               \E w \in stalled : job[w].alert = a]_vars
  BY <1>1
<1> QED
  BY <1>2, TimelyAlways, TypeCorrect, Fencing, EvidenceAlways, PTL
     DEF Spec, FinishedStaysSilent
-----------------------------------------------------------------------------
(* Copies are paid for.  An occurrence has one copy to come for free; it is *)
(* in the hands of an attempt, or it is open: the row may be claimed for    *)
(* it, and no attempt in time is about to move the row on.  Every copy      *)
(* beyond that, arrived or under way, is the price of a fault.              *)

Attempting(a, k) ==
    {w \in Workers : phase[w] = "sending" /\ job[w].alert = a /\ job[w].occurrence = k}

InFlight(a, k) ==
    \E w \in Workers \ stalled :
        /\ phase[w] \in {"sending", "accepted", "rejected"}
        /\ job[w].alert = a /\ job[w].occurrence = k

Open(a, k) ==
    row[a].state \notin Terminal /\ row[a].occurrence <= k /\ ~InFlight(a, k)

Copies(a, k) == inbox[a][k] + Cardinality(Attempting(a, k))

Paid(a, k) ==
    /\ IsFiniteSet(Attempting(a, k))
    /\ Copies(a, k) + (IF Open(a, k) THEN 1 ELSE 0) <= 1 + (MaxFaults - faults)

AllPaid == \A a \in Alerts, k \in Occurrences : Paid(a, k)

LEMMA CopiesType ==
    ASSUME TypeOK, NEW a \in Alerts, NEW k \in Occurrences,
           IsFiniteSet(Attempting(a, k))
    PROVE  Cardinality(Attempting(a, k)) \in Nat /\ inbox[a][k] \in Nat
           /\ Copies(a, k) \in Nat
<1>1. Cardinality(Attempting(a, k)) \in Nat
  BY FS_CardinalityType
<1>2. inbox[a][k] \in Nat
  BY DEF TypeOK
<1> QED BY <1>1, <1>2 DEF Copies

\* Nobody begins to send.
LEMMA FewerAttempts ==
    ASSUME TypeOK, NEW a \in Alerts, NEW k \in Occurrences,
           IsFiniteSet(Attempting(a, k)),
           Attempting(a, k)' \subseteq Attempting(a, k)
    PROVE  /\ IsFiniteSet(Attempting(a, k)')
           /\ Cardinality(Attempting(a, k)') \in Nat
           /\ Cardinality(Attempting(a, k)') <= Cardinality(Attempting(a, k))
           /\ Attempting(a, k)' # Attempting(a, k) =>
                Cardinality(Attempting(a, k)') <= Cardinality(Attempting(a, k)) - 1
<1> DEFINE S == Attempting(a, k)
           T == Attempting(a, k)'
<1> HIDE DEF S, T
<1>1. IsFiniteSet(S) /\ T \in SUBSET S
  BY DEF S, T
<1>2. IsFiniteSet(T) /\ Cardinality(T) <= Cardinality(S)
      /\ (Cardinality(S) = Cardinality(T) => S = T)
  BY <1>1, FS_Subset
<1>3. Cardinality(T) \in Nat /\ Cardinality(S) \in Nat
  BY <1>1, <1>2, FS_CardinalityType
<1>4. T # S => Cardinality(T) <= Cardinality(S) - 1
  BY <1>2, <1>3
<1> QED BY <1>2, <1>3, <1>4 DEF S, T

\* A step that begins no attempt, rings nobody and opens nothing for free.
LEMMA PaidKept ==
    ASSUME TypeOK, TypeOK', NEW a \in Alerts, NEW k \in Occurrences, Paid(a, k),
           Attempting(a, k)' \subseteq Attempting(a, k),
           inbox'[a][k] = inbox[a][k],
           \/ faults' = faults /\ (Open(a, k)' => Open(a, k))
           \/ faults' = faults /\ Attempting(a, k)' # Attempting(a, k)
           \/ faults' = faults - 1
    PROVE  Paid(a, k)'
<1>1. /\ IsFiniteSet(Attempting(a, k)') /\ Cardinality(Attempting(a, k)') \in Nat
      /\ Cardinality(Attempting(a, k)') <= Cardinality(Attempting(a, k))
      /\ Attempting(a, k)' # Attempting(a, k) =>
           Cardinality(Attempting(a, k)') <= Cardinality(Attempting(a, k)) - 1
  BY FewerAttempts DEF Paid
<1>2. Cardinality(Attempting(a, k)) \in Nat /\ inbox[a][k] \in Nat
  BY CopiesType DEF Paid
<1>3. faults \in Int /\ faults' \in Int /\ MaxFaults \in Int
  BY DeliveryAssumption DEF TypeOK
<1>4. inbox[a][k] + Cardinality(Attempting(a, k)) + (IF Open(a, k) THEN 1 ELSE 0)
        <= 1 + (MaxFaults - faults)
  BY DEF Paid, Copies
<1>5. inbox'[a][k] + Cardinality(Attempting(a, k)') + (IF Open(a, k)' THEN 1 ELSE 0)
        <= 1 + (MaxFaults - faults')
  <2>1. CASE faults' = faults /\ (Open(a, k)' => Open(a, k))
    <3>1. (IF Open(a, k)' THEN 1 ELSE 0) <= (IF Open(a, k) THEN 1 ELSE 0)
      BY <2>1
    <3> QED BY <1>1, <1>2, <1>3, <1>4, <2>1, <3>1
  <2>2. CASE faults' = faults /\ Attempting(a, k)' # Attempting(a, k)
    BY <1>1, <1>2, <1>3, <1>4, <2>2
  <2>3. CASE faults' = faults - 1
    BY <1>1, <1>2, <1>3, <1>4, <2>3
  <2> QED BY <2>1, <2>2, <2>3
<1> QED BY <1>1, <1>5 DEF Paid, Copies

\* Rows are not reopened and never go back: only an attempt that ends opens
\* an occurrence.
LEMMA OpensAtAnEnd ==
    ASSUME TypeOK, ClaimFencing, Unused, Evidence, [Next]_vars,
           NEW a \in Alerts, NEW k \in Occurrences, InFlight(a, k) => InFlight(a, k)'
    PROVE  Open(a, k)' => Open(a, k)
<1>1. row[a].occurrence \in Nat /\ k \in Int
  BY ColumnTypes DEF TypeOK, Occurrences
<1>2. row[a].state \in Terminal => row'[a].state \in Terminal
  BY FinishedStep
<1>3. row'[a].occurrence >= row[a].occurrence
  BY <1>1, OccurrenceStep
<1>4. row'[a].occurrence <= k => row[a].occurrence <= k
  <2>1. row'[a].occurrence = row[a].occurrence \/ row'[a].occurrence = row[a].occurrence + 1
    BY OccurrenceStep
  <2> QED BY <1>1, <2>1
<1> QED BY <1>2, <1>4 DEF Open

\* Steps of the users, the reaper and the clock leave every attempt alone.
LEMMA PaidWithoutWorkers ==
    ASSUME TypeOK, TypeOK', ClaimFencing, Unused, Evidence, [Next]_vars,
           UNCHANGED <<phase, job, stalled, inbox>>,
           faults' = faults \/ faults' = faults - 1,
           NEW a \in Alerts, NEW k \in Occurrences, Paid(a, k)
    PROVE  Paid(a, k)'
<1>1. Attempting(a, k)' = Attempting(a, k) /\ InFlight(a, k)' = InFlight(a, k)
  BY DEF Attempting, InFlight
<1>2. Open(a, k)' => Open(a, k)
  BY <1>1, OpensAtAnEnd
<1> QED BY <1>1, <1>2, PaidKept

\* A claim takes the occurrence that was open.
LEMMA PaidClaim ==
    ASSUME TypeOK, TypeOK', ClaimFencing, Unused, Evidence, Timely, [Next]_vars,
           NEW w \in Workers, ClaimDueAlerts(w),
           NEW a \in Alerts, NEW k \in Occurrences, Paid(a, k)
    PROVE  Paid(a, k)'
<1>1. PICK b \in Alerts : /\ IsDue(row[b]) /\ row' = [row EXCEPT ![b] = Claimed(@)]
                          /\ job' = [job EXCEPT ![w] = Snapshot(b, Claimed(row[b]))]
  BY DEF ClaimDueAlerts, DueFirst
<1>2. /\ phase[w] = "idle" /\ phase' = [phase EXCEPT ![w] = "sending"]
      /\ UNCHANGED <<stalled, inbox, faults>>
  BY DEF ClaimDueAlerts
<1>3. w \notin stalled
  BY <1>2 DEF TypeOK, IsBusy, Busy, Answered, OtherError
<1>4. /\ phase'[w] = "sending" /\ job'[w].alert = b
      /\ job'[w].occurrence = row[b].occurrence /\ row[b] \in Row
  BY <1>1, <1>2, Fields DEF Snapshot, TypeOK
<1>5. \A v \in Workers \ {w} : phase'[v] = phase[v] /\ job'[v] = job[v]
  BY <1>1, <1>2 DEF TypeOK
<1>6. InFlight(a, k) => InFlight(a, k)'
  <2> SUFFICES ASSUME NEW v \in Workers \ stalled,
                      phase[v] \in {"sending", "accepted", "rejected"},
                      job[v].alert = a, job[v].occurrence = k
               PROVE  InFlight(a, k)'
    BY DEF InFlight
  <2>1. v # w
    BY <1>2
  <2> QED BY <1>2, <1>5, <2>1 DEF InFlight
<1>7. Open(a, k)' => Open(a, k)
  BY <1>6, OpensAtAnEnd
<1>8. CASE a = b /\ k = row[b].occurrence
  <2>1. ~InFlight(a, k)
    <3> SUFFICES ASSUME NEW v \in Workers \ stalled,
                        phase[v] \in {"sending", "accepted", "rejected"},
                        job[v].alert = a
                 PROVE  FALSE
      BY DEF InFlight
    <3>1. StillOwns(v)
      BY DEF Timely, TimelyAttemptsOwnTheirClaim, IsBusy, Busy, Answered
    <3> QED BY <1>1, <1>8, <3>1 DEF StillOwns, IsDue
  <2>2. Open(a, k)
    BY <1>1, <1>8, <2>1, <1>4, ColumnTypes DEF Open, IsDue, Terminal
  <2>3. ~Open(a, k)'
    BY <1>2, <1>3, <1>4, <1>8 DEF Open, InFlight
  <2>4. Attempting(a, k)' = Attempting(a, k) \cup {w}
    BY <1>2, <1>4, <1>5, <1>8 DEF Attempting
  <2>5. w \notin Attempting(a, k)
    BY <1>2 DEF Attempting
  <2>6. /\ IsFiniteSet(Attempting(a, k)')
        /\ Cardinality(Attempting(a, k)') = Cardinality(Attempting(a, k)) + 1
    BY <2>4, <2>5, FS_AddElement DEF Paid
  <2>7. Cardinality(Attempting(a, k)) \in Nat /\ inbox[a][k] \in Nat
    BY CopiesType DEF Paid
  <2>8. faults \in Int /\ MaxFaults \in Int
    BY DeliveryAssumption DEF TypeOK
  <2> QED BY <1>2, <2>2, <2>3, <2>6, <2>7, <2>8 DEF Paid, Copies
<1>9. CASE ~(a = b /\ k = row[b].occurrence)
  <2>1. Attempting(a, k)' \subseteq Attempting(a, k)
    BY <1>4, <1>5, <1>9 DEF Attempting
  <2> QED BY <1>2, <1>7, <2>1, PaidKept
<1> QED BY <1>8, <1>9

\* An attempt that ends, or whose time is up, for the price of a fault.
LEMMA PaidMisfortune ==
    ASSUME TypeOK, TypeOK', NEW w \in Workers,
           WriteFailed(w) \/ Stall(w) \/ Crash(w) \/ SendLimited(w),
           NEW a \in Alerts, NEW k \in Occurrences, Paid(a, k)
    PROVE  Paid(a, k)'
<1>1. faults' = faults - 1 /\ inbox' = inbox
  BY DEF WriteFailed, WorkerFreed, Stall, Crash, SendLimited, Fault
<1>2. \A v \in Workers : phase'[v] = "sending" => phase[v] = "sending" /\ job'[v] = job[v]
  BY DEF WriteFailed, WorkerFreed, Stall, Crash, SendLimited, Answer, TypeOK
<1>3. Attempting(a, k)' \subseteq Attempting(a, k)
  BY <1>2 DEF Attempting
<1> QED BY <1>1, <1>3, PaidKept

\* The workers that do nothing, in a step of w that begins no attempt.
OthersStay(w) ==
    /\ \A v \in Workers \ {w} :
         phase'[v] = phase[v] /\ job'[v] = job[v] /\ (v \in stalled' <=> v \in stalled)
    /\ phase'[w] # "sending"
    /\ stalled' \subseteq stalled

LEMMA OthersStayPaid ==
    ASSUME NEW w \in Workers, OthersStay(w), NEW a \in Alerts, NEW k \in Occurrences
    PROVE  /\ Attempting(a, k)' = Attempting(a, k) \ {w}
           /\ (InFlight(a, k) => InFlight(a, k)')
                \/ (/\ w \notin stalled /\ job[w].alert = a /\ job[w].occurrence = k
                    /\ phase[w] \in {"sending", "accepted", "rejected"})
<1>1. Attempting(a, k)' = Attempting(a, k) \ {w}
  BY DEF OthersStay, Attempting
<1>2. SUFFICES ASSUME InFlight(a, k),
                      ~(/\ w \notin stalled /\ job[w].alert = a /\ job[w].occurrence = k
                        /\ phase[w] \in {"sending", "accepted", "rejected"})
               PROVE  InFlight(a, k)'
  BY <1>1
<1>3. PICK v \in Workers \ stalled :
        /\ phase[v] \in {"sending", "accepted", "rejected"}
        /\ job[v].alert = a /\ job[v].occurrence = k
  BY <1>2 DEF InFlight
<1>4. v # w
  BY <1>2, <1>3
<1> QED BY <1>3, <1>4 DEF OthersStay, InFlight

\* An answer that rings nobody ends an attempt, which may open the occurrence
\* it was for.
LEMMA PaidAnswer ==
    ASSUME TypeOK, TypeOK', ClaimFencing, Unused, Evidence, [Next]_vars,
           NEW w \in Workers, SendMigrated(w) \/ SendRejected(w) \/ SendRefused(w),
           NEW a \in Alerts, NEW k \in Occurrences, Paid(a, k)
    PROVE  Paid(a, k)'
<1>1. phase[w] = "sending" /\ UNCHANGED <<row, job, stalled, inbox, faults>>
  BY DEF SendMigrated, SendRejected, SendRefused, Answer
<1>2. OthersStay(w)
  BY DEF SendMigrated, SendRejected, SendRefused, Answer, OthersStay, TypeOK
<1>3. Attempting(a, k)' = Attempting(a, k) \ {w}
  BY <1>2, OthersStayPaid
<1>4. CASE job[w].alert = a /\ job[w].occurrence = k
  <2>1. Attempting(a, k)' # Attempting(a, k)
    BY <1>1, <1>3, <1>4 DEF Attempting
  <2> QED BY <1>1, <1>3, <2>1, PaidKept
<1>5. CASE ~(job[w].alert = a /\ job[w].occurrence = k)
  <2>1. Open(a, k)' => Open(a, k)
    BY <1>2, <1>5, OthersStayPaid, OpensAtAnEnd
  <2> QED BY <1>1, <1>3, <2>1, PaidKept
<1> QED BY <1>4, <1>5

\* Telegram takes the message: the copy under way has arrived.  A worker that
\* hears of it is still about to move the row on; one that does not is a fault.
LEMMA PaidRing ==
    ASSUME TypeOK, TypeOK', ClaimFencing, Unused, Evidence, [Next]_vars,
           NEW w \in Workers,
           SendAccepted(w) \/ SendFailed(w),
           NEW a \in Alerts, NEW k \in Occurrences, Paid(a, k)
    PROVE  Paid(a, k)'
<1>1. phase[w] = "sending" /\ UNCHANGED <<row, job, stalled>>
  BY DEF SendAccepted, SendFailed, Answer
<1>2. OthersStay(w)
  BY DEF SendAccepted, SendFailed, Answer, OthersStay, TypeOK
<1>3. Attempting(a, k)' = Attempting(a, k) \ {w}
  BY <1>2, OthersStayPaid
<1>4. IsBusy(w) /\ job[w].alert \in Alerts /\ job[w].occurrence \in Occurrences
  BY <1>1, JobTypes DEF IsBusy, Busy, Evidence
<1>5. inbox' = inbox \/ Ring(w)
  BY DEF SendAccepted, SendFailed
<1>6. inbox'[a][k] = inbox[a][k]
      \/ (job[w].alert = a /\ job[w].occurrence = k /\ inbox'[a][k] = inbox[a][k] + 1)
  BY <1>4, <1>5, RingCounts
<1>7. /\ Cardinality(Attempting(a, k)) \in Nat /\ inbox[a][k] \in Nat
      /\ faults \in Int /\ faults' \in Int /\ MaxFaults \in Int
  BY CopiesType, DeliveryAssumption DEF Paid, TypeOK
<1>8. CASE job[w].alert = a /\ job[w].occurrence = k
  <2>1. w \in Attempting(a, k)
    BY <1>1, <1>8 DEF Attempting
  <2>2. /\ IsFiniteSet(Attempting(a, k)')
        /\ Cardinality(Attempting(a, k)') = Cardinality(Attempting(a, k)) - 1
    BY <1>3, <2>1, FS_RemoveElement DEF Paid
  <2>3. CASE SendAccepted(w)
    <3>1. faults' = faults
      BY <2>3 DEF SendAccepted
    <3>2. InFlight(a, k) => InFlight(a, k)'
      <4>1. CASE w \notin stalled
        <5>1. phase'[w] = "accepted"
          BY <2>3 DEF SendAccepted, Answer, TypeOK
        <5> QED BY <1>1, <1>8, <4>1, <5>1 DEF InFlight
      <4>2. CASE w \in stalled
        BY <1>2, <4>2, OthersStayPaid
      <4> QED BY <4>1, <4>2
    <3>3. Open(a, k)' => Open(a, k)
      BY <3>2, OpensAtAnEnd
    <3>4. (IF Open(a, k)' THEN 1 ELSE 0) <= (IF Open(a, k) THEN 1 ELSE 0)
      BY <3>3
    <3> QED BY <1>6, <1>7, <2>2, <3>1, <3>4 DEF Paid, Copies
  <2>4. CASE SendFailed(w)
    <3>1. faults' = faults - 1
      BY <2>4 DEF SendFailed, Fault
    <3> QED BY <1>6, <1>7, <2>2, <3>1 DEF Paid, Copies
  <2> QED BY <2>3, <2>4
<1>9. CASE ~(job[w].alert = a /\ job[w].occurrence = k)
  <2>1. Open(a, k)' => Open(a, k)
    BY <1>2, <1>9, OthersStayPaid, OpensAtAnEnd
  <2>2. faults' = faults \/ faults' = faults - 1
    BY DEF SendAccepted, SendFailed, Fault
  <2> QED BY <1>3, <1>6, <1>9, <2>1, <2>2, PaidKept
<1> QED BY <1>8, <1>9

\* An attempt in time that heard yes or no moves the row on, or closes it.
LEMMA MovedOn ==
    ASSUME TypeOK, ClaimFencing, Evidence, Timely, NEW w \in Workers, Settle(w),
           w \notin stalled, phase[w] \in {"accepted", "rejected"},
           NEW a, NEW k, job[w].alert = a, job[w].occurrence = k
    PROVE  ~Open(a, k)'
<1> DEFINE r == row[a]
<1>1. IsBusy(w) /\ a \in Alerts /\ k \in Nat /\ r \in Row
  BY JobTypes DEF TypeOK, IsBusy, Busy, Answered
<1>2. StillOwns(w)
  BY <1>1 DEF Timely, TimelyAttemptsOwnTheirClaim
<1>3. HoldsClaim(r, job[w].generation) /\ r.occurrence = k
  BY <1>2 DEF StillOwns, HoldsClaim, ClaimFencing, FreshSnapshot, ClaimedRow
<1>4. ASSUME NEW s, Write(w, s) PROVE row'[a] = s
  BY <1>1, <1>3, <1>4 DEF Write, TypeOK
<1>5. \/ \E d \in Int : row'[a] = Advanced(r, d)
      \/ row'[a] = MarkSent(r)
      \/ row'[a] = MarkFailed(r)
  <2>1. FinaliseAfterSend(w) \/ FailPermanently(w)
    BY DEF Settle, FinaliseAfterSend, FailPermanently, RescheduleLimited,
       GiveUpOccurrence, RetryLater, MigrateThenRequeue, RequeueNow, OtherError
  <2>2. ASSUME AdvanceToNext(w) PROVE \E d \in Int : row'[a] = Advanced(r, d)
    BY <1>4, <2>2, DeliveryAssumption DEF AdvanceToNext, ClaimedRow
  <2> QED BY <1>4, <2>1, <2>2 DEF FinaliseAfterSend, FailPermanently, ClaimedRow
<1>6. row'[a].state \in Terminal \/ row'[a].occurrence = k + 1
  BY <1>1, <1>3, <1>5, Fields DEF Terminal
<1> QED BY <1>1, <1>6 DEF Open

LEMMA PaidSettle ==
    ASSUME TypeOK, TypeOK', ClaimFencing, Unused, Evidence, Timely, [Next]_vars,
           NEW w \in Workers, Settle(w),
           NEW a \in Alerts, NEW k \in Occurrences, Paid(a, k)
    PROVE  Paid(a, k)'
<1>1. IsBusy(w) /\ (MigrateThenRequeue(w) \/ \E r : Write(w, r))
  BY SettleSteps
<1>2. /\ OthersStay(w) /\ inbox' = inbox
      /\ faults' = faults \/ faults' = faults - 1
  BY <1>1 DEF MigrateThenRequeue, Write, WorkerFreed, OthersStay, TypeOK, Fault
<1>3. Attempting(a, k)' \subseteq Attempting(a, k)
  BY <1>2, OthersStayPaid
<1>4. phase[w] # "sending"
  BY DEF Settle, FinaliseAfterSend, FailPermanently, RescheduleLimited,
     GiveUpOccurrence, RetryLater, MigrateThenRequeue, RequeueNow, OtherError
<1>5. Open(a, k)' => Open(a, k)
  BY <1>2, <1>4, OthersStayPaid, OpensAtAnEnd, MovedOn
<1> QED BY <1>2, <1>3, <1>5, PaidKept

LEMMA PaidRestart ==
    ASSUME TypeOK, TypeOK', ClaimFencing, Unused, Evidence, [Next]_vars,
           NEW w \in Workers, Restart(w),
           NEW a \in Alerts, NEW k \in Occurrences, Paid(a, k)
    PROVE  Paid(a, k)'
<1>1. OthersStay(w) /\ phase[w] = "down" /\ UNCHANGED <<inbox, faults>>
  BY DEF Restart, OthersStay, TypeOK
<1>2. Attempting(a, k)' \subseteq Attempting(a, k) /\ (Open(a, k)' => Open(a, k))
  BY <1>1, OthersStayPaid, OpensAtAnEnd
<1> QED BY <1>1, <1>2, PaidKept

LEMMA PaidStep ==
    TypeOK /\ TypeOK' /\ ClaimFencing /\ Unused /\ Evidence /\ Timely /\ AllPaid
        /\ [Next]_vars => AllPaid'
<1> SUFFICES ASSUME TypeOK, TypeOK', ClaimFencing, Unused, Evidence, Timely, AllPaid,
                    [Next]_vars, NEW a \in Alerts, NEW k \in Occurrences
             PROVE  Paid(a, k)'
  BY DEF AllPaid, Occurrences
<1>1. Paid(a, k)
  BY DEF AllPaid
<1>2. CASE Users \/ ReleaseStaleClaims \/ Tick \/ UNCHANGED vars
  <2>1. UNCHANGED <<phase, job, stalled, inbox, faults>>
    BY <1>2 DEF Users, CreateAlert, CancelAlert, UpgradeGroup, BlockBot,
       HandleChatMigration, ReleaseStaleClaims, Tick, vars
  <2> QED BY <1>1, <2>1, PaidWithoutWorkers
<1>3. ASSUME NEW w \in Workers, ClaimLost(w) PROVE Paid(a, k)'
  <2>1. UNCHANGED <<phase, job, stalled, inbox>> /\ faults' = faults - 1
    BY <1>3 DEF ClaimLost, Fault
  <2> QED BY <1>1, <2>1, PaidWithoutWorkers
<1>4. ASSUME NEW w \in Workers, ClaimDueAlerts(w) PROVE Paid(a, k)'
  BY <1>1, <1>4, PaidClaim
<1>5. ASSUME NEW w \in Workers, Send(w) \/ SendFailed(w) PROVE Paid(a, k)'
  BY <1>1, <1>5, PaidAnswer, PaidRing DEF Send
<1>6. ASSUME NEW w \in Workers, Settle(w) PROVE Paid(a, k)'
  BY <1>1, <1>6, PaidSettle
<1>7. ASSUME NEW w \in Workers,
             WriteFailed(w) \/ Stall(w) \/ Crash(w) \/ SendLimited(w) PROVE Paid(a, k)'
  BY <1>1, <1>7, PaidMisfortune
<1>8. ASSUME NEW w \in Workers, Restart(w) PROVE Paid(a, k)'
  BY <1>1, <1>8, PaidRestart
<1> QED
  BY <1>2, <1>3, <1>4, <1>5, <1>6, <1>7, <1>8 DEF Next, Misfortune

LEMMA PaidAlways == Spec => []AllPaid
<1>1. Init => AllPaid
  <2> SUFFICES ASSUME Init, NEW a \in Alerts, NEW k \in Occurrences PROVE Paid(a, k)
    BY DEF AllPaid
  <2>1. Attempting(a, k) = {} /\ inbox[a][k] = 0 /\ faults = MaxFaults
    BY DEF Init, Attempting
  <2>2. IsFiniteSet(Attempting(a, k)) /\ Cardinality(Attempting(a, k)) = 0
    BY <2>1, FS_EmptySet
  <2> QED BY <2>1, <2>2, DeliveryAssumption DEF Paid, Copies
<1> QED
  BY <1>1, PaidStep, TypeCorrect, Fencing, UnusedAlways, EvidenceAlways,
     TimelyAlways, PTL DEF Spec

\* At-least-once costs duplicates only for faults: whatever crashes, timeouts,
\* retries and reapers do, n faults bring at most n extra copies of an
\* occurrence, and none without faults (deliver, reaper_loop).
THEOREM DuplicatesPaidFor == Spec => []DuplicatesNeedFaults
<1>1. TypeOK /\ AllPaid => DuplicatesNeedFaults
  <2> SUFFICES ASSUME TypeOK, AllPaid, NEW a \in Alerts, NEW k \in Occurrences
               PROVE  inbox[a][k] <= 1 + (MaxFaults - faults)
    BY DEF DuplicatesNeedFaults
  <2>1. Paid(a, k)
    BY DEF AllPaid
  <2>2. /\ Cardinality(Attempting(a, k)) \in Nat /\ inbox[a][k] \in Nat
        /\ faults \in Int /\ MaxFaults \in Int
    BY <2>1, CopiesType, DeliveryAssumption DEF Paid, TypeOK
  <2> QED BY <2>1, <2>2 DEF Paid, Copies
<1> QED BY <1>1, PaidAlways, TypeCorrect, PTL

-----------------------------------------------------------------------------
(* Delivery implements the lifecycle of AlertLifecycle: claims, retries,   *)
(* releases and migrations are stutters of it, every other step is one of  *)
(* its steps.                                                              *)

\* What the lifecycle sees of a row.
Seen(r) == <<Stage(r), r.occurrence>>

-----------------------------------------------------------------------------
(* An attempt never works on an occurrence its row has not reached.        *)

Behind ==
    \A w \in Workers : IsBusy(w) => job[w].occurrence <= ClaimedRow(w).occurrence

LEMMA BehindStep ==
    TypeOK /\ TypeOK' /\ ClaimFencing /\ Unused /\ Evidence /\ Behind /\ [Next]_vars
        => Behind'
<1> SUFFICES ASSUME TypeOK, TypeOK', ClaimFencing, Unused, Evidence, Behind,
                    [Next]_vars, NEW w \in Workers, IsBusy(w)'
             PROVE  job'[w].occurrence <= row'[job'[w].alert].occurrence
  BY DEF Behind, ClaimedRow
<1>1. CASE Starts(w)
  <2>1. PICK a \in Alerts : row'[a] = Claimed(row[a])
                            /\ job'[w] = Snapshot(a, Claimed(row[a]))
    BY <1>1 DEF Starts
  <2>2. job'[w].occurrence = Claimed(row[a]).occurrence /\ job'[w].alert = a
    BY <2>1 DEF Snapshot
  <2>3. Claimed(row[a]).occurrence \in Nat
    BY Fields, ColumnTypes DEF TypeOK
  <2> QED BY <2>1, <2>2, <2>3
<1>2. CASE GoesOn(w)
  <2>1. IsBusy(w) /\ job'[w] = job[w] /\ job[w].alert \in Alerts
    BY <1>2, JobTypes DEF GoesOn
  <2>2. row[job[w].alert].occurrence \in Int /\ job[w].occurrence \in Int
    BY <2>1 DEF Evidence, Occurrences
  <2>3. \/ row'[job[w].alert].occurrence = row[job[w].alert].occurrence
        \/ row'[job[w].alert].occurrence = row[job[w].alert].occurrence + 1
    BY <2>1, OccurrenceStep
  <2> QED BY <2>1, <2>2, <2>3 DEF Behind, ClaimedRow
<1> QED BY <1>1, <1>2, WorkerSteps

LEMMA BehindAlways == Spec => []Behind
<1>1. Init => Behind
  BY DEF Init, Behind, IsBusy, Busy, Answered, OtherError
<1> QED
  BY <1>1, BehindStep, TypeCorrect, Fencing, UnusedAlways, EvidenceAlways, PTL DEF Spec

-----------------------------------------------------------------------------
(* What a step does to one alert.                                          *)

\* The alert stays where it is, or takes one step of its lifecycle.
AlertStep(a) ==
    \/ Seen(row'[a]) = Seen(row[a])
    \/ /\ Stage(row[a]) = "none" /\ Seen(row'[a]) = <<"armed", row[a].occurrence>>
    \/ /\ Stage(row[a]) = "armed" /\ a \in Recurring /\ row[a].occurrence < LastOccurrence
       /\ Seen(row'[a]) = <<"armed", row[a].occurrence + 1>>
    \/ /\ Stage(row[a]) = "armed"
       /\ \E how \in {"sent", "failed", "cancelled"} :
            /\ Seen(row'[a]) = <<how, row[a].occurrence>>
            /\ how = "sent" => inbox[a][row[a].occurrence] > 0

LEMMA SettledSeen ==
    ASSUME TypeOK, ClaimFencing, Evidence, NEW a \in Alerts, Settled(a, row'[a])
    PROVE  AlertStep(a)
<1>1. PICK w \in Workers :
        /\ job[w].alert = a /\ Outcome(w, row'[a]) /\ ClaimedRow(w) = row[a]
        /\ row[a].state = "claimed" /\ job[w].occurrence = row[a].occurrence
        /\ StillOwns(w)
  BY SettledRow
<1>2. row[a] \in Row
  BY DEF TypeOK
<1>3. Stage(row[a]) = "armed"
  BY <1>1 DEF Stage
<1>4. ASSUME NEW d \in 1 .. MaxDelay, row'[a] = Advanced(row[a], d), HasNext(w)
      PROVE  AlertStep(a)
  <2>1. Seen(row'[a]) = <<"armed", row[a].occurrence + 1>>
    BY <1>2, <1>4, Fields, DeliveryAssumption DEF Seen, Stage
  <2> QED BY <1>1, <1>3, <1>4, <2>1 DEF AlertStep, HasNext
<1>5. CASE phase[w] = "accepted" /\ row'[a] = MarkSent(row[a])
  <2>1. Seen(row'[a]) = <<"sent", row[a].occurrence>>
    BY <1>2, <1>5, Fields DEF Seen, Stage
  <2>2. inbox[a][row[a].occurrence] > 0
    BY <1>1, <1>5 DEF Evidence, StillOwns
  <2> QED BY <1>3, <2>1, <2>2 DEF AlertStep
<1>6. CASE row'[a] = MarkFailed(row[a])
  <2>1. Seen(row'[a]) = <<"failed", row[a].occurrence>>
    BY <1>2, <1>6, Fields DEF Seen, Stage
  <2> QED BY <1>3, <2>1 DEF AlertStep
<1>7. ASSUME NEW d \in Nat, row'[a] = Rescheduled(row[a], d) PROVE AlertStep(a)
  <2>1. Seen(row'[a]) = Seen(row[a])
    BY <1>1, <1>2, <1>7, Fields DEF Seen, Stage
  <2> QED BY <2>1 DEF AlertStep
<1> QED BY <1>1, <1>4, <1>5, <1>6, <1>7 DEF Outcome

LEMMA AlertSteps ==
    ASSUME TypeOK, ClaimFencing, Unused, Evidence, [Next]_vars, NEW a \in Alerts
    PROVE  AlertStep(a)
<1> USE DEF Seen, Stage
<1>1. row[a] \in Row
  BY DEF TypeOK
<1>2. CASE Settled(a, row'[a])
  BY <1>2, SettledSeen
<1>3. CASE IsDue(row[a]) /\ row'[a] = Claimed(row[a])
  BY <1>1, <1>3, Fields DEF IsDue, AlertStep
<1>4. CASE Cancellable(row[a]) /\ row'[a] = Cancelled(row[a])
  <2>1. Seen(row'[a]) = <<"cancelled", row[a].occurrence>> /\ Stage(row[a]) = "armed"
    BY <1>1, <1>4, Fields DEF Cancellable
  <2> QED BY <2>1 DEF AlertStep
<1>5. CASE IsStale(row[a]) /\ row'[a] = Released(row[a])
  BY <1>1, <1>5, Fields DEF IsStale, AlertStep
<1>6. CASE row'[a] \in {row[a], Migrated(row[a], "group", "supergroup"), Aged(row[a])}
  BY <1>1, <1>6, Fields DEF AlertStep
<1>7. CASE row[a].state = "none" /\ row'[a].state = "pending" /\ row'[a].occurrence = 0
  BY <1>7 DEF Unused, NoRow, AlertStep
<1> QED BY <1>2, <1>3, <1>4, <1>5, <1>6, <1>7, RowSteps DEF RowStep

-----------------------------------------------------------------------------
(* What a step does to all of them.                                        *)

\* One row is written and the chat is not reached; or no row changes for the
\* lifecycle, and at most a message arrives.
OneRow == inbox' = inbox /\ \E a \in Alerts : \A b \in Alerts \ {a} : row'[b] = row[b]

NothingSeen ==
    /\ \A a \in Alerts : Seen(row'[a]) = Seen(row[a])
    /\ \/ inbox' = inbox
       \/ \E w \in Workers : phase[w] = "sending" /\ Ring(w)

LEMMA WholeStep ==
    ASSUME TypeOK, [Next]_vars
    PROVE  OneRow \/ NothingSeen
<1>1. ASSUME UNCHANGED row,
             inbox' = inbox \/ \E w \in Workers : phase[w] = "sending" /\ Ring(w)
      PROVE  NothingSeen
  BY <1>1 DEF NothingSeen
<1>2. ASSUME UNCHANGED inbox,
             \A a \in Alerts : \/ row'[a] = row[a]
                               \/ row'[a] = Migrated(row[a], "group", "supergroup")
                               \/ row'[a] = Aged(row[a])
                               \/ IsStale(row[a]) /\ row'[a] = Released(row[a])
      PROVE  NothingSeen
  <2>1. ASSUME NEW a \in Alerts PROVE Seen(row'[a]) = Seen(row[a])
    <3>1. row[a] \in Row
      BY DEF TypeOK
    <3> QED BY <1>2, <3>1, Fields DEF Seen, Stage, IsStale
  <2> QED BY <1>2, <2>1 DEF NothingSeen
<1>3. ASSUME UNCHANGED inbox, NEW a, NEW r, row' = [row EXCEPT ![a] = r]
      PROVE  OneRow \/ NothingSeen
  <2>1. CASE a \in Alerts
    BY <1>3, <2>1 DEF OneRow, TypeOK
  <2>2. CASE a \notin Alerts
    <3>1. row' = row
      BY <1>3, <2>2 DEF TypeOK
    <3> QED BY <1>1, <1>3, <3>1
  <2> QED BY <2>1, <2>2
<1>4. CASE Users
  <2>1. ASSUME NEW a \in Alerts, CreateAlert(a) \/ CancelAlert(a)
        PROVE  OneRow \/ NothingSeen
    BY <1>3, <2>1 DEF CreateAlert, CancelAlert
  <2>2. CASE UpgradeGroup \/ BlockBot \/ HandleChatMigration
    BY <1>2, <2>2 DEF UpgradeGroup, BlockBot, HandleChatMigration, MigrateChat
  <2> QED BY <1>4, <2>1, <2>2 DEF Users
<1>5. ASSUME NEW w \in Workers, ClaimDueAlerts(w) \/ ClaimLost(w)
      PROVE  OneRow \/ NothingSeen
  BY <1>3, <1>5 DEF ClaimDueAlerts, ClaimLost
<1>6. ASSUME NEW w \in Workers, Settle(w) PROVE OneRow \/ NothingSeen
  <2>1. CASE MigrateThenRequeue(w)
    BY <1>2, <2>1 DEF MigrateThenRequeue, MigrateChat
  <2>2. CASE \E r : Write(w, r)
    BY <1>3, <2>2 DEF Write, WorkerFreed
  <2> QED BY <1>6, <2>1, <2>2, SettleSteps
<1>7. ASSUME NEW w \in Workers, Send(w) \/ SendLimited(w) \/ SendFailed(w)
      PROVE  NothingSeen
  <2>1. UNCHANGED row /\ phase[w] = "sending" /\ (inbox' = inbox \/ Ring(w))
    BY <1>7 DEF Send, SendAccepted, SendMigrated, SendRejected, SendRefused,
       SendLimited, SendFailed, Answer
  <2> QED BY <1>1, <2>1
<1>8. ASSUME NEW w \in Workers, WriteFailed(w) \/ Stall(w) \/ Crash(w) \/ Restart(w)
      PROVE  NothingSeen
  BY <1>1, <1>8 DEF WriteFailed, WorkerFreed, Stall, Crash, Restart
<1>9. CASE ReleaseStaleClaims \/ Tick \/ UNCHANGED vars
  BY <1>2, <1>9 DEF ReleaseStaleClaims, Tick, vars
<1> QED
  BY <1>4, <1>5, <1>6, <1>7, <1>8, <1>9 DEF Next, Misfortune

-----------------------------------------------------------------------------
(* The refinement.                                                         *)

Stages == [a \in Alerts |-> Stage(row[a])]
Positions == [a \in Alerts |-> row[a].occurrence]

LEMMA SeenUnchanged ==
    ASSUME \A a \in Alerts : Seen(row'[a]) = Seen(row[a])
    PROVE  Stages' = Stages /\ Positions' = Positions
<1>1. ASSUME NEW a \in Alerts
      PROVE  Stage(row'[a]) = Stage(row[a]) /\ row'[a].occurrence = row[a].occurrence
  BY <1>1 DEF Seen
<1> QED BY <1>1 DEF Stages, Positions

\* A message on an alert that was created, for an occurrence it has reached.
LEMMA RingMaps ==
    ASSUME TypeOK, ClaimFencing, Evidence, Behind, NothingSeen,
           NEW w \in Workers, phase[w] = "sending", Ring(w)
    PROVE  \E a \in Alerts : Lifecycle!Ring(a)
<1> DEFINE a == job[w].alert
           k == job[w].occurrence
<1>1. IsBusy(w)
  BY DEF IsBusy, Busy
<1>2. a \in Alerts /\ k \in Occurrences
  BY <1>1, JobTypes DEF Evidence
<1>3. row[a].state # "none" /\ k <= row[a].occurrence
  BY <1>1 DEF ClaimFencing, GenerationsBehind, Behind, ClaimedRow
<1>4. row[a].occurrence \in Nat /\ k \in 0 .. row[a].occurrence
  BY <1>2, <1>3 DEF Evidence, Occurrences
<1>5. Stages[a] # "none" /\ Positions[a] = row[a].occurrence
  BY <1>2, <1>3 DEF Stages, Positions, Stage
<1>6. Stages' = Stages /\ Positions' = Positions
  BY SeenUnchanged DEF NothingSeen
<1>7. inbox' = [inbox EXCEPT ![a][k] = @ + 1]
  BY DEF Ring
<1>8. Lifecycle!Ring(a)
  BY <1>4, <1>5, <1>6, <1>7 DEF Lifecycle!Ring, Stages, Positions
<1> QED BY <1>2, <1>8

\* A row that is written takes its alert one step on, and no other.
LEMMA RowMaps ==
    ASSUME NEW a \in Alerts, AlertStep(a), inbox' = inbox,
           \A b \in Alerts \ {a} : row'[b] = row[b]
    PROVE  \/ Stages' = Stages /\ Positions' = Positions
           \/ Lifecycle!Arm(a) \/ Lifecycle!Resolve(a)
<1>1. /\ Stages' = [Stages EXCEPT ![a] = Stage(row'[a])]
      /\ Positions' = [Positions EXCEPT ![a] = row'[a].occurrence]
  BY DEF Stages, Positions
<1>2. Stages[a] = Stage(row[a]) /\ Positions[a] = row[a].occurrence
  BY DEF Stages, Positions
<1>3. CASE Seen(row'[a]) = Seen(row[a])
  <2>1. Stage(row'[a]) = Stage(row[a]) /\ row'[a].occurrence = row[a].occurrence
    BY <1>3 DEF Seen
  <2> QED BY <1>1, <1>2, <2>1 DEF Stages, Positions
<1>4. CASE /\ Stage(row[a]) = "none" /\ Seen(row'[a]) = <<"armed", row[a].occurrence>>
  <2>1. Stage(row'[a]) = "armed" /\ row'[a].occurrence = row[a].occurrence
    BY <1>4 DEF Seen
  <2>2. Positions' = Positions /\ Stages' = [Stages EXCEPT ![a] = "armed"]
    BY <1>1, <1>2, <2>1 DEF Positions
  <2> QED BY <1>2, <1>4, <2>2 DEF Lifecycle!Arm, Stages, Positions
<1>5. CASE /\ Stage(row[a]) = "armed" /\ a \in Recurring
           /\ row[a].occurrence < LastOccurrence
           /\ Seen(row'[a]) = <<"armed", row[a].occurrence + 1>>
  <2>1. Stage(row'[a]) = "armed" /\ row'[a].occurrence = row[a].occurrence + 1
    BY <1>5 DEF Seen
  <2>2. Stages' = Stages /\ Positions' = [Positions EXCEPT ![a] = Positions[a] + 1]
    BY <1>1, <1>2, <1>5, <2>1 DEF Stages
  <2>3. Lifecycle!MoveOn(a)
    BY <1>2, <1>5, <2>2 DEF Lifecycle!MoveOn, Stages, Positions
  <2> QED BY <2>3 DEF Lifecycle!Resolve
<1>6. ASSUME Stage(row[a]) = "armed", NEW how \in {"sent", "failed", "cancelled"},
             Seen(row'[a]) = <<how, row[a].occurrence>>,
             how = "sent" => inbox[a][row[a].occurrence] > 0
      PROVE  Lifecycle!Resolve(a)
  <2>1. Stage(row'[a]) = how /\ row'[a].occurrence = row[a].occurrence
    BY <1>6 DEF Seen
  <2>2. Positions' = Positions /\ Stages' = [Stages EXCEPT ![a] = how]
    BY <1>1, <1>2, <2>1 DEF Positions
  <2>3. Lifecycle!Close(a, how)
    BY <1>2, <1>6, <2>2 DEF Lifecycle!Close, Stages, Positions
  <2> QED BY <2>3 DEF Lifecycle!Resolve
<1> QED BY <1>3, <1>4, <1>5, <1>6 DEF AlertStep

LEMMA StepMaps ==
    ASSUME TypeOK, ClaimFencing, Unused, Evidence, Behind, [Next]_vars
    PROVE  [Lifecycle!Next]_(Lifecycle!alertVars)
<1>1. CASE OneRow
  <2>1. PICK a \in Alerts : \A b \in Alerts \ {a} : row'[b] = row[b]
    BY <1>1 DEF OneRow
  <2>2. \/ Stages' = Stages /\ Positions' = Positions
        \/ Lifecycle!Arm(a) \/ Lifecycle!Resolve(a)
    BY <1>1, <2>1, AlertSteps, RowMaps DEF OneRow
  <2> QED
    BY <1>1, <2>2 DEF OneRow, Lifecycle!Next, Lifecycle!alertVars, Stages, Positions
<1>2. CASE NothingSeen
  <2>1. CASE inbox' = inbox
    BY <1>2, <2>1, SeenUnchanged
       DEF NothingSeen, Lifecycle!alertVars, Stages, Positions
  <2>2. ASSUME NEW w \in Workers, phase[w] = "sending", Ring(w)
        PROVE  Lifecycle!Next
    BY <1>2, <2>2, RingMaps DEF Lifecycle!Next
  <2> QED BY <1>2, <2>1, <2>2 DEF NothingSeen
<1> QED BY <1>1, <1>2, WholeStep

LEMMA InitMaps == Init => Lifecycle!Init
  BY DEF Init, Lifecycle!Init, NoRow, Stage, Occurrences

\* Claims, late writes, releases, migrations, crashes and lost answers show a
\* user nothing but the lifecycle: an alert is armed, rings, moves on and is
\* closed, each only when it may (deliver, the reaper and the handlers).
THEOREM Implements == Spec => Lifecycle!Spec
<1>1. TypeOK /\ ClaimFencing /\ Unused /\ Evidence /\ Behind /\ [Next]_vars
        => [Lifecycle!Next]_(Lifecycle!alertVars)
  BY StepMaps
<1> QED
  BY <1>1, InitMaps, TypeCorrect, Fencing, UnusedAlways, EvidenceAlways,
     BehindAlways, PTL DEF Spec, Lifecycle!Spec
=============================================================================
