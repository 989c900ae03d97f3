------------------------- MODULE DeliveryProperties -------------------------
(***************************************************************************)
(* What the delivery path guarantees: invariants, steps that may never     *)
(* happen, liveness under FairSpec, and the lifecycle it implements.       *)
(***************************************************************************)
EXTENDS Delivery

-----------------------------------------------------------------------------
(* Safety.                                                                 *)

\* Type correctness; a worker has a job exactly while it is busy, and only
\* busy workers stall.
TypeOK ==
    /\ row \in [Alerts -> Row]
    /\ phase \in [Workers -> Phase]
    /\ job \in [Workers -> Job \cup {NoJob}]
    /\ \A w \in Workers : IsBusy(w) <=> job[w] \in Job
    /\ stalled \in SUBSET Workers
    /\ \A w \in stalled : IsBusy(w)
    /\ inbox \in [Alerts -> [Occurrences -> Nat]]
    /\ upgraded \in BOOLEAN
    /\ reachable \in BOOLEAN
    /\ faults \in 0 .. MaxFaults

\* A worker never holds a generation the row has not reached ...
GenerationsBehind ==
    \A w \in Workers : IsBusy(w) =>
        /\ ClaimedRow(w).state # "none"
        /\ job[w].generation <= ClaimedRow(w).claim_generation

\* ... no two workers hold the same generation of an alert ...
OneWorkerPerGeneration ==
    \A v, w \in Workers :
        /\ IsBusy(v) /\ IsBusy(w) /\ v # w
        /\ job[v].alert = job[w].alert
        => job[v].generation # job[w].generation

\* ... and the snapshot of a worker whose claim still stands is current.
FreshSnapshot ==
    \A w \in Workers : StillOwns(w) =>
        /\ job[w].attempts = ClaimedRow(w).attempts
        /\ job[w].occurrence = ClaimedRow(w).occurrence

\* Fencing: whatever the reaper and other workers did while an attempt was in
\* flight, a guarded write of the worker that passes is the write of the only
\* current claimant and rests on current attempts and schedule position
\* (mark_sent .. advance_to_next_occurrence, claim_generation).
ClaimFencing == GenerationsBehind /\ OneWorkerPerGeneration /\ FreshSnapshot

\* An attempt that has not outlived the claim timeout still owns its claim, so
\* that neither another worker nor a cancellation can overtake it.
TimelyAttemptsOwnTheirClaim ==
    \A w \in Workers : IsBusy(w) /\ w \notin stalled => StillOwns(w)

\* No alert is closed as sent before Telegram accepted the occurrence it was
\* closed on, however many claims, retries and late writes came before.
SentWasDelivered ==
    \A a \in Alerts :
        row[a].state = "sent" => inbox[a][row[a].occurrence] > 0

\* A failed alert was unreachable or had used MAX_ATTEMPTS, and a series with
\* occurrences left fails only because the chat was unreachable
\* (give_up_occurrence: a transient outage must not end a series).
FailureIsJustified ==
    \A a \in Alerts : row[a].state = "failed" =>
        \/ ~reachable
        \/ /\ row[a].attempts >= MaxAttempts
           /\ ~(a \in Recurring /\ row[a].occurrence < LastOccurrence)

\* At-least-once costs duplicates only for faults: n faults explain at most
\* n extra copies of an occurrence, and without faults each arrives once.
DuplicatesNeedFaults ==
    \A a \in Alerts, k \in Occurrences :
        inbox[a][k] <= 1 + (MaxFaults - faults)

-----------------------------------------------------------------------------
(* What a step may never do.                                               *)

\* A late write, the reaper and the migration leave a finished alert finished,
\* and a generation is never handed out again, so that no stale worker can
\* regain its claim (migration 0005: "Never reset this counter").
FinishedForGood ==
    [][\A a \in Alerts :
        /\ row[a].state \in Terminal => row'[a].state = row[a].state
        /\ row'[a].claim_generation >= row[a].claim_generation
        /\ row[a].state # "claimed" /\ row'[a].state = "claimed"
            => row'[a].claim_generation > row[a].claim_generation]_vars

\* A series moves one occurrence on, into the future, and only after the
\* current one arrived or used up its attempts; the count of attempts starts
\* again then and at no other time.
NoOccurrenceIsDropped ==
    [][\A a \in Alerts :
        /\ row'[a].occurrence # row[a].occurrence =>
            /\ row'[a].occurrence = row[a].occurrence + 1
            /\ row'[a].fire_in > 0 /\ row'[a].attempts = 0
            /\ \/ inbox[a][row[a].occurrence] > 0
               \/ row[a].attempts >= MaxAttempts
        /\ row'[a].occurrence = row[a].occurrence =>
            row'[a].attempts >= row[a].attempts]_vars

\* A finished or cancelled alert rings again only out of an attempt that
\* outlived its claim.
FinishedStaysSilent ==
    [][\A a \in Alerts :
        row[a].state \in Terminal /\ inbox'[a] # inbox[a] =>
            \E w \in stalled : job[w].alert = a]_vars

\* What the header of worker.rs says of send errors: "on 4xx other than 429
\* mark failed".  The code fails the alert for BotBlocked, ChatNotFound and
\* UserDeactivated only; the rest is retried, and a series outlives it.
ClientErrorsFail ==
    [][\A w \in Workers :
        /\ phase[w] = "refused" /\ StillOwns(w)
        /\ phase'[w] = "idle" /\ row' # row
        => row'[job[w].alert].state = "failed"]_vars

-----------------------------------------------------------------------------
(* Liveness, under FairSpec.                                               *)

Waiting(a, k) ==
    row[a].state \in {"pending", "claimed"} /\ row[a].occurrence = k

\* With fewer faults than MAX_ATTEMPTS (less the attempt an upgrade costs), a
\* reachable chat gets every occurrence its owner did not cancel: outages
\* delay an alert, and do not lose it.
OutagesOnlyDelay ==
    \A a \in Alerts, k \in Occurrences :
        Waiting(a, k) ~>
            inbox[a][k] > 0 \/ row[a].state = "cancelled" \/ ~reachable

\* Once the group is a supergroup, an alert still filed under the old chat id
\* is moved or finished, even if the service message was lost.
OldChatEmpties ==
    \A a \in Alerts :
        upgraded /\ Waiting(a, row[a].occurrence) /\ row[a].chat_id = "group"
            ~> row[a].chat_id = "supergroup" \/ row[a].state \in Terminal

-----------------------------------------------------------------------------
(* Claims, retries and releases happen within the armed stage.             *)

Stage(r) == IF r.state \in {"pending", "claimed"} THEN "armed" ELSE r.state

Lifecycle == INSTANCE AlertLifecycle WITH
    stage <- [a \in Alerts |-> Stage(row[a])],
    position <- [a \in Alerts |-> row[a].occurrence],
    copies <- inbox

\* The same with the lifecycle's fairness: an armed alert is always resolved.
ImplementsFairLifecycle == Lifecycle!FairSpec
=============================================================================
