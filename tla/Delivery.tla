------------------------------ MODULE Delivery ------------------------------
(***************************************************************************)
(* The delivery path of crates/bot/src/worker.rs over the alerts table:    *)
(* worker processes claim one due alert at a time, send it with the Bot    *)
(* API and write the outcome back under the generation of their claim,     *)
(* while the reaper releases stale claims, users create and cancel alerts, *)
(* a group becomes a supergroup, and processes crash and restart.          *)
(*                                                                         *)
(* Each await of deliver() is a boundary between steps: the claim, the     *)
(* answer of the Bot API and every write are separate, with time, other    *)
(* workers, the reaper and users in between.                               *)
(***************************************************************************)
EXTENDS AlertStore, FiniteSets

CONSTANTS
    Alerts,             \* ids of the alerts table
    Recurring,          \* those whose schedule has a recurrence rule
    Workers,            \* processes running worker::run
    NoJob,              \* "this worker holds no claimed alert"
    MaxAttempts,        \* MAX_ATTEMPTS
    Backoff,            \* retry delays 5 << 0 .. 5 << 6, in model units
    MaxDelay,           \* bound: largest delay of a new, next or limited fire
    LastOccurrence,     \* bound: after it next_after answers None
    MaxGeneration,      \* bound: claims of one alert, out of the runs' reach
    MaxFaults           \* bound: crashes, stalls, 429s, lost or failed calls

ASSUME DeliveryAssumption ==
    /\ Recurring \subseteq Alerts
    /\ MaxAttempts \in Nat \ {0}
    /\ MaxDelay \in Nat \ {0}
    /\ LastOccurrence \in Nat
    /\ MaxGeneration \in Nat
    /\ MaxFaults \in Nat

\* 5_i64 << attempts doubles from one attempt to the next.
ASSUME BackoffAssumption ==
    /\ Backoff \in [0 .. 6 -> Nat \ {0}]
    /\ \A n \in 0 .. 5 : Backoff[n + 1] = 2 * Backoff[n]

VARIABLES
    row,        \* the alerts table
    phase,      \* where each worker stands in its loop
    job,        \* the alert a worker claimed, as RETURNING gave it
    stalled,    \* workers whose attempt outlasts the claim timeout
    inbox,      \* copies of each occurrence that Telegram accepted
    upgraded,   \* Telegram has made the group a supergroup
    reachable,  \* the chat still accepts messages of the bot
    faults      \* faults that may still happen

vars == <<row, phase, job, stalled, inbox, upgraded, reachable, faults>>

Occurrences == 0 .. LastOccurrence

\* The snapshot claim_due_alerts returns, with the columns deliver() uses.
Job == [alert : Alerts, generation : Nat, attempts : 0 .. AttemptsCeiling,
        occurrence : Nat, chat_id : ChatId]

ASSUME NoJobAssumption == NoJob \notin Job

\* sending: get_user and send_message are awaited.  accepted, limited,
\* rejected, refused, transient: the answer is in, its write is not.
\* migrating and requeueing: the two writes that follow MigrateToChatId.
OtherError == {"refused", "transient"}
Answered == {"accepted", "limited", "rejected"} \cup OtherError
Busy == {"sending", "migrating", "requeueing"} \cup Answered
Phase == {"down", "idle"} \cup Busy

Init ==
    /\ row = [a \in Alerts |-> NoRow]
    /\ phase = [w \in Workers |-> "idle"]
    /\ job = [w \in Workers |-> NoJob]
    /\ stalled = {}
    /\ inbox = [a \in Alerts |-> [k \in Occurrences |-> 0]]
    /\ upgraded = FALSE
    /\ reachable = TRUE
    /\ faults = MaxFaults

IsBusy(w) == phase[w] \in Busy

\* The row a busy worker is at work on is still claimed by it.
StillOwns(w) ==
    /\ IsBusy(w)
    /\ row[job[w].alert].state = "claimed"
    /\ row[job[w].alert].claim_generation = job[w].generation

Fault == faults > 0 /\ faults' = faults - 1

-----------------------------------------------------------------------------
(* Users and their chat.                                                   *)

\* A handler inserts the alert: the parsers only return future instants.  A
\* command sent before the upgrade may still be inserted after it.
CreateAlert(a) ==
    /\ row[a].state = "none"
    /\ \E delay \in 1 .. MaxDelay,
          chat \in {"group"} \cup (IF upgraded THEN {"supergroup"} ELSE {}) :
           row' = [row EXCEPT ![a] = Inserted(delay, chat)]
    /\ UNCHANGED <<phase, job, stalled, inbox, upgraded, reachable, faults>>

CancelAlert(a) ==
    /\ Cancellable(row[a])
    /\ row' = [row EXCEPT ![a] = Cancelled(@)]
    /\ UNCHANGED <<phase, job, stalled, inbox, upgraded, reachable, faults>>

UpgradeGroup ==
    /\ ~upgraded
    /\ upgraded' = TRUE
    /\ UNCHANGED <<row, phase, job, stalled, inbox, reachable, faults>>

\* The chat blocks the bot or removes it, or the account is deleted.
BlockBot ==
    /\ reachable
    /\ reachable' = FALSE
    /\ UNCHANGED <<row, phase, job, stalled, inbox, upgraded, faults>>

MigrateChat ==
    row' = [a \in Alerts |-> Migrated(row[a], "group", "supergroup")]

\* handle_unhandled: the service message about the upgrade.
HandleChatMigration ==
    /\ upgraded
    /\ MigrateChat
    /\ UNCHANGED <<phase, job, stalled, inbox, upgraded, reachable, faults>>

-----------------------------------------------------------------------------
(* process_due: claim the alert that is due for longest.                   *)

DueFirst(a) ==
    /\ IsDue(row[a]) /\ row[a].claim_generation < MaxGeneration
    /\ \A b \in Alerts : IsDue(row[b]) => row[a].fire_in <= row[b].fire_in

Snapshot(a, r) ==
    [alert |-> a, generation |-> r.claim_generation, attempts |-> r.attempts,
     occurrence |-> r.occurrence, chat_id |-> r.chat_id]

ClaimDueAlerts(w) ==
    /\ phase[w] = "idle"
    /\ \E a \in Alerts :
        /\ DueFirst(a)
        /\ row' = [row EXCEPT ![a] = Claimed(@)]
        /\ job' = [job EXCEPT ![w] = Snapshot(a, Claimed(row[a]))]
    /\ phase' = [phase EXCEPT ![w] = "sending"]
    /\ UNCHANGED <<stalled, inbox, upgraded, reachable, faults>>

\* The claim commits but its result does not reach the worker: process_due
\* returns the error, and the row stays claimed by nobody.
ClaimLost(w) ==
    /\ phase[w] = "idle"
    /\ \E a \in Alerts :
        DueFirst(a) /\ row' = [row EXCEPT ![a] = Claimed(@)]
    /\ Fault
    /\ UNCHANGED <<phase, job, stalled, inbox, upgraded, reachable>>

-----------------------------------------------------------------------------
(* deliver: the answers of send_message.                                   *)

Answer(w, p) ==
    /\ phase[w] = "sending"
    /\ phase' = [phase EXCEPT ![w] = p]
    /\ UNCHANGED <<row, job, stalled, upgraded, reachable>>

\* The chat id of the claimed snapshot is the one the message is sent to.
ToOldChat(w) == upgraded /\ job[w].chat_id = "group"

Ring(w) ==
    inbox' = [inbox EXCEPT ![job[w].alert][job[w].occurrence] = @ + 1]

SendAccepted(w) ==
    /\ Answer(w, "accepted")
    /\ reachable /\ ~ToOldChat(w)
    /\ Ring(w)
    /\ UNCHANGED faults

SendMigrated(w) ==
    /\ Answer(w, "migrating")
    /\ ToOldChat(w)
    /\ UNCHANGED <<inbox, faults>>

\* BotBlocked, ChatNotFound, UserDeactivated.
SendRejected(w) ==
    /\ Answer(w, "rejected")
    /\ ~reachable
    /\ UNCHANGED <<inbox, faults>>

\* Any other 4xx (BotKicked, for one) takes the branch of transient errors.
SendRefused(w) ==
    /\ Answer(w, "refused")
    /\ ~reachable
    /\ UNCHANGED <<inbox, faults>>

\* RetryAfter.
SendLimited(w) ==
    /\ Answer(w, "limited")
    /\ Fault
    /\ UNCHANGED inbox

\* Timeouts, network and server errors: Telegram may have accepted the
\* message all the same.
SendFailed(w) ==
    /\ Answer(w, "transient")
    /\ Fault
    /\ \/ UNCHANGED inbox
       \/ reachable /\ ~ToOldChat(w) /\ Ring(w)

-----------------------------------------------------------------------------
(* deliver: the writes.  Every one ends the attempt, applied or not: an    *)
(* error is logged, a rejected write is a warning at most.                 *)

WorkerFreed(w) ==
    /\ phase' = [phase EXCEPT ![w] = "idle"]
    /\ job' = [job EXCEPT ![w] = NoJob]
    /\ stalled' = stalled \ {w}
    /\ UNCHANGED <<inbox, upgraded, reachable>>

\* UPDATE ... WHERE id = $1 AND state = 'claimed' AND claim_generation = $2.
Write(w, r) ==
    /\ row' = [row EXCEPT ![job[w].alert] =
                 IF HoldsClaim(@, job[w].generation) THEN r ELSE @]
    /\ WorkerFreed(w)
    /\ UNCHANGED faults

ClaimedRow(w) == row[job[w].alert]

\* next_after(now): an instant strictly after now, until the rule is spent.
HasNext(w) ==
    job[w].alert \in Recurring /\ job[w].occurrence < LastOccurrence

AdvanceToNext(w) ==
    /\ HasNext(w)
    /\ \E delay \in 1 .. MaxDelay : Write(w, Advanced(ClaimedRow(w), delay))

\* finalise_after_send: mark_sent for a one-shot or a spent rule.
\* mutant: a timeout taken for a delivery
FinaliseAfterTimeout(w) ==
    /\ phase[w] \in {"accepted", "transient"}
    /\ \/ AdvanceToNext(w)
       \/ ~HasNext(w) /\ Write(w, MarkSent(ClaimedRow(w)))
FinaliseAfterSend(w) ==
    /\ phase[w] = "accepted"
    /\ \/ AdvanceToNext(w)
       \/ ~HasNext(w) /\ Write(w, MarkSent(ClaimedRow(w)))

\* new_fire = now + seconds + 1.
RescheduleLimited(w) ==
    /\ phase[w] = "limited"
    /\ \E delay \in 1 .. MaxDelay : Write(w, Rescheduled(ClaimedRow(w), delay))

FailPermanently(w) ==
    /\ phase[w] = "rejected"
    /\ Write(w, MarkFailed(ClaimedRow(w)))

\* mutant
OutOfAttemptsEarly(w) == job[w].attempts + 1 >= MaxAttempts
OutOfAttempts(w) == job[w].attempts >= MaxAttempts

\* mutant: the outage ends the series
GiveUpAlert(w) ==
    /\ phase[w] \in OtherError /\ OutOfAttempts(w)
    /\ Write(w, MarkFailed(ClaimedRow(w)))
GiveUpOccurrence(w) ==
    /\ phase[w] \in OtherError /\ OutOfAttempts(w)
    /\ \/ AdvanceToNext(w)
       \/ ~HasNext(w) /\ Write(w, MarkFailed(ClaimedRow(w)))

BackoffOf(n) == Backoff[IF n < 6 THEN n ELSE 6]

RetryLater(w) ==
    /\ phase[w] \in OtherError /\ ~OutOfAttempts(w)
    /\ Write(w, Rescheduled(ClaimedRow(w), BackoffOf(job[w].attempts)))

\* MigrateToChatId: every alert of the old chat moves, under no claim guard;
\* the reschedule follows whether or not the move succeeded.
MigrateThenRequeue(w) ==
    /\ phase[w] = "migrating"
    /\ phase' = [phase EXCEPT ![w] = "requeueing"]
    /\ \/ MigrateChat /\ UNCHANGED faults
       \/ Fault /\ UNCHANGED row
    /\ UNCHANGED <<job, stalled, inbox, upgraded, reachable>>

RequeueNow(w) ==
    /\ phase[w] = "requeueing"
    /\ Write(w, Rescheduled(ClaimedRow(w), 0))

\* The UPDATE fails; deliver logs it and returns.
WriteFailed(w) ==
    /\ phase[w] \in Answered \cup {"requeueing"}
    /\ WorkerFreed(w)
    /\ Fault
    /\ UNCHANGED row

-----------------------------------------------------------------------------
(* Time, the reaper, crashes.                                              *)

\* An attempt may outlast StaleClaimSecs (slow pool, paused process).
Stall(w) ==
    /\ StillOwns(w) /\ w \notin stalled
    /\ ClaimedRow(w).claim_age = StaleClaimSecs
    /\ stalled' = stalled \cup {w}
    /\ Fault
    /\ UNCHANGED <<row, phase, job, inbox, upgraded, reachable>>

\* Any other attempt ends within StaleClaimSecs: the HTTP client gives up
\* after 17 seconds.
Tick ==
    /\ \A w \in Workers :
        StillOwns(w) /\ w \notin stalled =>
            ClaimedRow(w).claim_age < StaleClaimSecs
    /\ row' = [a \in Alerts |-> Aged(row[a])]
    /\ UNCHANGED <<phase, job, stalled, inbox, upgraded, reachable, faults>>

\* reaper_loop of any running process.
ReleaseStaleClaims ==
    /\ \E w \in Workers : phase[w] # "down"
    /\ \E a \in Alerts : IsStale(row[a])
    /\ row' = [a \in Alerts |->
                 IF IsStale(row[a]) THEN Released(row[a]) ELSE row[a]]
    /\ UNCHANGED <<phase, job, stalled, inbox, upgraded, reachable, faults>>

Crash(w) ==
    /\ phase[w] # "down"
    /\ phase' = [phase EXCEPT ![w] = "down"]
    /\ job' = [job EXCEPT ![w] = NoJob]
    /\ stalled' = stalled \ {w}
    /\ Fault
    /\ UNCHANGED <<row, inbox, upgraded, reachable>>

Restart(w) ==
    /\ phase[w] = "down"
    /\ phase' = [phase EXCEPT ![w] = "idle"]
    /\ UNCHANGED <<row, job, stalled, inbox, upgraded, reachable, faults>>

-----------------------------------------------------------------------------
Users ==
    \/ \E a \in Alerts : CreateAlert(a) \/ CancelAlert(a)
    \/ UpgradeGroup \/ BlockBot \/ HandleChatMigration

Send(w) ==
    SendAccepted(w) \/ SendMigrated(w) \/ SendRejected(w) \/ SendRefused(w)

Settle(w) ==
    \/ FinaliseAfterSend(w) \/ RescheduleLimited(w) \/ FailPermanently(w)
    \/ GiveUpOccurrence(w) \/ RetryLater(w)
    \/ MigrateThenRequeue(w) \/ RequeueNow(w)

Misfortune(w) ==
    \/ ClaimLost(w) \/ SendLimited(w) \/ SendFailed(w) \/ WriteFailed(w)
    \/ Stall(w) \/ Crash(w)

Next ==
    \/ Users
    \/ \E w \in Workers :
        \/ ClaimDueAlerts(w) \/ Send(w) \/ Settle(w)
        \/ Misfortune(w) \/ Restart(w)
    \/ ReleaseStaleClaims
    \/ Tick

\* The worker loop wakes up for a due alert (module WorkerLoop), an attempt
\* ends, the reaper runs every REAPER_INTERVAL, systemd restarts a process
\* that failed, time passes.  Users and misfortunes owe nothing.
Fairness ==
    /\ \A w \in Workers :
        /\ WF_vars(ClaimDueAlerts(w))
        /\ WF_vars(Send(w) \/ Settle(w))
        /\ WF_vars(Restart(w))
    /\ WF_vars(ReleaseStaleClaims)
    /\ WF_vars(Tick)

Spec == Init /\ [][Next]_vars
FairSpec == Spec /\ Fairness
=============================================================================
