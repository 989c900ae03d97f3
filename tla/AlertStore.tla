----------------------------- MODULE AlertStore -----------------------------
(***************************************************************************)
(* The alerts table of crates/storage, one row at a time: what each SQL    *)
(* statement of PgStore does to a row it selects, and the WHERE clause     *)
(* that selects it.  The modules that own a table (Delivery) apply these   *)
(* operators; every statement is one transaction, hence one step.          *)
(*                                                                         *)
(* Timestamps are kept relative to the database clock: fire_in is          *)
(* fire_at - now (down to -MaxLate, where it stops), claim_age is          *)
(* now - claimed_at (up to StaleClaimSecs + 1, the first age at which the  *)
(* reaper takes the row), Unclaimed stands for claimed_at IS NULL.         *)
(*                                                                         *)
(* A definition marked "mutant" is a plausible bug in the definition that  *)
(* follows it; PROJECT.json names the property that refutes it.            *)
(***************************************************************************)
EXTENDS Integers

CONSTANTS
    StaleClaimSecs,     \* age beyond which the reaper releases a claim
    AttemptsCeiling,    \* maximum of the SMALLINT column attempts
    MaxLate             \* bound: how overdue a fire_at is told apart

ASSUME StoreAssumption ==
    /\ StaleClaimSecs \in Nat
    /\ AttemptsCeiling \in Nat \ {0}
    /\ MaxLate \in Nat

AlertState == {"none", "pending", "claimed", "sent", "failed", "cancelled"}
Terminal == {"sent", "failed", "cancelled"}

\* A group's chat id before and after Telegram made it a supergroup.
ChatId == {"group", "supergroup"}

Unclaimed == -1
ClaimAge == -1 .. (StaleClaimSecs + 1)

\* occurrence numbers the firings of a series: it is the position in the
\* schedule that fire_at stands for, and stays 0 for a one-shot.
Row == [state : AlertState, fire_in : Int, attempts : 0 .. AttemptsCeiling,
        claim_generation : Nat, claim_age : ClaimAge, chat_id : ChatId,
        occurrence : Nat]

\* "none": the id has not been handed out by the sequence yet.
NoRow == [state |-> "none", fire_in |-> 0, attempts |-> 0,
          claim_generation |-> 0, claim_age |-> Unclaimed,
          chat_id |-> "group", occurrence |-> 0]

-----------------------------------------------------------------------------
(* Statements that create a row or take it off the pending queue.          *)

\* create_alert: the column defaults are pending, 0 attempts, generation 0.
Inserted(delay, chat) ==
    [NoRow EXCEPT !.state = "pending", !.fire_in = delay, !.chat_id = chat]

\* cancel_alert checks the state it read and repeats the check in the UPDATE.
\* mutant
CancellableWhileClaimed(r) == r.state \in {"pending", "claimed"}
Cancellable(r) == r.state = "pending"
Cancelled(r) == [r EXCEPT !.state = "cancelled"]

\* claim_due_alerts: the subquery's WHERE clause and the SET list.
\* mutant
DueEvenIfClaimed(r) == r.state \in {"pending", "claimed"} /\ r.fire_in <= 0
IsDue(r) == r.state = "pending" /\ r.fire_in <= 0

\* LEAST(attempts::integer + 1, 32767).
\* mutant
NextAttemptUnbounded(n) == n + 1
NextAttempt(n) == IF n < AttemptsCeiling THEN n + 1 ELSE n

\* mutant
ClaimedKeepingGeneration(r) ==
    [r EXCEPT !.state = "claimed", !.attempts = NextAttempt(r.attempts),
              !.claim_age = 0]
\* mutant
ClaimedUnstamped(r) ==
    [r EXCEPT !.state = "claimed", !.attempts = NextAttempt(r.attempts),
              !.claim_generation = r.claim_generation + 1]
Claimed(r) ==
    [r EXCEPT !.state = "claimed", !.attempts = NextAttempt(r.attempts),
              !.claim_generation = r.claim_generation + 1, !.claim_age = 0]

-----------------------------------------------------------------------------
(* Statements of the worker that holds the claim of generation g.          *)

\* mutant
HoldsGeneration(r, g) == r.claim_generation = g
HoldsClaim(r, g) == r.state = "claimed" /\ r.claim_generation = g

\* mark_sent and mark_failed leave claimed_at in place.
MarkSent(r) == [r EXCEPT !.state = "sent"]
MarkFailed(r) == [r EXCEPT !.state = "failed"]

\* reschedule keeps attempts: the same occurrence is retried.
Rescheduled(r, delay) ==
    [r EXCEPT !.state = "pending", !.fire_in = delay,
              !.claim_age = Unclaimed]

\* advance_to_next_occurrence also starts a new count of attempts.
Advanced(r, delay) ==
    [r EXCEPT !.state = "pending", !.fire_in = delay,
              !.claim_age = Unclaimed, !.attempts = 0,
              !.occurrence = r.occurrence + 1]

-----------------------------------------------------------------------------
(* Statements on every row they select: the reaper and the chat migration. *)

\* mutant
StaleAtDeadline(r) == r.state = "claimed" /\ r.claim_age >= StaleClaimSecs
IsStale(r) == r.state = "claimed" /\ r.claim_age > StaleClaimSecs

Released(r) == [r EXCEPT !.state = "pending", !.claim_age = Unclaimed]

\* migrate_chat has no condition but the chat id: finished rows move too.
\* mutant
MigratedWhilePending(r, from, to) ==
    IF r.state = "pending" /\ r.chat_id = from
    THEN [r EXCEPT !.chat_id = to] ELSE r
Migrated(r, from, to) ==
    IF r.state # "none" /\ r.chat_id = from
    THEN [r EXCEPT !.chat_id = to] ELSE r

-----------------------------------------------------------------------------
(* One unit of time on a row that can still fire; nothing reads the        *)
(* timestamps of a finished row.                                           *)
Elapsed(t) == IF t > -MaxLate THEN t - 1 ELSE t
Older(age) == IF age \in 0 .. StaleClaimSecs THEN age + 1 ELSE age

Aged(r) ==
    IF r.state \in {"pending", "claimed"}
    THEN [r EXCEPT
            !.fire_in = Elapsed(r.fire_in),
            !.claim_age = Older(r.claim_age)]
    ELSE r
=============================================================================
