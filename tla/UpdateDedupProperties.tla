------------------------ MODULE UpdateDedupProperties ------------------------
(***************************************************************************)
(* How often an update may be handled, and what may swallow it.            *)
(***************************************************************************)
EXTENDS UpdateDedup

\* Type correctness; nothing is in memory of a process that is down, and a
\* handler at work without an excuse was registered before it began, in this
\* very unit of time (try_register_update, purge_old_updates).
TypeOK ==
    /\ update \in [Updates -> Telegram]
    /\ copies \in [Updates -> 0 .. MaxCopies]
    /\ working \subseteq Updates
    /\ registered \in [Updates -> Age \cup {Unknown}]
    /\ handled \in [Updates -> Nat]
    /\ excuses \in [Updates -> Nat]
    /\ hit \subseteq Updates
    /\ up \in BOOLEAN
    /\ faults \in 0 .. MaxFaults
    /\ ~up => Held = {}
    /\ \A u \in working : excuses[u] = 0 => registered[u] = 0

\* Whatever Telegram sends again and whenever the process dies, an update is
\* handled once, and once more only for each failed registration and each day
\* that one of its copies waited: the row outlives Telegram's retries
\* (try_register_update, purge_old_updates).
HandledOncePerExcuse ==
    \A u \in Updates : handled[u] <= 1 + excuses[u]

\* Failed registrations, redeliveries and the purge swallow nothing: an update
\* that reached the bot is handled unless a crash or an error of its own
\* handler hit it (the filter of main.rs: "better to risk a duplicate than to
\* silently swallow the update").
OnlyHitUpdatesAreSwallowed ==
    \A u \in Updates : copies[u] > 0 ~> handled[u] > 0 \/ u \in hit
=============================================================================
