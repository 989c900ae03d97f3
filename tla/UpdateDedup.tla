----------------------------- MODULE UpdateDedup -----------------------------
(***************************************************************************)
(* Updates and the table processed_updates: the filter in front of the     *)
(* handlers (main.rs), try_register_update and purge_old_updates           *)
(* (storage), Telegram, which sends an update again until it is            *)
(* acknowledged, and a process that may end at any moment.                 *)
(*                                                                         *)
(* The webhook acknowledges an update when it is queued, before it is      *)
(* handled.  Copies of one update belong to one chat, whose updates are    *)
(* filtered and handled in turn.  Time is told in units of which KeepAge   *)
(* and PurgeAge are multiples.                                             *)
(***************************************************************************)
EXTENDS Integers

CONSTANTS
    Updates,    \* update ids
    KeepAge,    \* age up to which Telegram sends an update again: one day
    PurgeAge,   \* age up to which a registration is kept: 86 400 s
    MaxCopies,  \* bound: copies that wait at once
    MaxFaults   \* bound: lost answers, failed calls, crashes, stalls

ASSUME DedupAssumption ==
    /\ KeepAge \in Nat
    /\ PurgeAge \in Nat
    /\ KeepAge <= PurgeAge
    /\ MaxCopies \in Nat
    /\ MaxFaults \in Nat

VARIABLES
    update,     \* what Telegram knows of each update
    copies,     \* received copies that wait for the filter
    working,    \* updates whose handler runs
    registered, \* processed_updates: the age of the row, or Unknown
    handled,    \* how often the handler of an update had its effect
    excuses,    \* failed registrations and stalls of an update
    hit,        \* updates a crash or an error of their handler has hit
    up,         \* the process runs
    faults      \* faults that may still happen

vars == <<update, copies, working, registered, handled, excuses, hit, up, faults>>

Unknown == -1
Age == 0 .. PurgeAge + 1

\* age of an update that was sent; further sends stop when it is acknowledged.
Telegram == [sent : BOOLEAN, acked : BOOLEAN, age : Age]

Init ==
    /\ update = [u \in Updates |-> [sent |-> FALSE, acked |-> FALSE, age |-> 0]]
    /\ copies = [u \in Updates |-> 0]
    /\ working = {}
    /\ registered = [u \in Updates |-> Unknown]
    /\ handled = [u \in Updates |-> 0]
    /\ excuses = [u \in Updates |-> 0]
    /\ hit = {}
    /\ up = TRUE
    /\ faults = MaxFaults

Fault == faults > 0 /\ faults' = faults - 1

-----------------------------------------------------------------------------
(* Telegram.                                                               *)

SendUpdate(u) ==
    /\ ~update[u].sent
    /\ update' = [update EXCEPT ![u].sent = TRUE]
    /\ UNCHANGED <<copies, working, registered, handled, excuses, hit, up, faults>>

\* One POST of the webhook.  The answer may be lost.
Receive(u) ==
    /\ up
    /\ update[u].sent /\ ~update[u].acked /\ update[u].age <= KeepAge
    /\ copies[u] < MaxCopies
    /\ copies' = [copies EXCEPT ![u] = @ + 1]
    /\ \/ update' = [update EXCEPT ![u].acked = TRUE] /\ UNCHANGED faults
       \/ Fault /\ UNCHANGED update
    /\ UNCHANGED <<working, registered, handled, excuses, hit, up>>

-----------------------------------------------------------------------------
(* The filter: INSERT ... ON CONFLICT DO NOTHING, then the handler if the  *)
(* row is new or the statement failed.                                     *)

CanFilter(u) == up /\ copies[u] > 0 /\ u \notin working

\* mutant
LookUpOnly(u) ==
    /\ CanFilter(u) /\ registered[u] = Unknown
    /\ copies' = [copies EXCEPT ![u] = @ - 1]
    /\ working' = working \cup {u}
    /\ UNCHANGED <<update, registered, handled, excuses, hit, up, faults>>
RegisterNew(u) ==
    /\ CanFilter(u) /\ registered[u] = Unknown
    /\ copies' = [copies EXCEPT ![u] = @ - 1]
    /\ registered' = [registered EXCEPT ![u] = 0]
    /\ working' = working \cup {u}
    /\ UNCHANGED <<update, handled, excuses, hit, up, faults>>

DropDuplicate(u) ==
    /\ CanFilter(u) /\ registered[u] # Unknown
    /\ copies' = [copies EXCEPT ![u] = @ - 1]
    /\ UNCHANGED <<update, working, registered, handled, excuses, hit, up, faults>>

\* The statement fails, before or after its commit: the filter returns true.
\* mutant
RegisterFailsClosed(u) ==
    /\ CanFilter(u) /\ Fault
    /\ copies' = [copies EXCEPT ![u] = @ - 1]
    /\ excuses' = [excuses EXCEPT ![u] = @ + 1]
    /\ UNCHANGED <<update, working, registered, handled, hit, up>>
RegisterFails(u) ==
    /\ CanFilter(u) /\ Fault
    /\ copies' = [copies EXCEPT ![u] = @ - 1]
    /\ \/ UNCHANGED registered
       \/ registered[u] = Unknown /\ registered' = [registered EXCEPT ![u] = 0]
    /\ working' = working \cup {u}
    /\ excuses' = [excuses EXCEPT ![u] = @ + 1]
    /\ UNCHANGED <<update, handled, hit, up>>

\* The write of the handler; an error after it costs only the reply.
HandlerEnds(u) ==
    /\ up /\ u \in working
    /\ working' = working \ {u}
    /\ handled' = [handled EXCEPT ![u] = @ + 1]
    /\ UNCHANGED <<update, copies, registered, excuses, hit, up, faults>>

\* The handler returns an error before its write.
HandlerFails(u) ==
    /\ up /\ u \in working /\ Fault
    /\ working' = working \ {u}
    /\ hit' = hit \cup {u}
    /\ UNCHANGED <<update, copies, registered, handled, excuses, up>>

-----------------------------------------------------------------------------
(* Process, reaper and clock.                                              *)

Held == {u \in Updates : copies[u] > 0 \/ u \in working}

Crash ==
    /\ up /\ Fault
    /\ up' = FALSE
    /\ hit' = hit \cup Held
    /\ copies' = [u \in Updates |-> 0]
    /\ working' = {}
    /\ UNCHANGED <<update, registered, handled, excuses>>

Restart ==
    /\ ~up
    /\ up' = TRUE
    /\ UNCHANGED <<update, copies, working, registered, handled, excuses, hit, faults>>

\* purge_old_updates: received_at < now() - PurgeAge.
\* mutant
ExpiredAtTheDay(u) == registered[u] >= PurgeAge
Expired(u) == registered[u] > PurgeAge

PurgeOldUpdates ==
    /\ up
    /\ \E u \in Updates : Expired(u)
    /\ registered' = [u \in Updates |-> IF Expired(u) THEN Unknown ELSE registered[u]]
    /\ UNCHANGED <<update, copies, working, handled, excuses, hit, up, faults>>

Older(age) == IF age <= PurgeAge THEN age + 1 ELSE age

\* A copy waits and is handled within one unit; each longer stall is a fault.
Tick ==
    /\ IF Held = {} THEN UNCHANGED faults ELSE Fault
    /\ excuses' = [u \in Updates |-> IF u \in Held THEN excuses[u] + 1 ELSE excuses[u]]
    /\ update' = [u \in Updates |->
         [update[u] EXCEPT !.age = IF update[u].sent THEN Older(update[u].age)
                                   ELSE update[u].age]]
    /\ registered' = [u \in Updates |->
         IF registered[u] = Unknown THEN Unknown ELSE Older(registered[u])]
    /\ UNCHANGED <<copies, working, handled, hit, up>>

-----------------------------------------------------------------------------
Filter(u) == RegisterNew(u) \/ DropDuplicate(u) \/ RegisterFails(u)
Handle(u) == HandlerEnds(u) \/ HandlerFails(u)

Next ==
    \/ \E u \in Updates : SendUpdate(u) \/ Receive(u) \/ Filter(u) \/ Handle(u)
    \/ Crash \/ Restart \/ PurgeOldUpdates \/ Tick

Spec == Init /\ [][Next]_vars

\* The dispatcher takes what waits, every handler ends, systemd restarts what
\* failed, and Telegram sends what was not acknowledged.
Fairness ==
    /\ \A u \in Updates : WF_vars(Filter(u)) /\ WF_vars(Handle(u)) /\ WF_vars(Receive(u))
    /\ WF_vars(Restart)

FairSpec == Spec /\ Fairness
=============================================================================
