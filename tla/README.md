# A verification project for alert-bot

alert-bot is a Telegram reminder bot: users write commands that create one-shot
and recurring alerts, and a worker delivers them from a Postgres table. These
TLA+ modules model its code; TLC checks them on small instances and TLAPS proves
what matters most for every instance. Paths below are relative to the
repository.

## 1. Inventory

| component | state | operations | source |
|---|---|---|---|
| alerts table | one row per alert: state, `fire_at`, `attempts`, `claim_generation`, `claimed_at`, `chat_id` | create, cancel, claim, mark sent or failed, reschedule, advance, release stale claims, migrate chat | `crates/storage/src/lib.rs`, `migrations/` |
| delivery worker | the alert it claimed, where it is in `deliver` | claim one due alert, send, write the outcome | `crates/bot/src/worker.rs` |
| reaper | none | every 30 s: release claims older than 60 s, purge old update ids | `worker.rs` `reaper_loop` |
| wake-up loop | the Postgres listener, the next wake-up, the shutdown token | recompute the wake-up, wait for NOTIFY, timer or shutdown | `worker.rs` `run` |
| supervision | dispatcher future, worker handle, token, signals | start, stop on a signal, fail when a task dies | `crates/bot/src/main.rs` |
| update deduplication | `processed_updates` | register an id before its handler, forget it after a day | `main.rs`, storage |
| handlers | none of their own; rows, quotas, Telegram's answers on rights | create, cancel, snooze, stop series, chat migration; lists and settings | `crates/bot/src/handlers.rs` |
| rate limiter | a token bucket per user | check a command | `crates/bot/src/limits.rs` |
| schedules | none | build a rule, next occurrence | `crates/core/src/recurrence.rs` |
| parser | none | command to schedule, text and notes, or an error | `crates/parser` |
| backup script | remote files | dump, upload, rename, prune | `scripts/backup-postgres.sh` |
| texts, rendering, menus, admin notes, stats, configuration | none | formatting, one read-only query, start-up | `messages.rs`, `render.rs`, `commands.rs`, `admin.rs`, `stats.rs`, `main.rs` |

How they interact. Handlers and worker never call each other: they meet in the
alerts table. An INSERT, or an UPDATE of `fire_at` or `state`, makes a trigger
send NOTIFY, which wakes the worker. The worker claims a row with
`FOR UPDATE SKIP LOCKED`, sends it with the Bot API and writes back under the
generation of its claim. The reaper, in every process, takes claims back that
are too old. The dispatcher passes an update to a handler once its id is
registered; it handles the updates of one chat in turn and those of different
chats side by side. A handler has the parser turn a command into a schedule; the
worker asks the schedule for the next occurrence after each delivery. A signal
cancels the shutdown token, which worker, reaper and dispatcher watch; systemd
restarts a process that fails.

Hard behaviours. Everything happens between awaits: the claim, the call of
Telegram and the write are separate moments, and time, the reaper, another
worker, a cancellation or a crash fit in between. Telegram may accept a message
and lose the answer. Notifications can be lost while the listener reconnects.
Handlers check quotas and rights before they write. Two tasks end in any order
while a signal is on its way. Clocks go forward and back, months end early. The
hazards are listed line by line in `PROJECT.json`.

What makes the components correct:

- table and worker: no two workers settle the same claim; a finished alert stays
  finished; every occurrence is delivered at least once unless it is cancelled,
  unreachable or out of attempts; each duplicate is the price of a fault; an
  outage delays a series and does not end it;
- wake-up loop: an alert that is due is claimed, whatever notifications are
  lost; a requested shutdown ends the loop between deliveries; it comes to rest;
- supervision: the exit status tells a requested end from a failure; a signal
  ends the process;
- deduplication: an update is handled once per excuse, and swallowed only by a
  crash or its own error;
- handlers: quotas, rights and chats hold across awaits; a delivery is not
  interrupted; an upgraded group leaves nothing behind;
- schedules and parser: a command means the first instant it describes; a series
  rings on its days at its time and leaves nothing out; clamps are told.

## 2. Modules

| module | models |
|---|---|
| `AlertStore` | what each SQL statement of the alerts table does to a row, and its WHERE clause |
| `Delivery` | workers, reaper, users, Telegram, faults over a table of such rows |
| `DeliveryProperties` | the properties of `Delivery`, and the mapping to `AlertLifecycle` |
| `AlertLifecycle` | the abstract promise: armed, rung, moved on, closed |
| `DeliveryProofs`, `DeliveryOutcomeProofs` | TLAPS proofs: types and fencing; outcomes and the refinement |
| `WorkerLoop`, `WorkerLoopProperties`, `WorkerLoopProofs` | what wakes `run()`: the NOTIFY trigger, the listener, the timer, the shutdown token |
| `ChatHandlers`, `ChatHandlersProperties`, `ChatHandlersProofs` | the handlers that create and end alerts, await by await, one per chat |
| `Supervision`, `SupervisionProperties`, `SupervisionProofs` | `supervise`, the signal task, exit status and restart |
| `UpdateDedup`, `UpdateDedupProperties`, `UpdateDedupProofs` | the filter in front of the handlers, redelivery, purge |
| `Calendar` | dates (chrono) |
| `LocalTime` | instants, wall clocks, zones: `local_to_utc` |
| `Schedules` | `Schedule`: builders of rules, `next_after`, and what the rrule crate makes of a rule |
| `TimeTokens` | tokens and the scanners over them |
| `RelativeTime` | `RelSpec::apply` |
| `OneShot`, `Recurring` | `parse_one_shot`, `parse_recurring`: strategies, anchors, answers |
| `Phrases` | commands of `RULES.md` as tokens, each with what the rules say it means |
| `Commands`, `CommandsProperties` | a command from its text to the last time it rings |
| `CommandsProofs`, `SeriesProofs` | TLAPS proofs: the calendar, types, spans and named times; the days of a series |
| `MC...` | constants for TLC |

`Delivery`, `WorkerLoop`, `ChatHandlers` and `Supervision` are views of one
program. `Delivery` details an attempt and assumes, as the fairness of
`ClaimDueAlerts`, that a worker gets round to what is due; `WorkerLoop` reduces
an attempt to its outcome and shows that, down to lost notifications.
`ChatHandlers` details who may change a row and keeps of a delivery that a row
is claimed and settled again. `Supervision` keeps of worker and dispatcher when
they end. `Commands` takes up what `Delivery` leaves open: which instant
`next_after` gives.

The time modules are pure and are composed in one direction: `Calendar`,
`LocalTime`, `TimeTokens`, `RelativeTime`, then `OneShot` and `Recurring` with
`Schedules`, then `Commands`. They are written without recursion. The reference
they are checked against is in `CommandsProperties`: days and clocks, no search.

Definitions marked "mutant" are plausible bugs in the definition they precede;
`PROJECT.json` says which property refutes each. They are used by no
specification.

### State and actions of `Delivery`

`row` is the alerts table. Timestamps are relative to the clock (`fire_in`,
`claim_age`), so that a state does not depend on how long the system has run;
`occurrence` numbers the firings of a series. `phase` and `job` are where each
worker stands in `deliver` and the row that `RETURNING` gave it. `inbox` counts
the copies of each occurrence Telegram accepted. `upgraded` and `reachable` are
the chat's side: it became a supergroup, it refuses the bot. `faults` is what
is left of the fault budget.

| action | code |
|---|---|
| `ClaimDueAlerts`, `ClaimLost` | `process_due`, `claim_due_alerts`; the claim commits and its result is lost |
| `SendAccepted`, `SendLimited`, `SendMigrated`, `SendRejected`, `SendRefused`, `SendFailed` | the answers `deliver` tells apart; `SendRefused` is a 4xx the code treats as transient, `SendFailed` a timeout that may hide an accepted message |
| `FinaliseAfterSend`, `GiveUpOccurrence`, `RetryLater`, `RescheduleLimited`, `FailPermanently`, `MigrateThenRequeue`, `RequeueNow` | the writes of `deliver`, each under the claim guard except the migration |
| `WriteFailed` | a write errors: it is logged, the row stays claimed |
| `ReleaseStaleClaims`, `Tick`, `Stall`, `Crash`, `Restart` | reaper, clock, slow attempt, process death, systemd |
| `CreateAlert`, `CancelAlert`, `HandleChatMigration` | what handlers do to a row |
| `UpgradeGroup`, `BlockBot` | what Telegram and the chat do |

Abstractions. A statement is one step, so row locks and SKIP LOCKED do not
appear: a skipped row is one that another statement takes or releases first.
`next_after` is any instant from 1 to `MaxDelay` later, until `LastOccurrence`.
The instant of a retry is computed in the step that writes it. A message whose
answer is lost is accepted before the client gives up on it. The delay prefix,
the language and the keyboard are left out. All alerts live in one chat.

### State and actions of `WorkerLoop`

`table` has a row's state and the time to its `fire_at`. `phase` is where
`run()` stands: connecting, computing the next wake-up, waiting, processing,
delivering `job`, stopped or failed. `wake_in` is what is left of the sleep,
`queue` counts the notifications sent and not yet returned by `recv()`.
`missed` and `guessed` record why the timer may be wrong: a notification was
lost since the table was last read, or it could not be read at all.

| action | code |
|---|---|
| `Start`, `ComputeNextWake`, `ComputeFails` | `connect_with` and `listen`; `compute_next_wake` with its three outcomes |
| `ReceiveNotification`, `TimerFires`, `Stop` | the two biased selects |
| `Reconnect`, `ConnectionLost` | what `PgListener::recv` does inside, and what the connection takes with it (external) |
| `ClaimNothing`, `ClaimDueAlert`, `ClaimLost`, `ClaimFails` | `process_due` |
| `CloseAlert`, `RepeatAlert`, `WriteFails` | the outcome of `deliver` |
| `ReleaseStaleClaims`, `CreateAlert`, `CancelAlert` | the other writers of the table |
| `RequestShutdown`, `Fail`, `Restart`, `Tick` | signal, error or crash, systemd, clock |

Every write goes through `Write`, which fires the trigger: one notification for a
statement that touches a row, none for one that touches no row. A statement
that only moves `chat_id` does not fire it and is left out.
Abstractions: one process; the age of a claim is left to `Delivery`, so the
reaper may take any claim nobody is at work on; an error of `recv()`, a
failed start and a crash are one action, `Fail`.

### State and actions of `ChatHandlers`

`inbox` holds the updates of each chat, `handler` the update a chat's handler
works on and the awaits it still has to do (`todo`). Callback data is untrusted,
as the code's comment says: `Tap` sends any button for any id, of a row or not,
from any chat the user writes in, whether a keyboard offers it or not. `members`, `botAdmin` and `upgraded` are Telegram's side. `entitled` in a
handler is a history variable: the right its update needs has held since it was
taken.

| action | code |
|---|---|
| `TakeUpdate`, `GiveUp`, `Reply` | dispatch to a handler; every early return and failed await; confirmations, refusals and cleared keyboards, which change no state |
| `CountUser`, `CountChat`, `Insert` | `create_alert` and `handle_snooze_callback` |
| `CheckBot`, `CheckMember` | `bot_group_authority`, `shared_membership` |
| `Load`, `ReadForCancel`, `Cancel` | `callback_alert_in_origin_chat`, the lookup of /cancel, `cancel_alert` with its SELECT and UPDATE apart |
| `MigrateChat` | `handle_unhandled`, `migrate_chat` |
| `SendCommand`, `UpgradeGroup`, `ChangeRights` | users, members, Telegram |
| `Tap` | a callback query with any data (`callback_dispatch`) |
| `ClaimAlert`, `SettleAlert` | the worker, as far as handlers see it |

The lists of awaits (`CreateAwaits`, `ButtonAwaits`, ...) are in the code's
order. Parser, text limits, rate limiter, data that is no button and a query
without a message are outcomes of `GiveUp`: they refuse before anything is
written.

### State and actions of `Supervision` and `UpdateDedup`

`Supervision`: `signal`, `token`, `dispatcher`, `worker` are the tasks and the
token, `supervisor` is where `supervise()` and `main()` stand, `result` what it
returned, `cut` whether handlers were in flight when the process ended.
`SeeDispatchEnd` and `SeeWorkerEnd` are the branches of the select, `JoinWorker`
and `JoinDispatch` the awaits behind them, `TellDispatcher` and `CancelToken`
the signal task, `Restart` systemd. `TellDispatcher` has no effect on a
dispatcher that is not running yet.

`UpdateDedup`: `update` is what Telegram knows (sent, acknowledged, age), `copies`
what waits for the filter, `registered` the table with the age of each row.
`Receive` is a POST of the webhook, whose answer may be lost; `RegisterNew`,
`DropDuplicate` and `RegisterFails` are the filter, `PurgeOldUpdates` the
reaper. `excuses` and `hit` are history: what may have made a second handling
legitimate, and what may have swallowed an update.

### State and actions of `Commands`

`now` and `zone` are the `ParseContext`; `phrase` is the command, `reply` what
the parser made of it, `series` the schedule of the alert, `fire` its `fire_at`.
`Create` parses and stores, `Deliver` ends a delivery, on time or late, and asks
for the next occurrence. A token is what the matchers see in a word: number and
unit pieces, keyword, weekdays, clock, date, and whether
the date ends in a dot: the matchers of a series tell `24.12` from `24.12.`, those
of one alert do not. Numbers are in tokens because the
code's bounds (`u32`, `u16`, 50 years, 30 minutes) are about them; letters and
the fuzzy distance are not. A zone has two offsets and the European rule; zones
with other dates of change are left out. How the rrule crate treats a wall clock
in a gap is not the code's choice: `GapPolicy` has both answers.

## 3. Runs

| run | instance | question |
|---|---|---|
| `delivery_safety` | a one-shot and a series, 2 workers, 1 fault | fencing, ownership, what closes a row, duplicates, what a step may never do |
| `delivery_recovery` | a series, 2 workers, 1 fault, fair | everything is settled in the end; the lifecycle with its fairness |
| `delivery_client_errors` | a series, 1 worker | the header of `worker.rs` on 4xx answers (violated) |
| `loop` | two alerts, a repeat, 2 faults, fair | the timer covers what is pending; shutdown between deliveries; due alerts are claimed; the loop rests |
| `handlers_quota` | a user, a private chat and a group, 3 updates | how far the user quota can be exceeded |
| `handlers_group` | two users, a private chat and a group that is upgraded, changing rights, 2 updates | who may change what, and where |
| `supervision` | 2 handlers, 2 failures, fair | exit status, joins, stop on a signal |
| `supervision_early_signal` | no failure, fair | a signal before the dispatcher runs (violated) |
| `dedup` | an update, 2 copies, 4 faults, fair | how often an update is handled, what swallows it |
| `commands` | 13 moments, 4 zones, some 300 commands, deliveries on time and 40 days late | what a command means and when it rings |
| `commands_rules` | 13 moments, 4 zones, `1 uhr`, `sa 23:30`, `29.2` | what the rules promise of a named time that is ahead (violated) |
| `commands_glued` | 13 moments, 2 zones, `5min` | a comment of the parser (violated) |

Bounds. Two workers are enough for a claim to change hands, two alerts for a
migration and a choice of the next claim; a series with two occurrences has a
next one and a last one. `MAX_ATTEMPTS` is 2 or 3 so that an alert can run out
of attempts within the faults allowed, the SMALLINT ceiling is just above it so
that it is reached. The claim timeout is one tick, so that a claim is fresh, at
the deadline, and stale. `MaxLate` tells an alert that became due earlier from
one that is due now, which is what ORDER BY needs. `MaxGeneration` keeps a broken
variant of the model finite; no run reaches it. In the loop, the retry wait
is shorter than the idle wait and that is shorter than the longest delay, as 30
seconds, an hour and an alert in some weeks are in the code; two
alerts make a backlog, one repeat puts an alert back while the other waits,
and two faults lose a connection and then a claim, a query or the process.

One fault is enough for each way in which a claim changes hands; that more of them
add up, the duplicates above all, is proved for every budget (section 4).

Of handlers, two run at once: one user is enough to race past a quota, since a
private chat and a group have a handler each. The group's instance has
two users whose rights change, one of them with a private chat from which the
group's buttons can be sent as well. The quotas are 1 to 3 so that the second
or third insert meets them. Two updates and the upgrade message make an update
that is queued before the upgrade and handled after it. Two failures over all
lives let both tasks fail in one life, or one fail again after a restart. Four
faults lose an answer, fail a registration, stall a copy and kill the process.
A day is one unit in `UpdateDedup`, which tells a registration of that age from
an older one.

The moments of `commands` are the evening before, the hour before and the hour
after clocks go forward and back, month ends of 28, 29, 30 and 31 days, the turn
of the year and an ordinary day with odd seconds. The zones are Berlin, UTC, one
whose clocks change at 23:00, so that the hour after a gap is on another day,
and one whose clocks change by two hours. Forty days make a late delivery step
over occurrences of days, weeks and a month. Each unit, each kind of expression,
and each bound with a value on either side is among the commands.
`Ahead` lets a rule look for its next slot from the period before now to the third
after it: enough for a month without the day followed by a clock that does not exist,
not for a rule whose slots meet such a clock again and again (every 52 weeks).

`CHECK_DEADLOCK FALSE` is set where the system really stops: a process that was
asked to exits (`supervision`), users have sent their updates (`handlers_*`),
an alert has rung `MaxFires` times (`commands*`).

Fairness. Each worker claims when something is due (the wake-up loop's duty),
ends its attempt (the HTTP client's 17 s timeout and the statement timeout),
and is restarted after a crash (`Restart=on-failure`); the reaper runs (every 30 s) and
time passes. Users, Telegram's faults and crashes owe nothing.
`Tick` lets an attempt outlive the claim timeout only through `Stall`, which
costs a fault.

In the loop, `run()` takes its next step (nothing but the wait blocks it, and the
wait has a timer), a notification arrives in the end, the reaper runs, systemd
restarts a process that was not asked to stop, and time passes. Arrival is
strong fairness because the timer may end a wait in which it was about to
be received.

In `Supervision` every await of the tasks ends (they all have timeouts), and a
worker that is between deliveries again and again sees the token in the end:
strong fairness, because its biased select looks at the token first. In
`UpdateDedup` the dispatcher takes what waits, handlers end, Telegram repeats what
was not acknowledged. Nothing live is claimed of handlers and commands.

The violated runs are disagreements between a comment or document and the code: see
`findings` in `PROJECT.json`. One of them concerns a property that holds.
`RULES.md:244-245` says that weekdays and dates without a year look for their next
occurrence, `RULES.md:266` and `parser/src/lib.rs:139` that a time which is left out
in spring moves forward. `NamedTimesAreFound` states both, and `commands_rules` finds
it violated; each of its three commands alone violates it. Where the code departs:

- a gap of two hours (Troll, `1 uhr`): the time an hour on is in the gap too
  (`parser/src/lib.rs:151-159`), and the command is refused with `InvalidTime`;
- a gap that reaches midnight (Nuuk, 23:30): `with_hour` has no hour 24, with the
  same refusal of a clock, of a named day and of a date with a year;
- a weekday or a date without a year at such a time takes the error for a day that
  has passed (`grammar.rs:661`, `508`): it is accepted, without a note, for a week or
  a year later;
- `29.2` when neither this year nor the next has the day (`grammar.rs:508-512`) is
  refused with `NoTimeExpression`.

`NamedTimeIsTheNext`, of the run `commands`, says exactly what a named time means
everywhere else; the departures are its named hypotheses, `EachDayTells` (the first
three) and `DateIsNear` (the last).

Other disagreements met while modelling, by reading and without a run:

- Extra days of a span with years or months keep the wall clock
  (`grammar.rs:337-346`); the comment at 266-267 says they are raw seconds.
- A series at 23:30 on Saturdays in Nuuk, where the clock jumps over that hour,
  starts at the fallback, a week from now (`grammar.rs:1036`); the comment at
  961 says that such dates advance.
- Two handlers of one user can pass the user quota (`handlers.rs:134`), which
  `limits.rs:20-22` calls a maximum; `UserQuotaOvershoot` says by how much.
- Two queued taps on a snooze button create two alerts (`handlers.rs:743`);
  the comment at 745-747 hopes otherwise.
- A series cannot be stopped while its alert is claimed
  (`storage/src/lib.rs:215`); `README.md:48-49` knows no such moment.
- A dispatcher that ends cuts no handler off, but a worker that fails does
  (`main.rs:178`); the comment at 160-161 lets both finish.
- After a reconnection of the listener the worker may sleep past an alert that
  is due (`worker.rs:66`), until the timer set before; `README.md:475-476`
  says it sleeps until the earliest alert. `TimerCoversPending` states the
  exception (`missed`), `DueAlertsAreClaimed` that it is claimed all the same.

## 4. Proofs

All theorems hold for all values of the constants that satisfy the named
assumptions (`StoreAssumption`, `DeliveryAssumption`, `LoopAssumption`,
`SupervisionAssumption`, `DedupAssumption`, `HandlersAssumption`,
`IdleAssumption`, `CommandsAssumption`): any alerts, workers, users, chats, timeouts, quotas, limits and
fault budgets. Each is the invariance of an inductive strengthening; each
action has a step of its own.

`DeliveryProofs`: `TypeCorrect` and `Fencing`. `ClaimFencing` is inductive with
`TypeOK`. Call a step quiet if no worker receives a job and no row becomes
claimed, and rows that stay claimed keep generation, attempts and occurrence.
Quiet steps preserve `ClaimFencing`; every step but a claim is quiet; and a
claim hands out a generation above all those in workers' hands, because none is
ahead of its row.

`DeliveryOutcomeProofs` builds on it. `TimelyAttempts`: an attempt that did not
stall owns its row; what is inductive is that its claim is also not older than
the timeout (`YoungClaims`), so that the reaper leaves it alone. `Finished`,
`NothingDropped`, `Silent`: what a step may not do, from the claim guard, with
`Unused` (a row that was not created is blank). `Delivered`, `Justified`: a row
that is sent was accepted, a row that failed had its reason; the inductive
`Evidence` says what a worker has seen in each phase: a copy in the inbox
once Telegram accepted, an unreachable chat once it refused. `DuplicatesPaidFor`: the
inductive `AllPaid` counts, for each occurrence of an alert, the copies that arrived
or are under way, and one more while the occurrence is still `Open`, against one
plus the faults spent; only an occurrence that is closed pays nothing.

Its last part is `Implements == Spec => Lifecycle!Spec`, the safety part of the
refinement. A step changes one row and leaves the inbox alone (`OneRow`), or no
alert looks different afterwards and at most one copy is added (`NothingSeen`);
`AlertStep` is what a changed row may look like, and each of its cases is a step
of the lifecycle. A late copy is allowed for because a job never runs ahead of its
row (`Behind`).

`WorkerLoopProofs`: `TypeCorrect`, `TimerCovers`, `CleanStop`. A statement that
touches a row leaves a notification in the queue or counts as missed
(`StatementIsHeard`), reading the table makes the timer the minimum, and the
clock takes the same from both sides. `CleanStop` needs `ClaimsAreAtWork`: as long
as nothing has failed, the only claimed row is the job at hand.

`SupervisionProofs`: `TypeCorrect`, `CleanExit`, `DeadWorkerIsNoticed`,
`JoinsTold`. The clean exit rests on `Stages` (what has ended, and what was
told to, when the supervisor waits for the other task) and `Drained` (a
dispatcher that ended has no handler left, and only an exit cuts one off).

`UpdateDedupProofs`: `TypeCorrect`, `HandledOnce`. A row is at most as old as its
update (`RowFollowsUpdate`), so that it outlives Telegram's retries. `Excused`
counts what was handled and what is at work: one more than the excuses, and no
more than the excuses while a copy may register anew (`Open`), or waits beside a
row that has outlived the retries.

`ChatHandlersProofs`: type correctness, both quotas and the four properties of who
may change what. The list of awaits a handler still has to do says what it has
done: an await that comes before the insert or the update (`Ordered`) and is no
longer in the list has passed, and `Shown` is what it showed and what still holds of
it while other chats, members and the worker move on: the right was there, the alert
was in this chat or went with its group, the chat has room. `Passable` and `RowStep`
are what one step of a handler and of a row can be. The chat quota follows because
nobody else inserts into the chat. For the user quota the handlers that have
counted and not yet inserted (`Waiting`) are added to the active alerts
(`UserSlack`): a count that passes finds the user below the quota, and at most all
chats wait. The old group stays empty because its service message is the last update
it gets (`LastUpdate`).

`CommandsProofs` begins with the calendar: every day has one date and every date
one day (`DateOfDay`, `DayOfDate`, from the length of years, eras and months), and
a wall clock is a day and a time (`ClockParts`, `PartsOfAt`). `Resolved` says what
`local_to_utc` finds. On these rest

- `CommandTypes`, with the inductive `TypeInv`: whatever the tokens are, an alert has a
  rule that the library can count by (`IsRule`), begins at an instant to come, and
  after each delivery goes on at a later one (`NextAfterType`); `AlwaysAhead` says
  so of every alert;
- `SpansKept` and `RefusalsHaveCause`: what `RelSpec::apply` and
  `try_recurring_relative` do with a span, of one unit or of all of them;
- `NamedTimes`: a named time is its first occurrence ahead. `Chronology` orders
  instants by their days: a later day is later, wherever clocks change, if the hour
  that comes twice is all on one day (`BackWithinDay`). `Chosen` is what is true of
  the day that a strategy takes among all those that the expression may mean: no day
  before it has an instant ahead. `ChosenClock`, `ChosenWeekday`, `ChosenAhead` and
  `ChosenDate` prove it of the four strategies, and `ChosenAnswered` that it is enough,
  for what is refused too. `MeantResolved` compares the instant the rules promise on a
  day with what `local_to_utc` finds: the two hypotheses `EachDayTells` and `DateIsNear`
  (section 3) are needed where they differ.

`SeriesProofs` continues with the days of a series: `RingsOnTime`, `NothingSkipped`
and `ClampsTold`. The inductive `SeriesInv` says, of a series that runs, that the
parser's answer keeps to what the command means (`SeriesAnswers`), and that the
instant to come is the nearest of it (`RingsNext`): of all instants at which the
clock shows the time meant on a day meant, none lies between now and `fire`. The
properties follow from it; they are not inductive, because the next occurrence is
computed from the rule, of which they say nothing. The argument, in the order of
the module:

- a clock that cannot be read on a day can be read an hour later on that day
  (`LeftOut`), so that every slot resolves to an instant and that instant is on its
  day (`AlwaysResolved`, `ResolvedOnClock`);
- the days that a rule generates, period by period, are the days that its interval
  and its day of the month or the week name, no more and no less, and they come in
  the order of their periods (`DailyDays`, `WeeklyDays`, `MonthlyDays`,
  `YearlyDays`), for the plain rules, for those that clamp to the last day of a
  month and for the 29th of February;
- what the search for an anchor leaves out is later than what it finds
  (`AnchorFirst`, `DailyCovers`, `WeeklyCovers`, `MonthsCover`), so the series begins
  at the nearest of its instants;
- if the present occurrence is one of the rule's, `next_after` finds the nearest one
  (`NextNearest`), within the periods `Ahead` that the model looks at, whichever
  answer `GapPolicy` gives;
- each strategy makes such a schedule of what it reads, adds a note wherever a day of
  the series may be clamped, and makes none of what names nothing that recurs
  (`SpanAnswered`, `WeekdaysAnswered`, `DayOfMonthAnswered`, `DateAnswered`,
  `NothingAnswered`, together `ReadAnswered`).

Hypotheses. `ReadAsMeant`, `NamesAreRead` and the first half of `SeriesAsMeant`: the
scanners take from a phrase the span, the days, the clock and the text that it means
(`SpanIsRead`, `NameIsRead`, `SeriesIsRead`); what a phrase means is given with it, so
this is not of the prover, and TLC checks it of all phrases, as part of
`TextAndClockApart`. Two hypotheses are about zones, and the code asks for neither.
`BackWithinDay`, of named times: the hour that comes twice is all on one day.
`LeftOutHourFollows`, of series: clocks change by an hour, or not at all, not in
the last two hours of a day, and offsets are whole minutes. In a zone that breaks it
a series may be moved or refused; section 3 has the case of Nuuk. TLC evaluates
both for the zones in which the runs use them (`ZonesAssumption`,
`SeriesZonesAssumption`).

Only model-checked:

- all liveness, with the fairness part of `ImplementsFairLifecycle`, since the prover
  has neither fairness nor ENABLED;
- `TextAndClockApart`, which is about single phrases;
- `GoesOn`, the first conjunct of `NothingLeftOut` (`NoneSkipped`, the second, is
  proved). The model looks three periods ahead (`Ahead`), and with the `GapPolicy`
  that skips a time that does not exist this is not enough for every series: 52 weeks
  at 2:30 from the right Sunday of March meets the change of clocks up to five times
  in a row. It is enough for the series of the run.

## 5. Not modelled

- Lists, pagination, text limits, rendering, messages, menus, settings of a
  user's language and zone: pure or read-only.
- The rate limiter: the token bucket is the external governor crate; its refusal
  is an outcome of `GiveUp`.
- Tokenising characters and the fuzzy match of keywords: a pure string
  distance. `Phrases` enumerates what comes out.
- Parsing a rule back from the database: the round trip of an external crate.
- Statistics, administrator notes, configuration, start-up, the backup script:
  no state of the program, or outside it.

## 6. Plan

The safety of every modelled component is proved but for the three points at the
end of section 4. Next would be the parts of the handlers that only read
(section 5), and `GoesOn` for rules that cannot meet the change of clocks time and
again.
