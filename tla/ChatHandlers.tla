---------------------------- MODULE ChatHandlers ----------------------------
(***************************************************************************)
(* The handlers of crates/bot/src/handlers.rs that create and end alerts:  *)
(* /alert, /galert, /cancel, the buttons of a confirmation and of a        *)
(* delivered message, and the service message of a group upgrade.          *)
(*                                                                         *)
(* teloxide takes the updates of one chat in turn and those of different   *)
(* chats at the same time: one handler per chat.  A handler is the list of *)
(* awaits it still has to do; between two of them other chats, the worker, *)
(* the members of the group and Telegram move on.                          *)
(***************************************************************************)
EXTENDS Integers, Sequences, FiniteSets

CONSTANTS
    Users,              \* Telegram users; a private chat has its user's id
    Dms,                \* users who write to the bot in private
    Alerts,             \* ids of the alerts table
    NoAlert,            \* an update that names no alert
    Idle,               \* a handler without an update
    MaxAlertsPerUser,   \* MAX_ALERTS_PER_USER
    MaxAlertsPerChat,   \* MAX_ALERTS_PER_CHAT
    CanUpgrade,         \* bound: the group may become a supergroup
    RightsChange,       \* bound: members and administrators come and go
    MaxUpdates          \* bound: messages and taps users send

ASSUME HandlersAssumption ==
    /\ Users # {} /\ Users \cap {"group", "supergroup"} = {}
    /\ Dms \subseteq Users
    /\ NoAlert \notin Alerts
    /\ IsFiniteSet(Alerts) /\ IsFiniteSet(Dms)
    /\ MaxAlertsPerUser \in Nat
    /\ MaxAlertsPerChat \in Nat
    /\ CanUpgrade \in BOOLEAN
    /\ RightsChange \in BOOLEAN
    /\ MaxUpdates \in Nat

VARIABLES
    table,      \* the alerts table
    inbox,      \* updates of each chat that wait for its handler
    handler,    \* what each chat's handler works on, or Idle
    members,    \* users in the group
    botAdmin,   \* the bot is an administrator of the group
    upgraded,   \* Telegram has made the group a supergroup
    followed,   \* chats whose service message of the upgrade was handled
    sent        \* updates sent so far

vars == <<table, inbox, handler, members, botAdmin, upgraded, followed, sent>>

Groups == IF CanUpgrade THEN {"group", "supergroup"} ELSE {"group"}
Chats == Dms \cup Groups

State == {"none", "pending", "claimed", "cancelled", "closed"}
Active == {"pending", "claimed"}
Scope == {"private", "shared"}

Row == [state : State, owner : Users, chat : Chats, scope : Scope]
NoRow == [state |-> "none", owner |-> CHOOSE u \in Users : TRUE,
          chat |-> "group", scope |-> "private"]

Ending == {"cancel", "cancel_button", "stop_series"}
Taps == {"cancel_button", "stop_series", "snooze"}
Kind == {"alert", "galert", "migration"} \cup Ending \cup Taps
Update == [kind : Kind, user : Users, alert : Alerts \cup {NoAlert}]

\* The awaits of each handler, in the code's order.
CreateAwaits == <<"count_user", "count_chat", "insert", "confirm">>
CreateSharedAwaits == <<"count_user", "count_chat", "bot_admin", "insert", "confirm">>
CommandAwaits == <<"load", "member", "read", "update">>
\* mutant
ButtonUnchecked == <<"load", "read", "update", "clear">>
ButtonAwaits == <<"load", "member", "read", "update", "clear">>
\* mutant
SnoozeUncounted == <<"load", "member", "count_chat", "insert", "clear">>
SnoozeAwaits == <<"load", "member", "count_user", "count_chat", "insert", "clear">>

Awaits(kind) ==
    CASE kind = "alert"     -> CreateAwaits
      [] kind = "galert"    -> CreateSharedAwaits
      [] kind = "cancel"    -> CommandAwaits
      [] kind = "snooze"    -> SnoozeAwaits
      [] kind = "migration" -> <<"migrate">>
      [] OTHER              -> ButtonAwaits

Await == {"count_user", "count_chat", "bot_admin", "member", "load", "read",
          "insert", "update", "confirm", "clear", "migrate", "refuse"}

\* entitled: the right that its update needs has held at some moment since it
\* began.
Work == [update : Update, todo : Seq(Await), entitled : BOOLEAN]

ASSUME IdleAssumption == Idle \notin Work

Init ==
    /\ table = [a \in Alerts |-> NoRow]
    /\ inbox = [c \in Chats |-> <<>>]
    /\ handler = [c \in Chats |-> Idle]
    /\ members = Users
    /\ botAdmin = TRUE
    /\ upgraded = FALSE
    /\ followed = {}
    /\ sent = 0

-----------------------------------------------------------------------------
(* Users, Telegram and the delivery worker.                                *)

GroupInUse == IF upgraded THEN "supergroup" ELSE "group"

Writes(u, c) == c = u \/ (c = GroupInUse /\ u \in members)

Send(u, c, kind, a) ==
    /\ sent < MaxUpdates
    /\ sent' = sent + 1
    /\ inbox' = [inbox EXCEPT ![c] =
                    Append(@, [kind |-> kind, user |-> u, alert |-> a])]
    /\ UNCHANGED <<table, handler, members, botAdmin, upgraded, followed>>

SendCommand(u, c) ==
    /\ Writes(u, c)
    /\ \/ Send(u, c, "alert", NoAlert)
       \/ Send(u, c, "galert", NoAlert)
       \/ \E a \in Alerts : Send(u, c, "cancel", a)

\* callback_data is whatever the client sends: any button of any alert, in a
\* message of any chat the user writes in.
Tap(u, c) ==
    /\ Writes(u, c)
    /\ \E kind \in Taps, a \in Alerts : Send(u, c, kind, a)

\* The service message reaches the old chat and the new one.
UpgradeGroup ==
    /\ CanUpgrade /\ ~upgraded
    /\ upgraded' = TRUE
    /\ inbox' = [c \in Chats |->
                    IF c \notin Groups THEN inbox[c]
                    ELSE Append(inbox[c], [kind |-> "migration", alert |-> NoAlert,
                                           user |-> CHOOSE u \in Users : TRUE])]
    /\ UNCHANGED <<table, handler, members, botAdmin, followed, sent>>

\* The right an update needs: membership to change a shared alert, the bot's
\* administrator status to create one.
Right(update, present, admin) ==
    IF update.kind = "galert" THEN admin
    ELSE update.alert # NoAlert => update.user \in present

ChangeRights ==
    /\ RightsChange
    /\ \/ \E u \in Users : members' = members \ {u} /\ members' # members
       \/ \E u \in Users : members' = members \cup {u} /\ members' # members
       \/ members' = members
    /\ botAdmin' \in BOOLEAN
    /\ <<members', botAdmin'>> # <<members, botAdmin>>
    /\ handler' = [c \in Chats |->
         IF handler[c] = Idle THEN Idle
         ELSE [handler[c] EXCEPT !.entitled =
                 @ \/ Right(handler[c].update, members', botAdmin')]]
    /\ UNCHANGED <<table, inbox, upgraded, followed, sent>>

\* process_due claims what is due, at any moment as far as handlers can tell.
ClaimAlert(a) ==
    /\ table[a].state = "pending"
    /\ table' = [table EXCEPT ![a].state = "claimed"]
    /\ UNCHANGED <<inbox, handler, members, botAdmin, upgraded, followed, sent>>

\* Sent or failed; or pending again, for its next occurrence, a retry, or
\* because the reaper released it.
SettleAlert(a) ==
    /\ table[a].state = "claimed"
    /\ \E s \in {"pending", "closed"} : table' = [table EXCEPT ![a].state = s]
    /\ UNCHANGED <<inbox, handler, members, botAdmin, upgraded, followed, sent>>

-----------------------------------------------------------------------------
(* One step of the handler of chat c.                                      *)

At(c, await) == handler[c] # Idle /\ Head(handler[c].todo) = await
Job(c) == handler[c].update

\* The await is over and the handler goes on, or returns after its last one.
\* mutant
DoneWithoutReturn(c) == handler' = [handler EXCEPT ![c].todo = Tail(@)]
Done(c) ==
    IF Len(handler[c].todo) = 1 THEN handler' = [handler EXCEPT ![c] = Idle]
    ELSE handler' = [handler EXCEPT ![c].todo = Tail(@)]

\* An early return: what is left is the reply.
Refuse(c) == handler' = [handler EXCEPT ![c].todo = <<"refuse">>]

PassIf(c, condition) == IF condition THEN Done(c) ELSE Refuse(c)

HandlerOnly == UNCHANGED <<table, inbox, members, botAdmin, upgraded, followed, sent>>

\* dispatch, callback_dispatch and handle_unhandled take the update; /galert
\* needs a group.
TakeUpdate(c) ==
    /\ handler[c] = Idle
    /\ inbox[c] # <<>>
    /\ LET u == Head(inbox[c]) IN
         handler' = [handler EXCEPT ![c] =
             [update |-> u,
              todo |-> IF u.kind = "galert" /\ c \in Dms THEN <<"refuse">>
                       ELSE Awaits(u.kind),
              entitled |-> Right(u, members, botAdmin)]]
    /\ inbox' = [inbox EXCEPT ![c] = Tail(@)]
    /\ UNCHANGED <<table, members, botAdmin, upgraded, followed, sent>>

\* The parser, the text limit or the rate limiter refuses, or an await fails:
\* the handler returns and leaves what it has done.
GiveUp(c) ==
    /\ handler[c] # Idle
    /\ handler' = [handler EXCEPT ![c] = Idle]
    /\ HandlerOnly

ActiveOfUser(u) == {a \in Alerts : table[a].state \in Active /\ table[a].owner = u}
\* mutant
PendingInChat(c) == {a \in Alerts : table[a].state = "pending" /\ table[a].chat = c}
ActiveInChat(c) == {a \in Alerts : table[a].state \in Active /\ table[a].chat = c}

CountUser(c) ==
    /\ At(c, "count_user")
    /\ PassIf(c, Cardinality(ActiveOfUser(Job(c).user)) < MaxAlertsPerUser)
    /\ HandlerOnly

CountChat(c) ==
    /\ At(c, "count_chat")
    /\ PassIf(c, Cardinality(ActiveInChat(c)) < MaxAlertsPerChat)
    /\ HandlerOnly

\* group_alert_creation_allowed.  The old group answers with an error.
CheckBot(c) ==
    /\ At(c, "bot_admin")
    /\ PassIf(c, botAdmin /\ c = GroupInUse)
    /\ HandlerOnly

\* can_edit: a shared alert is anybody's.
CanEdit(row, user) == row.scope = "shared" \/ row.owner = user

\* callback_alert_in_origin_chat; the command checks the owner as well.
\* mutant
TapFromAnyChat(c) ==
    /\ At(c, "load")
    /\ LET r == table[Job(c).alert] IN
         PassIf(c, /\ r.state # "none"
                   /\ Job(c).kind = "cancel" =>
                         r.chat = c /\ CanEdit(r, Job(c).user))
    /\ HandlerOnly
Load(c) ==
    /\ At(c, "load")
    /\ LET r == table[Job(c).alert] IN
         PassIf(c, /\ r.state # "none" /\ r.chat = c
                   /\ Job(c).kind = "cancel" => CanEdit(r, Job(c).user))
    /\ HandlerOnly

\* shared_membership, which only shared alerts need.
CheckMember(c) ==
    /\ At(c, "member")
    /\ PassIf(c, \/ table[Job(c).alert].scope = "private"
                 \/ Job(c).user \in members /\ c = GroupInUse)
    /\ HandlerOnly

\* cancel_alert is a SELECT ...
ReadForCancel(c) ==
    /\ At(c, "read")
    /\ LET r == table[Job(c).alert] IN
         PassIf(c, CanEdit(r, Job(c).user) /\ r.state = "pending")
    /\ HandlerOnly

\* ... and an UPDATE that checks the state again.
\* mutant
UpdateBlindly(c) ==
    /\ At(c, "update")
    /\ table' = [table EXCEPT ![Job(c).alert].state = "cancelled"]
    /\ Done(c)
    /\ UNCHANGED <<inbox, members, botAdmin, upgraded, followed, sent>>
Cancel(c) ==
    /\ At(c, "update")
    /\ IF table[Job(c).alert].state = "pending"
       THEN /\ table' = [table EXCEPT ![Job(c).alert].state = "cancelled"]
            /\ Done(c)
       ELSE /\ Refuse(c)
            /\ UNCHANGED table
    /\ UNCHANGED <<inbox, members, botAdmin, upgraded, followed, sent>>

\* The row of /alert, /galert or a snooze: a snooze is a private one-shot of
\* the user who tapped.
NewAlert(c) ==
    [state |-> "pending", owner |-> Job(c).user, chat |-> c,
     scope |-> IF Job(c).kind = "galert" THEN "shared" ELSE "private"]

Insert(c, a) ==
    /\ At(c, "insert")
    /\ table[a].state = "none"
    /\ table' = [table EXCEPT ![a] = NewAlert(c)]
    /\ Done(c)
    /\ UNCHANGED <<inbox, members, botAdmin, upgraded, followed, sent>>

\* chat_migration, then migrate_chat: both chats' messages move the rows.
\* mutant
OnlyTheNewChat(c) == c = "supergroup"
MovesRows(c) == c \in Groups

MigrateChat(c) ==
    /\ At(c, "migrate")
    /\ table' = [a \in Alerts |->
         IF MovesRows(c) /\ table[a].chat = "group"
         THEN [table[a] EXCEPT !.chat = "supergroup"] ELSE table[a]]
    /\ followed' = followed \cup {c}
    /\ Done(c)
    /\ UNCHANGED <<inbox, members, botAdmin, upgraded, sent>>

\* The refusal, the confirmation, or the edited message of a button: sent to
\* the chat, kept nowhere.
Reply(c) ==
    /\ \E x \in {"refuse", "confirm", "clear"} : At(c, x)
    /\ Done(c)
    /\ HandlerOnly

-----------------------------------------------------------------------------
Environment ==
    \/ \E u \in Users, c \in Chats : SendCommand(u, c) \/ Tap(u, c)
    \/ UpgradeGroup
    \/ ChangeRights
    \/ \E a \in Alerts : ClaimAlert(a) \/ SettleAlert(a)

Handle(c) ==
    \/ TakeUpdate(c)
    \/ CountUser(c)
    \/ CountChat(c)
    \/ CheckBot(c)
    \/ Load(c)
    \/ CheckMember(c)
    \/ ReadForCancel(c)
    \/ Cancel(c)
    \/ \E a \in Alerts : Insert(c, a)
    \/ MigrateChat(c)
    \/ Reply(c)

Next == Environment \/ (\E c \in Chats : Handle(c) \/ GiveUp(c))

Spec == Init /\ [][Next]_vars
=============================================================================
