----------------------- MODULE ChatHandlersProperties -----------------------
(***************************************************************************)
(* What the handlers keep while chats run side by side.                    *)
(***************************************************************************)
EXTENDS ChatHandlers

\* Type correctness; a handler at work has an await left.
TypeOK ==
    /\ table \in [Alerts -> Row]
    /\ inbox \in [Chats -> Seq(Update)]
    /\ handler \in [Chats -> Work \cup {Idle}]
    /\ \A c \in Chats : handler[c] # Idle => handler[c].todo # <<>>
    /\ members \subseteq Users
    /\ botAdmin \in BOOLEAN /\ upgraded \in BOOLEAN
    /\ followed \subseteq Chats
    /\ sent \in 0 .. MaxUpdates

\* A chat never has more active alerts than MAX_ALERTS_PER_CHAT although the
\* count and the INSERT of create_alert and of a snooze are apart: only the
\* chat's own handler inserts into it.  The supergroup is excepted, which
\* also takes over the rows of the old group.
ChatQuota ==
    \A c \in Chats \ {"supergroup"} :
        Cardinality(ActiveInChat(c)) <= MaxAlertsPerChat

\* The user quota is counted across chats, so that handlers race for it: each
\* chat but one can add one alert beyond MAX_ALERTS_PER_USER, and no more
\* (create_alert, handle_snooze_callback).
UserQuotaOvershoot ==
    \A u \in Users :
        Cardinality(ActiveOfUser(u)) <= MaxAlertsPerUser + Cardinality(Chats) - 1

\* The step of chat c that changes the table.
Writing(c) == handler'[c] # handler[c] /\ table' # table

\* A shared alert is created, snoozed or ended only by a handler for which the
\* right to do so has held since its update was taken: whoever left the group
\* before, or a group where the bot was no administrator, changes nothing, in
\* whatever order rights and lookups come (shared_membership,
\* bot_group_authority).
SharedNeedsRights ==
    [][\A c \in Chats :
         /\ Writing(c)
         /\ \/ Job(c).kind = "galert"
            \/ Job(c).alert # NoAlert /\ table[Job(c).alert].scope = "shared"
         => handler[c].entitled]_vars

\* A handler never takes an alert away from a delivery: what is claimed stays
\* claimed, and only the worker settles it, although the handler read the row
\* before (cancel_alert).
DeliveryIsNotInterrupted ==
    [][\A c \in Chats, a \in Alerts :
         Writing(c) /\ table'[a].state # table[a].state =>
            table[a].state \in {"none", "pending"}]_vars

\* What chat c's step does to alert a at a user's word: it ends it, or copies
\* its text into a snooze.
Ends(a) == table[a].state # "cancelled" /\ table'[a].state = "cancelled"
Copies(c, a) == Job(c).kind = "snooze" /\ Job(c).alert = a

\* An update reaches no further than the chat it came from, whatever alert its
\* callback data or command names: what is ended or copied is an alert of that
\* chat, or one that moved with its group's upgrade after it was looked up
\* (cancel, callback_alert_in_origin_chat).
NoReachAcrossChats ==
    [][\A c \in Chats, a \in Alerts :
         Writing(c) /\ (Ends(a) \/ Copies(c, a)) =>
            /\ table[a].state # "none"
            /\ \/ table[a].chat = c
               \/ c = "group" /\ table[a].chat = "supergroup"]_vars

\* Once the old group's own service message was handled, nothing is left in it
\* and nothing is inserted into it any more, whatever was queued before it and
\* whenever the supergroup's message was handled (handle_unhandled).
OldGroupStaysEmpty ==
    "group" \in followed => \A a \in Alerts :
        table[a].state # "none" => table[a].chat # "group"
=============================================================================
