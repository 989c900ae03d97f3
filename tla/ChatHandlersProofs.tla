-------------------------- MODULE ChatHandlersProofs --------------------------
(***************************************************************************)
(* What the handlers keep, for all users, chats, quotas and updates.       *)
(***************************************************************************)
EXTENDS ChatHandlersProperties, SequenceTheorems, FiniteSetTheorems, TLAPS

-----------------------------------------------------------------------------
(* The awaits a handler still has to do.                                   *)

Has(todo, x) == \E i \in 1 .. Len(todo) : todo[i] = x

Before(todo, x, y) ==
    \A i, j \in 1 .. Len(todo) : todo[i] = x /\ todo[j] = y => i < j

\* What every list of awaits obeys, from the first of them to the last.
Ordered(todo) ==
    /\ todo \in Seq(Await) /\ todo # <<>>
    /\ todo[Len(todo)] # "insert"
    /\ \A i, j \in 1 .. Len(todo) : todo[i] = "insert" /\ todo[j] = "insert" => i = j
    /\ Before(todo, "count_user", "insert") /\ Before(todo, "count_chat", "insert")
    /\ Before(todo, "bot_admin", "insert")
    /\ Before(todo, "member", "insert") /\ Before(todo, "member", "update")
    /\ Before(todo, "load", "insert") /\ Before(todo, "load", "update")
    /\ Before(todo, "load", "member") /\ (Has(todo, "load") => Has(todo, "member"))
    /\ Has(todo, "migrate") => Len(todo) = 1

LEMMA TailOrdered ==
    ASSUME NEW s, Ordered(s), Len(s) # 1
    PROVE  /\ Ordered(Tail(s))
           /\ Head(s) = "insert" => ~Has(Tail(s), "insert")
           /\ \A x : Has(Tail(s), x) => Has(s, x)
           /\ \A x : Has(s, x) /\ Head(s) # x => Has(Tail(s), x)
<1> DEFINE t == Tail(s)
<1>1. s \in Seq(Await) /\ s # <<>> /\ Len(s) \in Nat /\ Len(s) > 1
  <2>1. s \in Seq(Await) /\ s # <<>>
    BY DEF Ordered
  <2>2. Len(s) \in Nat /\ Len(s) # 0
    BY <2>1, EmptySeq
  <2>3. ASSUME NEW n \in Nat, n # 0, n # 1 PROVE n > 1
    BY <2>3
  <2> QED BY <2>1, <2>2, <2>3
<1>2. /\ t \in Seq(Await) /\ Len(t) = Len(s) - 1
      /\ \A i \in 1 .. Len(t) : t[i] = s[i + 1]
  BY <1>1, HeadTailProperties
<1>3. Head(s) = s[1]
  BY <1>1
<1> HIDE DEF t
<1>4. ASSUME NEW x, NEW y, Before(s, x, y) PROVE Before(t, x, y)
  <2> SUFFICES ASSUME NEW i \in 1 .. Len(t), NEW j \in 1 .. Len(t), t[i] = x, t[j] = y
               PROVE  i < j
    BY DEF Before
  <2>1. i + 1 \in 1 .. Len(s) /\ j + 1 \in 1 .. Len(s) /\ s[i + 1] = x /\ s[j + 1] = y
    BY <1>1, <1>2
  <2> QED BY <2>1, <1>1, <1>2, <1>4 DEF Before
<1>5. ASSUME NEW x, Has(t, x) PROVE Has(s, x)
  <2> PICK i \in 1 .. Len(t) : t[i] = x BY <1>5 DEF Has
  <2>1. i + 1 \in 1 .. Len(s) /\ s[i + 1] = x BY <1>1, <1>2
  <2> QED BY <2>1 DEF Has
<1>6. ASSUME NEW x, Has(s, x), Head(s) # x PROVE Has(t, x)
  <2> PICK i \in 1 .. Len(s) : s[i] = x BY <1>6 DEF Has
  <2>1. i - 1 \in 1 .. Len(t) /\ t[i - 1] = x BY <1>1, <1>2, <1>3, <1>6
  <2> QED BY <2>1 DEF Has
<1>7. t # <<>> /\ t[Len(t)] = s[Len(s)]
  BY <1>1, <1>2, EmptySeq
<1>8. ~Has(t, "migrate")
  BY <1>1, <1>5 DEF Ordered
<1>9. ASSUME NEW i \in 1 .. Len(t), t[i] = "insert" PROVE Head(s) # "insert"
  <2>1. i + 1 \in 1 .. Len(s) /\ 1 \in 1 .. Len(s) /\ s[i + 1] = "insert" /\ i + 1 # 1
    BY <1>1, <1>2, <1>9
  <2> QED BY <1>3, <2>1 DEF Ordered
<1>10. ASSUME NEW i \in 1 .. Len(t), NEW j \in 1 .. Len(t), t[i] = "insert", t[j] = "insert"
       PROVE  i = j
  <2>1. /\ i + 1 \in 1 .. Len(s) /\ s[i + 1] = "insert"
        /\ j + 1 \in 1 .. Len(s) /\ s[j + 1] = "insert"
    BY <1>1, <1>2, <1>10
  <2>2. i + 1 = j + 1
    BY <2>1 DEF Ordered
  <2> QED BY <2>2
<1>11. ASSUME Has(t, "load") PROVE Has(t, "member")
  <2>1. Has(s, "load") /\ Has(s, "member") /\ Before(s, "load", "member")
    BY <1>5, <1>11 DEF Ordered
  <2>2. PICK i \in 1 .. Len(s) : s[i] = "load"
    BY <2>1 DEF Has
  <2>3. Head(s) # "member"
    BY <1>1, <1>3, <2>1, <2>2 DEF Before
  <2> QED BY <1>6, <2>1, <2>3
<1>12. Ordered(t)
  BY <1>2, <1>4, <1>7, <1>8, <1>10, <1>11 DEF Ordered
<1> QED BY <1>1, <1>5, <1>6, <1>9, <1>12 DEF t, Has

\* What comes later has not been done.
LEMMA HeadFirst ==
    ASSUME NEW s, s # <<>>, s \in Seq(Await), NEW x, NEW y, Before(s, x, y), Head(s) = y
    PROVE  Has(s, y) /\ ~Has(s, x)
<1>1. 1 \in 1 .. Len(s) /\ s[1] = y
  BY EmptySeq, LenProperties
<1> QED BY <1>1 DEF Before, Has

LEMMA NothingLeft ==
    ASSUME NEW S, NEW s \in Seq(S), Len(s) = 1
    PROVE  Tail(s) = <<>>
<1>1. s # <<>>
  BY EmptySeq
<1>2. Tail(s) \in Seq(S) /\ Len(Tail(s)) = 0
  BY <1>1, HeadTailProperties
<1>3. Tail(s) # <<>> => Len(Tail(s)) \in Nat \ {0}
  BY <1>2, EmptySeq
<1> QED BY <1>2, <1>3

LEMMA HeadHas ==
    ASSUME NEW s, s # <<>>, s \in Seq(Await)
    PROVE  Has(s, Head(s))
<1>1. 1 \in 1 .. Len(s) /\ s[1] = Head(s)
  BY EmptySeq, LenProperties
<1> QED BY <1>1 DEF Has

LEMMA AwaitsOrdered ==
    ASSUME NEW k \in Kind
    PROVE  /\ Ordered(Awaits(k))
           /\ Has(Awaits(k), "migrate") => k = "migration"
           /\ Has(Awaits(k), "update") => k \in Ending
           /\ Has(Awaits(k), "insert") =>
                 Has(Awaits(k), "count_user") /\ Has(Awaits(k), "count_chat")
           /\ k = "galert" => Has(Awaits(k), "bot_admin")
           /\ k \in Ending \cup Taps => Has(Awaits(k), "load") /\ Has(Awaits(k), "member")
<1> DEFINE a == Awaits(k)
<1>1. CASE k = "alert"
  <2>1. a = <<"count_user", "count_chat", "insert", "confirm">>
    BY <1>1 DEF Awaits, CreateAwaits
  <2> HIDE DEF a
  <2>2. a \in Seq(Await) /\ Len(a) = 4
    BY <2>1 DEF Await
  <2>3. Ordered(a)
    BY <2>1, <2>2 DEF Ordered, Has, Before
  <2>4. \A x : Has(a, x) <=> \E i \in 1 .. Len(a) : a[i] = x
    BY DEF Has
  <2> QED BY <1>1, <2>1, <2>2, <2>3, <2>4 DEF a, Ending, Taps
<1>2. CASE k = "galert"
  <2>1. a = <<"count_user", "count_chat", "bot_admin", "insert", "confirm">>
    BY <1>2 DEF Awaits, CreateSharedAwaits
  <2> HIDE DEF a
  <2>2. a \in Seq(Await) /\ Len(a) = 5
    BY <2>1 DEF Await
  <2>3. Ordered(a)
    BY <2>1, <2>2 DEF Ordered, Has, Before
  <2>4. \A x : Has(a, x) <=> \E i \in 1 .. Len(a) : a[i] = x
    BY DEF Has
  <2> QED BY <1>2, <2>1, <2>2, <2>3, <2>4 DEF a, Ending, Taps
<1>3. CASE k = "cancel"
  <2>1. a = <<"load", "member", "read", "update">>
    BY <1>3 DEF Awaits, CommandAwaits
  <2> HIDE DEF a
  <2>2. a \in Seq(Await) /\ Len(a) = 4
    BY <2>1 DEF Await
  <2>3. Ordered(a)
    BY <2>1, <2>2 DEF Ordered, Has, Before
  <2>4. \A x : Has(a, x) <=> \E i \in 1 .. Len(a) : a[i] = x
    BY DEF Has
  <2> QED BY <1>3, <2>1, <2>2, <2>3, <2>4 DEF a, Ending, Taps
<1>4. CASE k = "snooze"
  <2>1. a = <<"load", "member", "count_user", "count_chat", "insert", "clear">>
    BY <1>4 DEF Awaits, SnoozeAwaits
  <2> HIDE DEF a
  <2>2. a \in Seq(Await) /\ Len(a) = 6
    BY <2>1 DEF Await
  <2>3. Ordered(a)
    BY <2>1, <2>2 DEF Ordered, Has, Before
  <2>4. \A x : Has(a, x) <=> \E i \in 1 .. Len(a) : a[i] = x
    BY DEF Has
  <2> QED BY <1>4, <2>1, <2>2, <2>3, <2>4 DEF a, Ending, Taps
<1>5. CASE k = "migration"
  <2>1. a = <<"migrate">>
    BY <1>5 DEF Awaits, Kind
  <2> HIDE DEF a
  <2>2. a \in Seq(Await) /\ Len(a) = 1
    BY <2>1 DEF Await
  <2>3. Ordered(a)
    BY <2>1, <2>2 DEF Ordered, Has, Before
  <2>4. \A x : Has(a, x) <=> \E i \in 1 .. Len(a) : a[i] = x
    BY DEF Has
  <2> QED BY <1>5, <2>1, <2>2, <2>3, <2>4 DEF a, Ending, Taps
<1>6. CASE k \in {"cancel_button", "stop_series"}
  <2>1. a = <<"load", "member", "read", "update", "clear">>
    BY <1>6 DEF Awaits, ButtonAwaits
  <2> HIDE DEF a
  <2>2. a \in Seq(Await) /\ Len(a) = 5
    BY <2>1 DEF Await
  <2>3. Ordered(a)
    BY <2>1, <2>2 DEF Ordered, Has, Before
  <2>4. \A x : Has(a, x) <=> \E i \in 1 .. Len(a) : a[i] = x
    BY DEF Has
  <2> QED BY <1>6, <2>1, <2>2, <2>3, <2>4 DEF a, Ending, Taps
<1> QED BY <1>1, <1>2, <1>3, <1>4, <1>5, <1>6 DEF Kind, Ending, Taps

LEMMA RefuseOrdered ==
    /\ Ordered(<<"refuse">>)
    /\ \A x : Has(<<"refuse">>, x) => x = "refuse"
BY DEF Ordered, Has, Before, Await

-----------------------------------------------------------------------------
(* The inductive invariant.                                                *)

Busy(c) == handler[c] # Idle

\* An update names an alert, of the table or not, exactly if its handler looks
\* one up.
Naming(u) == u.alert # NoAlert <=> u.kind \in Ending \cup Taps

Named ==
    /\ \A c \in Chats : \A i \in 1 .. Len(inbox[c]) : Naming(inbox[c][i])
    /\ \A c \in Chats : Busy(c) => Naming(handler[c].update)

\* A handler has the awaits of its kind before it ...
Planned(c) ==
    LET todo == handler[c].todo
        kind == handler[c].update.kind
    IN  /\ Ordered(todo)
        /\ Has(todo, "migrate") => kind = "migration"
        /\ Has(todo, "update") => kind \in Ending

\* ... and behind it what the awaits that are done have shown.
InReach(c, row) ==
    /\ row.state # "none"
    /\ row.chat = c \/ (c = "group" /\ row.chat = "supergroup")

Shown(c) ==
    LET todo == handler[c].todo
        update == handler[c].update
        asked == table[update.alert]
    IN  /\ Right(update, members, botAdmin) => handler[c].entitled
        /\ update.kind = "galert" /\ Has(todo, "insert") /\ ~Has(todo, "bot_admin") =>
              handler[c].entitled
        /\ update.alert # NoAlert /\ (Has(todo, "insert") \/ Has(todo, "update"))
              /\ ~Has(todo, "member") /\ asked.scope = "shared" => handler[c].entitled
        /\ update.alert # NoAlert /\ (Has(todo, "insert") \/ Has(todo, "update"))
              /\ ~Has(todo, "load") => InReach(c, asked)
        /\ Has(todo, "insert") /\ ~Has(todo, "count_chat") /\ c # "supergroup" =>
              Cardinality(ActiveInChat(c)) < MaxAlertsPerChat

\* The service message is the last update of the old group.
LastUpdate ==
    /\ upgraded => CanUpgrade
    /\ \A c \in Chats : \A i \in 1 .. Len(inbox[c]) : inbox[c][i].kind = "migration" =>
          upgraded /\ (c = "group" => i = Len(inbox[c]))
    /\ \A c \in Chats : Busy(c) /\ handler[c].update.kind = "migration" =>
          upgraded /\ (c = "group" => inbox[c] = <<>>)
    /\ "group" \in followed => upgraded /\ inbox["group"] = <<>> /\ ~Busy("group")

Plans == \A c \in Chats : Busy(c) => Planned(c)
Work0 == TypeOK /\ Named /\ Plans /\ LastUpdate

-----------------------------------------------------------------------------
(* What a step does to a handler.                                          *)

\* It passes its first await.
Passable(c) ==
    LET x == Head(handler[c].todo)
        asked == table[handler[c].update.alert]
    IN  /\ x = "count_user" =>
              Cardinality(ActiveOfUser(handler[c].update.user)) < MaxAlertsPerUser
        /\ x = "count_chat" => Cardinality(ActiveInChat(c)) < MaxAlertsPerChat
        /\ x = "bot_admin" => botAdmin
        /\ x = "member" => asked.scope = "private" \/ handler[c].update.user \in members
        /\ x = "load" => asked.state # "none" /\ asked.chat = c

Same(c) == handler'[c].update = handler[c].update

Moves(c) ==
    \/ /\ Busy(c) /\ Same(c)
       /\ handler'[c].todo = handler[c].todo
       /\ \/ UNCHANGED <<members, botAdmin>> /\ handler'[c].entitled = handler[c].entitled
          \/ handler'[c].entitled =
                (handler[c].entitled \/ Right(handler[c].update, members', botAdmin'))
    \/ /\ ~Busy(c) /\ inbox[c] # <<>> /\ inbox'[c] = Tail(inbox[c])
       /\ handler'[c].update = Head(inbox[c])
       /\ handler'[c].todo \in {<<"refuse">>, Awaits(Head(inbox[c]).kind)}
       /\ handler'[c].entitled = Right(Head(inbox[c]), members', botAdmin')
    \/ /\ Busy(c) /\ Same(c) /\ UNCHANGED <<members, botAdmin>>
       /\ handler'[c].entitled = handler[c].entitled
       /\ handler'[c].todo = <<"refuse">>
    \/ /\ Busy(c) /\ Same(c) /\ UNCHANGED <<members, botAdmin>>
       /\ handler'[c].entitled = handler[c].entitled
       /\ Len(handler[c].todo) # 1 /\ handler'[c].todo = Tail(handler[c].todo)
       /\ Passable(c)

HandlerType == handler \in [Chats -> Work \cup {Idle}]
Others(c) == \A d \in Chats \ {c} : handler'[d] = handler[d]

LEMMA DoneStep ==
    ASSUME HandlerType, NEW c \in Chats, Busy(c), Ordered(handler[c].todo), Done(c)
    PROVE  /\ HandlerType' /\ Others(c)
           /\ Busy(c)' => /\ Same(c)
                          /\ handler'[c].entitled = handler[c].entitled
                          /\ Len(handler[c].todo) # 1
                          /\ handler'[c].todo = Tail(handler[c].todo)
<1> DEFINE h == handler[c]
<1>1. h \in Work
  BY DEF HandlerType, Busy
<1>2. CASE Len(h.todo) = 1
  BY <1>2 DEF Done, HandlerType, Others, Busy
<1>3. CASE Len(h.todo) # 1
  <2>1. Tail(h.todo) \in Seq(Await)
    BY <1>3, TailOrdered DEF Ordered
  <2>2. handler' = [handler EXCEPT ![c] = [h EXCEPT !.todo = Tail(h.todo)]]
    BY <1>3 DEF Done, HandlerType
  <2>3. [h EXCEPT !.todo = Tail(h.todo)] \in Work
    BY <1>1, <2>1 DEF Work
  <2> QED BY <1>1, <1>3, <2>2, <2>3 DEF HandlerType, Others, Busy, Same, Work
<1> QED BY <1>2, <1>3

LEMMA RefuseStep ==
    ASSUME HandlerType, NEW c \in Chats, Busy(c), Refuse(c)
    PROVE  /\ HandlerType' /\ Others(c) /\ Same(c)
           /\ handler'[c].entitled = handler[c].entitled
           /\ handler'[c].todo = <<"refuse">>
<1> DEFINE h == handler[c]
<1>1. h \in Work
  BY DEF HandlerType, Busy
<1>2. <<"refuse">> \in Seq(Await)
  BY DEF Await
<1>3. handler' = [handler EXCEPT ![c] = [h EXCEPT !.todo = <<"refuse">>]]
  BY DEF Refuse, HandlerType
<1>4. [h EXCEPT !.todo = <<"refuse">>] \in Work
  BY <1>1, <1>2 DEF Work
<1> QED BY <1>1, <1>3, <1>4 DEF HandlerType, Others, Busy, Same, Work

LEMMA RightValue ==
    ASSUME NEW u, NEW present, NEW admin \in BOOLEAN
    PROVE  /\ Right(u, present, admin) \in BOOLEAN
           /\ u.kind = "galert" => Right(u, present, admin) = admin
           /\ u.kind # "galert" /\ u.alert # NoAlert =>
                 Right(u, present, admin) = (u.user \in present)
<1>1. Right(u, present, admin) \in BOOLEAN
  <2>1. (u.alert # NoAlert => u.user \in present) \in BOOLEAN
    BY Zenon
  <2> QED BY <2>1 DEF Right
<1> QED BY <1>1 DEF Right

LEMMA HandlersStep ==
    ASSUME HandlerType, inbox \in [Chats -> Seq(Update)], Plans, [Next]_vars,
           table \in [Alerts -> Row], members \subseteq Users, botAdmin \in BOOLEAN
    PROVE  /\ HandlerType'
           /\ \A c \in Chats : Busy(c)' => Moves(c)
<1>1. CASE UNCHANGED handler /\ UNCHANGED <<members, botAdmin>>
  BY <1>1 DEF HandlerType, Busy, Moves, Same
<1>2. CASE ChangeRights
  <2>1. ASSUME NEW c \in Chats, Busy(c)
        PROVE  /\ handler'[c] \in Work
               /\ handler'[c] = [handler[c] EXCEPT !.entitled =
                     @ \/ Right(handler[c].update, members', botAdmin')]
    <3>1. handler[c] \in Work
      BY <2>1 DEF HandlerType, Busy
    <3>2. Right(handler[c].update, members', botAdmin') \in BOOLEAN
      BY <1>2, RightValue DEF ChangeRights
    <3> QED BY <1>2, <2>1, <3>1, <3>2 DEF ChangeRights, Busy, Work
  <2>2. ASSUME NEW c \in Chats, ~Busy(c) PROVE handler'[c] = Idle
    BY <1>2, <2>2 DEF ChangeRights, Busy
  <2>3. HandlerType'
    BY <1>2, <2>1, <2>2 DEF HandlerType, ChangeRights
  <2>4. ASSUME NEW c \in Chats, Busy(c) PROVE Moves(c)
    BY <2>1, <2>4 DEF Moves, Same, HandlerType, Busy, Work
  <2> QED BY <2>2, <2>3, <2>4 DEF Busy
<1>3. ASSUME NEW c \in Chats, Handle(c) \/ GiveUp(c)
      PROVE  /\ HandlerType' /\ UNCHANGED <<members, botAdmin>> /\ Others(c)
             /\ Busy(c)' => Moves(c)
  <2> USE DEF Busy
  <2>1. CASE GiveUp(c)
    BY <2>1 DEF GiveUp, HandlerOnly, HandlerType, Others
  <2>2. CASE TakeUpdate(c)
    <3> DEFINE u == Head(inbox[c])
               h == handler'[c]
    <3>1. u \in Update /\ inbox[c] # <<>> /\ inbox'[c] = Tail(inbox[c])
      BY <2>2 DEF TakeUpdate
    <3>2. Awaits(u.kind) \in Seq(Await) /\ <<"refuse">> \in Seq(Await)
      BY <3>1, AwaitsOrdered, RefuseOrdered DEF Ordered, Update
    <3>3. Right(u, members, botAdmin) \in BOOLEAN
      BY RightValue
    <3>4. /\ h.update = u /\ h.todo \in {<<"refuse">>, Awaits(u.kind)}
          /\ h.entitled = Right(u, members, botAdmin)
          /\ h \in Work
      BY <2>2, <3>1, <3>2, <3>3 DEF TakeUpdate, HandlerType, Work
    <3>5. HandlerType' /\ Others(c) /\ UNCHANGED <<members, botAdmin>>
      BY <2>2, <3>4 DEF TakeUpdate, HandlerType, Others
    <3>6. ~Busy(c)
      BY <2>2 DEF TakeUpdate
    <3> QED BY <3>1, <3>4, <3>5, <3>6 DEF Moves
  <2>3. ASSUME Busy(c), Done(c), UNCHANGED <<members, botAdmin>>, Passable(c)
        PROVE  HandlerType' /\ Others(c) /\ (Busy(c)' => Moves(c))
    BY <2>3, DoneStep DEF Plans, Planned, Moves
  <2>4. ASSUME Busy(c), Refuse(c), UNCHANGED <<members, botAdmin>>
        PROVE  HandlerType' /\ Others(c) /\ (Busy(c)' => Moves(c))
    BY <2>4, RefuseStep DEF Moves
  <2>5. CASE CountUser(c)
    BY <2>3, <2>4, <2>5 DEF CountUser, At, Job, PassIf, HandlerOnly, Passable
  <2>6. CASE CountChat(c)
    BY <2>3, <2>4, <2>6 DEF CountChat, At, PassIf, HandlerOnly, Passable
  <2>7. CASE CheckBot(c)
    BY <2>3, <2>4, <2>7 DEF CheckBot, At, PassIf, HandlerOnly, Passable
  <2>8. CASE Load(c)
    BY <2>3, <2>4, <2>8 DEF Load, At, Job, PassIf, HandlerOnly, Passable
  <2>9. CASE CheckMember(c)
    BY <2>3, <2>4, <2>9 DEF CheckMember, At, Job, PassIf, HandlerOnly, Passable
  <2>10. CASE ReadForCancel(c)
    BY <2>3, <2>4, <2>10 DEF ReadForCancel, At, PassIf, HandlerOnly, Passable
  <2>11. CASE Cancel(c)
    BY <2>3, <2>4, <2>11 DEF Cancel, At, Passable
  <2>12. CASE MigrateChat(c)
    BY <2>3, <2>4, <2>12 DEF MigrateChat, At, Passable
  <2>13. CASE Reply(c)
    BY <2>3, <2>4, <2>13 DEF Reply, At, HandlerOnly, Passable
  <2>14. ASSUME NEW a \in Alerts, Insert(c, a)
         PROVE  HandlerType' /\ UNCHANGED <<members, botAdmin>> /\ Others(c)
                /\ (Busy(c)' => Moves(c))
    BY <2>3, <2>14 DEF Insert, At, Passable
  <2> QED BY <1>3, <2>1, <2>2, <2>5, <2>6, <2>7, <2>8, <2>9, <2>10, <2>11, <2>12,
             <2>13, <2>14 DEF Handle
<1>4. ASSUME NEW c \in Chats, HandlerType', UNCHANGED <<members, botAdmin>>, Others(c),
             Busy(c)' => Moves(c)
      PROVE  \A d \in Chats : Busy(d)' => Moves(d)
  BY <1>4 DEF Others, Busy, Moves, Same
<1>5. CASE Environment
  BY <1>1, <1>2, <1>5 DEF Environment, SendCommand, Tap, Send, UpgradeGroup, ClaimAlert,
     SettleAlert
<1>6. CASE UNCHANGED vars
  BY <1>1, <1>6 DEF vars
<1> QED BY <1>3, <1>4, <1>5, <1>6 DEF Next

-----------------------------------------------------------------------------
(* What a step does to a row.                                              *)

RowStep(a) ==
    \/ table'[a] = table[a]
    \/ /\ table[a].state # "none" /\ table'[a].state # "none"
       /\ table'[a] = [table[a] EXCEPT !.state = table'[a].state]
       /\ table'[a].state \in Active => table[a].state \in Active
    \/ /\ upgraded /\ table[a].chat = "group"
       /\ table'[a] = [table[a] EXCEPT !.chat = "supergroup"]
    \/ /\ table[a].state = "none" /\ table'[a].state = "pending"
       /\ \E c \in Chats : Insert(c, a) /\ table'[a].chat = c
                           /\ table'[a].owner = handler[c].update.user

LEMMA RowsStep ==
    ASSUME Work0, [Next]_vars
    PROVE  table' \in [Alerts -> Row] /\ \A a \in Alerts : RowStep(a)
<1> USE DEF Work0, TypeOK
<1>1. CASE UNCHANGED table
  BY <1>1 DEF RowStep
<1>2. ASSUME NEW a \in Alerts, NEW st \in State \ {"none"}, table[a].state # "none",
             st \in Active => table[a].state \in Active,
             table' = [table EXCEPT ![a].state = st]
      PROVE  table' \in [Alerts -> Row] /\ \A b \in Alerts : RowStep(b)
  BY <1>2 DEF RowStep, Row
<1>3. ASSUME NEW a \in Alerts, ClaimAlert(a) \/ SettleAlert(a)
      PROVE  table' \in [Alerts -> Row] /\ \A b \in Alerts : RowStep(b)
  BY <1>2, <1>3 DEF ClaimAlert, SettleAlert, State, Active
<1>4. ASSUME NEW c \in Chats, Cancel(c)
      PROVE  table' \in [Alerts -> Row] /\ \A b \in Alerts : RowStep(b)
  <2>1. CASE table[Job(c).alert].state # "pending"
    BY <1>1, <1>4, <2>1 DEF Cancel
  <2>2. CASE table[Job(c).alert].state = "pending"
    <3>1. At(c, "update") /\ table' = [table EXCEPT ![Job(c).alert].state = "cancelled"]
      BY <1>4, <2>2 DEF Cancel
    <3>2. handler[c].update.kind \in Ending /\ handler[c] \in Work
      BY <3>1, HeadFirst DEF At, Plans, Planned, Busy, Ordered
    <3>3. Job(c).alert \in Alerts
      BY <3>1, <3>2 DEF Job, Named, Naming, At, Busy, Work, Update
    <3> QED BY <1>2, <2>2, <3>1, <3>3 DEF State, Active
  <2> QED BY <2>1, <2>2
<1>5. ASSUME NEW c \in Chats, NEW a \in Alerts, Insert(c, a)
      PROVE  table' \in [Alerts -> Row] /\ \A b \in Alerts : RowStep(b)
  <2>1. table' = [table EXCEPT ![a] = NewAlert(c)]
    BY <1>5 DEF Insert
  <2>2. handler[c] \in Work
    BY <1>5 DEF Insert, At
  <2>3. NewAlert(c) \in Row
    BY <2>2 DEF NewAlert, Row, Job, Work, Update, State, Scope
  <2>4. /\ NewAlert(c).state = "pending" /\ NewAlert(c).chat = c
        /\ NewAlert(c).owner = handler[c].update.user
    BY DEF NewAlert, Job
  <2>5. table[a].state = "none"
    BY <1>5 DEF Insert
  <2>6. \A b \in Alerts \ {a} : table'[b] = table[b]
    BY <2>1
  <2>7. table'[a] = NewAlert(c)
    BY <2>1
  <2> QED BY <1>5, <2>1, <2>3, <2>4, <2>5, <2>6, <2>7 DEF RowStep
<1>6. ASSUME NEW c \in Chats, MigrateChat(c)
      PROVE  table' \in [Alerts -> Row] /\ \A b \in Alerts : RowStep(b)
  <2>1. At(c, "migrate") /\ handler[c] \in Work
    BY <1>6 DEF MigrateChat, At
  <2>2. handler[c].update.kind = "migration"
    BY <2>1, HeadHas DEF At, Plans, Planned, Busy, Ordered
  <2>3. upgraded /\ "supergroup" \in Chats
    BY <2>1, <2>2 DEF LastUpdate, At, Busy, Chats, Groups
  <2>4. ASSUME NEW b \in Alerts
        PROVE  \/ table'[b] = table[b]
               \/ table[b].chat = "group" /\ table'[b] = [table[b] EXCEPT !.chat = "supergroup"]
    BY <1>6 DEF MigrateChat
  <2>5. ASSUME NEW b \in Alerts PROVE table'[b] \in Row
    <3>1. table[b] \in Row
      OBVIOUS
    <3>2. [table[b] EXCEPT !.chat = "supergroup"] \in Row
      BY <2>3, <3>1 DEF Row
    <3> QED BY <2>4, <3>1, <3>2
  <2>6. table' \in [Alerts -> Row]
    BY <1>6, <2>5 DEF MigrateChat
  <2> QED BY <2>3, <2>4, <2>6 DEF RowStep
<1>7. CASE Environment
  BY <1>1, <1>3, <1>7 DEF Environment, SendCommand, Tap, Send, UpgradeGroup, ChangeRights
<1>8. ASSUME NEW c \in Chats, Handle(c) \/ GiveUp(c)
      PROVE  table' \in [Alerts -> Row] /\ \A b \in Alerts : RowStep(b)
  BY <1>1, <1>4, <1>5, <1>6, <1>8 DEF Handle, GiveUp, HandlerOnly, TakeUpdate, CountUser,
     CountChat, CheckBot, Load, CheckMember, ReadForCancel, Reply
<1>9. CASE UNCHANGED vars
  BY <1>1, <1>9 DEF vars
<1> QED BY <1>7, <1>8, <1>9 DEF Next

LEMMA RowKept ==
    ASSUME NEW a \in Alerts, RowStep(a), table[a].state # "none", table[a] \in Row
    PROVE  /\ table'[a].state # "none" /\ table'[a].scope = table[a].scope
           /\ table'[a].chat = table[a].chat
              \/ (upgraded /\ table[a].chat = "group" /\ table'[a].chat = "supergroup")
BY DEF RowStep, Row

-----------------------------------------------------------------------------
(* What a step does to a chat's updates.                                   *)

NewUpdate(c, u) ==
    /\ u \in Update /\ Naming(u)
    /\ c = "group" => ~upgraded
    /\ u.kind = "migration" => ~upgraded /\ upgraded'

InboxMoves(c) ==
    \/ inbox'[c] = inbox[c]
    \/ /\ ~Busy(c) /\ Busy(c)' /\ inbox[c] # <<>> /\ inbox'[c] = Tail(inbox[c])
       /\ handler'[c].update = Head(inbox[c])
    \/ \E u \in Update : NewUpdate(c, u) /\ inbox'[c] = Append(inbox[c], u)

LEMMA InboxStep ==
    ASSUME Work0, [Next]_vars
    PROVE  /\ inbox' \in [Chats -> Seq(Update)] /\ sent' \in 0 .. MaxUpdates
           /\ \A c \in Chats : InboxMoves(c)
           /\ upgraded' \in BOOLEAN /\ (upgraded => upgraded') /\ (upgraded' => CanUpgrade)
<1> USE DEF Work0, TypeOK
<1> DEFINE Goal == /\ inbox' \in [Chats -> Seq(Update)] /\ sent' \in 0 .. MaxUpdates
                   /\ \A c \in Chats : InboxMoves(c)
                   /\ upgraded' \in BOOLEAN /\ (upgraded => upgraded')
                   /\ (upgraded' => CanUpgrade)
<1>1. CASE UNCHANGED <<inbox, sent, upgraded>>
  BY <1>1 DEF InboxMoves, LastUpdate
<1>2. ASSUME NEW c \in Chats, NEW u \in Users, NEW k \in Kind \ {"migration"},
             NEW a \in Alerts \cup {NoAlert},
             a # NoAlert <=> k \in Ending \cup Taps,
             Writes(u, c), Send(u, c, k, a)
      PROVE  Goal
  <2> DEFINE new == [kind |-> k, user |-> u, alert |-> a]
  <2>1. new \in Update /\ Naming(new)
    BY <1>2 DEF Update, Naming
  <2>2. c = "group" => ~upgraded
    BY <1>2, HandlersAssumption DEF Writes, GroupInUse
  <2>3. NewUpdate(c, new)
    BY <1>2, <2>1, <2>2 DEF NewUpdate
  <2>4. inbox' = [inbox EXCEPT ![c] = Append(inbox[c], new)]
    BY <1>2 DEF Send
  <2>5. Append(inbox[c], new) \in Seq(Update)
    BY <2>1, AppendProperties
  <2>6. inbox' \in [Chats -> Seq(Update)]
    BY <2>4, <2>5
  <2>7. ASSUME NEW d \in Chats PROVE InboxMoves(d)
    <3>1. CASE d = c
      BY <2>1, <2>3, <2>4, <3>1 DEF InboxMoves
    <3>2. CASE d # c
      BY <2>4, <3>2 DEF InboxMoves
    <3> QED BY <3>1, <3>2
  <2>8. sent' \in 0 .. MaxUpdates /\ upgraded' = upgraded
    BY <1>2, HandlersAssumption DEF Send
  <2> QED BY <2>6, <2>7, <2>8 DEF LastUpdate
<1>3. CASE UpgradeGroup
  <2> DEFINE new == [kind |-> "migration", alert |-> NoAlert,
                     user |-> CHOOSE u \in Users : TRUE]
  <2>1. (CHOOSE u \in Users : TRUE) \in Users
    BY HandlersAssumption
  <2>2. new \in Update
    BY <2>1 DEF Update, Kind
  <2>3. Naming(new)
    BY DEF Naming, Ending, Taps
  <2>4. ASSUME NEW c \in Chats PROVE NewUpdate(c, new)
    BY <1>3, <2>2, <2>3 DEF NewUpdate, UpgradeGroup
  <2>5. ASSUME NEW c \in Chats PROVE inbox'[c] \in {inbox[c], Append(inbox[c], new)}
    BY <1>3 DEF UpgradeGroup
  <2>6. ASSUME NEW c \in Chats PROVE Append(inbox[c], new) \in Seq(Update)
    BY <2>2, AppendProperties
  <2>7. inbox' \in [Chats -> Seq(Update)]
    <3>1. inbox' = [c \in Chats |-> inbox'[c]]
      BY <1>3 DEF UpgradeGroup
    <3> HIDE DEF new
    <3>2. \A c \in Chats : inbox'[c] \in Seq(Update)
      BY <2>5, <2>6
    <3> QED BY <3>1, <3>2
  <2>8. ASSUME NEW c \in Chats PROVE InboxMoves(c)
    BY <2>2, <2>4, <2>5 DEF InboxMoves
  <2> QED BY <1>3, <2>7, <2>8 DEF UpgradeGroup
<1>4. ASSUME NEW c \in Chats, TakeUpdate(c) PROVE Goal
  <2>1. /\ inbox[c] # <<>> /\ inbox' = [inbox EXCEPT ![c] = Tail(inbox[c])]
        /\ Tail(inbox[c]) \in Seq(Update)
    BY <1>4 DEF TakeUpdate
  <2>2. handler[c] = Idle /\ handler'[c].update = Head(inbox[c])
    BY <1>4 DEF TakeUpdate
  <2>3. handler'[c] # Idle
    <3> DEFINE u == Head(inbox[c])
    <3>1. u \in Update
      BY <2>1
    <3>2. Awaits(u.kind) \in Seq(Await) /\ <<"refuse">> \in Seq(Await)
      BY <3>1, AwaitsOrdered, RefuseOrdered DEF Ordered, Update
    <3>3. Right(u, members, botAdmin) \in BOOLEAN
      BY RightValue
    <3>4. handler'[c] \in Work
      BY <1>4, <3>1, <3>2, <3>3 DEF TakeUpdate, Work
    <3> QED BY <3>4, IdleAssumption
  <2>4. inbox' \in [Chats -> Seq(Update)]
    BY <2>1
  <2>5. \A d \in Chats : InboxMoves(d)
    BY <2>1, <2>2, <2>3 DEF InboxMoves, Busy
  <2> QED BY <1>4, <2>4, <2>5 DEF TakeUpdate, LastUpdate
<1>5. ASSUME NEW u \in Users, NEW c \in Chats, SendCommand(u, c) PROVE Goal
  BY <1>2, <1>5, HandlersAssumption DEF SendCommand, Kind, Ending, Taps
<1>6. ASSUME NEW u \in Users, NEW c \in Chats, Tap(u, c) PROVE Goal
  BY <1>2, <1>6, HandlersAssumption DEF Tap, Kind, Ending, Taps
<1>7. CASE Environment
  BY <1>1, <1>3, <1>5, <1>6, <1>7 DEF Environment, ChangeRights, ClaimAlert,
     SettleAlert
<1>8. ASSUME NEW c \in Chats, Handle(c) \/ GiveUp(c) PROVE Goal
  BY <1>1, <1>4, <1>8 DEF Handle, GiveUp, HandlerOnly, CountUser, CountChat, CheckBot, Load,
     CheckMember, ReadForCancel, Cancel, Insert, MigrateChat, Reply
<1>9. CASE UNCHANGED vars
  BY <1>1, <1>9 DEF vars
<1> QED BY <1>7, <1>8, <1>9 DEF Next

-----------------------------------------------------------------------------
(* Work0 is inductive.                                                     *)

LEMMA PlansStep ==
    ASSUME Work0, [Next]_vars
    PROVE  Plans'
<1> USE DEF Work0, TypeOK
<1> SUFFICES ASSUME NEW c \in Chats, Busy(c)' PROVE Planned(c)'
  BY DEF Plans
<1>1. Moves(c) /\ \A a \in Alerts : RowStep(a)
  BY HandlersStep, RowsStep DEF HandlerType
<1>3. CASE Busy(c) /\ Same(c) /\ handler'[c].todo = handler[c].todo
  BY <1>3 DEF Plans, Planned, Same
<1>4. CASE /\ ~Busy(c) /\ inbox[c] # <<>> /\ handler'[c].update = Head(inbox[c])
           /\ handler'[c].todo \in {<<"refuse">>, Awaits(Head(inbox[c]).kind)}
  <2>1. Head(inbox[c]).kind \in Kind
    <3>1. Head(inbox[c]) \in Update
      BY <1>4
    <3> QED BY <3>1 DEF Update
  <2>2. CASE handler'[c].todo = <<"refuse">>
    BY <2>2, RefuseOrdered DEF Planned
  <2>3. CASE handler'[c].todo = Awaits(Head(inbox[c]).kind)
    BY <1>4, <2>1, <2>3, AwaitsOrdered DEF Planned
  <2> QED BY <1>4, <2>2, <2>3
<1>5. CASE handler'[c].todo = <<"refuse">>
  BY <1>5, RefuseOrdered DEF Planned
<1>6. CASE /\ Busy(c) /\ Same(c) /\ Len(handler[c].todo) # 1
           /\ handler'[c].todo = Tail(handler[c].todo)
  <2> DEFINE s == handler[c].todo
             t == handler'[c].todo
  <2>1. Planned(c) /\ Ordered(s)
    BY <1>6 DEF Plans, Planned
  <2>2. /\ Ordered(t) /\ \A x : Has(t, x) => Has(s, x)
        /\ \A x : Has(s, x) /\ Head(s) # x => Has(t, x)
    <3> HIDE DEF Work0, TypeOK
    <3>1. Ordered(s) /\ Len(s) # 1 /\ t = Tail(s)
      BY <1>6, <2>1
    <3> HIDE DEF s, t
    <3> QED BY <3>1, TailOrdered
  <2>3. /\ Has(t, "migrate") => handler'[c].update.kind = "migration"
        /\ Has(t, "update") => handler'[c].update.kind \in Ending
    BY <1>6, <2>1, <2>2 DEF Planned, Same
  <2> QED BY <2>2, <2>3 DEF Planned
<1> QED BY <1>1, <1>3, <1>4, <1>5, <1>6 DEF Moves

LEMMA RestStep ==
    ASSUME Work0, [Next]_vars
    PROVE  /\ members' \subseteq Users /\ botAdmin' \in BOOLEAN
           /\ followed' \subseteq Chats
           /\ \A c \in Chats : c \in followed' \ followed => MigrateChat(c)
<1> USE DEF Work0, TypeOK
<1>1. CASE Environment
  BY <1>1 DEF Environment, SendCommand, Tap, Send, UpgradeGroup, ChangeRights,
     ClaimAlert, SettleAlert
<1>2. ASSUME NEW c \in Chats, Handle(c) \/ GiveUp(c)
      PROVE  /\ members' = members /\ botAdmin' = botAdmin
             /\ \/ followed' = followed
                \/ followed' = followed \cup {c} /\ MigrateChat(c)
  BY <1>2 DEF Handle, GiveUp, HandlerOnly, TakeUpdate, CountUser, CountChat, CheckBot, Load,
     CheckMember, ReadForCancel, Cancel, Insert, MigrateChat, Reply
<1>3. CASE UNCHANGED vars
  BY <1>3 DEF vars
<1> QED BY <1>1, <1>2, <1>3 DEF Next

LEMMA NamingStep ==
    ASSUME Work0, [Next]_vars
    PROVE  Named'
<1> USE DEF Work0, TypeOK
<1>1. \A c \in Chats : InboxMoves(c)
  BY InboxStep
<1>2. ASSUME NEW c \in Chats, NEW i \in 1 .. Len(inbox'[c]) PROVE Naming(inbox'[c][i])
  <2>1. CASE inbox'[c] = inbox[c]
    <3>1. i \in 1 .. Len(inbox[c]) /\ inbox'[c][i] = inbox[c][i]
      BY <1>2, <2>1
    <3> QED BY <3>1 DEF Named
  <2>2. CASE inbox[c] # <<>> /\ inbox'[c] = Tail(inbox[c])
    <3>1. i + 1 \in 1 .. Len(inbox[c]) /\ inbox'[c][i] = inbox[c][i + 1]
      BY <1>2, <2>2, HeadTailProperties
    <3> QED BY <3>1 DEF Named
  <2>3. ASSUME NEW u \in Update, NewUpdate(c, u), inbox'[c] = Append(inbox[c], u)
        PROVE  Naming(inbox'[c][i])
    <3>1. inbox'[c][i] = u \/ (i \in 1 .. Len(inbox[c]) /\ inbox'[c][i] = inbox[c][i])
      BY <1>2, <2>3, AppendProperties
    <3> QED BY <2>3, <3>1 DEF Named, NewUpdate
  <2> QED BY <1>1, <2>1, <2>2, <2>3 DEF InboxMoves
<1>3. ASSUME NEW c \in Chats, Busy(c)' PROVE Naming(handler'[c].update)
  <2>1. Moves(c)
    BY <1>3, HandlersStep DEF HandlerType
  <2>2. CASE Busy(c) /\ Same(c)
    BY <2>2 DEF Named, Same
  <2>3. CASE inbox[c] # <<>> /\ handler'[c].update = Head(inbox[c])
    <3>1. 1 \in 1 .. Len(inbox[c]) /\ Head(inbox[c]) = inbox[c][1]
      BY <2>3, EmptySeq, LenProperties
    <3> QED BY <2>3, <3>1 DEF Named
  <2> QED BY <2>1, <2>2, <2>3 DEF Moves
<1> QED BY <1>2, <1>3 DEF Named, Busy

LEMMA LastUpdateStep ==
    ASSUME Work0, [Next]_vars
    PROVE  LastUpdate'
<1> USE DEF Work0, TypeOK
<1>1. /\ upgraded' \in BOOLEAN /\ (upgraded => upgraded') /\ (upgraded' => CanUpgrade)
      /\ \A c \in Chats : InboxMoves(c)
      /\ \A c \in Chats : Busy(c)' => Moves(c)
  BY InboxStep, HandlersStep DEF HandlerType
<1>2. ASSUME upgraded, inbox["group"] = <<>>
      PROVE  inbox'["group"] = <<>>
  BY <1>1, <1>2 DEF InboxMoves, NewUpdate, Chats, Groups
<1>3. ASSUME NEW c \in Chats, NEW i \in 1 .. Len(inbox'[c]),
             inbox'[c][i].kind = "migration"
      PROVE  upgraded' /\ (c = "group" => i = Len(inbox'[c]))
  <2> DEFINE Last(j) == inbox[c][j].kind = "migration" =>
                           upgraded /\ (c = "group" => j = Len(inbox[c]))
  <2>0. /\ \A j \in 1 .. Len(inbox[c]) : Last(j)
        /\ inbox[c] \in Seq(Update) /\ Len(inbox[c]) \in Nat
    BY DEF LastUpdate
  <2>1. CASE inbox'[c] = inbox[c]
    BY <1>1, <1>3, <2>0, <2>1
  <2>2. CASE inbox[c] # <<>> /\ inbox'[c] = Tail(inbox[c])
    <3>1. /\ i + 1 \in 1 .. Len(inbox[c]) /\ inbox'[c][i] = inbox[c][i + 1]
          /\ Len(inbox'[c]) = Len(inbox[c]) - 1
      BY <2>0, <2>2, HeadTailProperties
    <3>2. Last(i + 1)
      BY <2>0, <3>1
    <3> QED BY <1>1, <1>3, <2>0, <3>1, <3>2
  <2>3. ASSUME NEW u \in Update, NewUpdate(c, u), inbox'[c] = Append(inbox[c], u)
        PROVE  upgraded' /\ (c = "group" => i = Len(inbox'[c]))
    <3>1. /\ Len(inbox'[c]) = Len(inbox[c]) + 1
          /\ \/ i = Len(inbox[c]) + 1 /\ inbox'[c][i] = u
             \/ i \in 1 .. Len(inbox[c]) /\ inbox'[c][i] = inbox[c][i]
      BY <2>0, <2>3, AppendProperties
    <3>2. CASE i = Len(inbox[c]) + 1 /\ inbox'[c][i] = u
      BY <1>3, <2>3, <3>1, <3>2 DEF NewUpdate
    <3>3. CASE i \in 1 .. Len(inbox[c]) /\ inbox'[c][i] = inbox[c][i]
      <4>1. Last(i)
        BY <2>0, <3>3
      <4> QED BY <1>1, <1>3, <2>3, <3>3, <4>1 DEF NewUpdate
    <3> QED BY <3>1, <3>2, <3>3
  <2> QED BY <1>1, <2>1, <2>2, <2>3 DEF InboxMoves
<1>4. ASSUME NEW c \in Chats, Busy(c)', handler'[c].update.kind = "migration"
      PROVE  upgraded' /\ (c = "group" => inbox'[c] = <<>>)
  <2>1. CASE Busy(c) /\ Same(c)
    BY <1>1, <1>2, <1>4, <2>1 DEF LastUpdate, Same
  <2>2. CASE inbox[c] # <<>> /\ inbox'[c] = Tail(inbox[c])
             /\ handler'[c].update = Head(inbox[c])
    <3>1. 1 \in 1 .. Len(inbox[c]) /\ Head(inbox[c]) = inbox[c][1]
      BY <2>2, EmptySeq, LenProperties
    <3>2. upgraded /\ (c = "group" => Len(inbox[c]) = 1)
      BY <1>4, <2>2, <3>1 DEF LastUpdate
    <3>3. Len(inbox[c]) = 1 => Tail(inbox[c]) = <<>>
      BY NothingLeft
    <3> QED BY <1>1, <2>2, <3>2, <3>3
  <2> QED BY <1>1, <1>4, <2>1, <2>2 DEF Moves
<1>5. ASSUME "group" \in followed'
      PROVE  upgraded' /\ inbox'["group"] = <<>> /\ ~Busy("group")'
  <2>0. "group" \in Chats
    BY DEF Chats, Groups
  <2>1. CASE "group" \in followed
    <3>1. upgraded /\ inbox["group"] = <<>> /\ ~Busy("group")
      BY <2>1 DEF LastUpdate
    <3> QED BY <1>1, <1>2, <2>0, <3>1 DEF Moves
  <2>2. CASE "group" \notin followed
    <3> DEFINE h == handler["group"]
    <3>1. At("group", "migrate") /\ Done("group")
      BY <1>5, <2>0, <2>2, RestStep DEF MigrateChat
    <3>2. Busy("group") /\ Planned("group") /\ Head(h.todo) = "migrate"
      BY <2>0, <3>1 DEF At, Busy, Plans
    <3>3. Ordered(h.todo) /\ Has(h.todo, "migrate")
      BY <3>2, HeadHas DEF Planned, Ordered
    <3>4. h.update.kind = "migration" /\ Len(h.todo) = 1
      BY <3>2, <3>3 DEF Planned, Ordered
    <3>5. upgraded /\ inbox["group"] = <<>>
      BY <2>0, <3>2, <3>4 DEF LastUpdate
    <3>6. handler'["group"] = Idle
      BY <2>0, <3>1, <3>4 DEF Done
    <3> QED BY <1>1, <1>2, <3>5, <3>6 DEF Busy
  <2> QED BY <2>1, <2>2
<1> QED BY <1>1, <1>3, <1>4, <1>5 DEF LastUpdate, Busy

LEMMA InitWork == Init => Work0
<1> SUFFICES ASSUME Init PROVE Work0
  OBVIOUS
<1>1. NoRow \in Row /\ NoRow.state = "none"
  BY HandlersAssumption DEF NoRow, Row, State, Scope, Chats, Groups
<1>2. \A c \in Chats : inbox[c] = <<>> /\ handler[c] = Idle
  BY DEF Init
<1>3. TypeOK
  <2>1. table \in [Alerts -> Row] /\ inbox \in [Chats -> Seq(Update)]
    BY <1>1 DEF Init
  <2>2. handler \in [Chats -> Work \cup {Idle}]
    BY DEF Init
  <2>3. 0 \in 0 .. MaxUpdates
    BY HandlersAssumption
  <2> QED BY <1>2, <2>1, <2>2, <2>3 DEF Init, TypeOK
<1>4. Named /\ Plans
  BY <1>2 DEF Init, Named, Plans, Busy
<1>5. LastUpdate
  <2>1. ~upgraded /\ followed = {}
    BY DEF Init
  <2>2. \A c \in Chats : 1 .. Len(inbox[c]) = {}
    BY <1>2
  <2> QED BY <1>2, <2>1, <2>2 DEF LastUpdate, Busy
<1> QED BY <1>3, <1>4, <1>5 DEF Work0

LEMMA WorkStep ==
    ASSUME Work0, [Next]_vars
    PROVE  Work0'
<1>1. TypeOK'
  <2>1. \A c \in Chats : handler'[c] # Idle => handler'[c].todo # <<>>
    BY PlansStep DEF Plans, Busy, Planned, Ordered
  <2> QED BY <2>1, HandlersStep, RowsStep, InboxStep, RestStep
          DEF Work0, TypeOK, HandlerType
<1> QED BY <1>1, NamingStep, PlansStep, LastUpdateStep DEF Work0

\* Type correctness, and a handler at work has an await left: whatever users
\* send, however Telegram and the worker step in.
THEOREM HandlersTyped == Spec => []TypeOK
<1>1. Work0 => TypeOK
  BY DEF Work0
<1> QED BY InitWork, WorkStep, <1>1, PTL DEF Spec

-----------------------------------------------------------------------------
(* The rows that count.                                                    *)

CountedHere(c) == c # "supergroup"

LEMMA ActiveFinite ==
    /\ \A c : IsFiniteSet(ActiveInChat(c)) /\ IsFiniteSet(ActiveInChat(c)')
    /\ \A u : IsFiniteSet(ActiveOfUser(u)) /\ IsFiniteSet(ActiveOfUser(u)')
BY HandlersAssumption, FS_Subset DEF ActiveInChat, ActiveOfUser

LEMMA ActiveStep ==
    ASSUME Work0, [Next]_vars, NEW a \in Alerts
    PROVE  \/ /\ \A c \in Chats \ {"supergroup"} : a \in ActiveInChat(c)' => a \in ActiveInChat(c)
              /\ \A u : a \in ActiveOfUser(u)' => a \in ActiveOfUser(u)
           \/ /\ table[a].state = "none"
              /\ \E c \in Chats : Insert(c, a) /\ table'[a].chat = c
                                  /\ table'[a].owner = handler[c].update.user
<1>1. RowStep(a) /\ table[a] \in Row
  BY RowsStep DEF Work0, TypeOK
<1> QED BY <1>1 DEF RowStep, Row, ActiveInChat, ActiveOfUser

LEMMA InsertEffect ==
    ASSUME Work0, NEW c \in Chats, NEW a \in Alerts, Insert(c, a)
    PROVE  /\ Busy(c) /\ Busy(c)' /\ Same(c) /\ Others(c)
           /\ Has(handler[c].todo, "insert") /\ ~Has(handler[c].todo, "count_user")
           /\ ~Has(handler[c].todo, "count_chat")
           /\ ~Has(handler'[c].todo, "insert")
           /\ table[a].state = "none" /\ \A b \in Alerts \ {a} : table'[b] = table[b]
<1> DEFINE h == handler[c]
<1>1. Busy(c) /\ Head(h.todo) = "insert" /\ h \in Work
  BY DEF Insert, At, Busy, Work0, TypeOK
<1>2. Ordered(h.todo)
  BY <1>1 DEF Work0, Plans, Planned
<1>3. Len(h.todo) # 1
  BY <1>1, <1>2 DEF Ordered
<1>4. Tail(h.todo) \in Seq(Await) /\ ~Has(Tail(h.todo), "insert")
  BY <1>1, <1>2, <1>3, TailOrdered DEF Ordered
<1>5. handler' = [handler EXCEPT ![c] = [h EXCEPT !.todo = Tail(h.todo)]]
  BY <1>3 DEF Insert, Done, Work0, TypeOK
<1>6. [h EXCEPT !.todo = Tail(h.todo)] \in Work
  BY <1>1, <1>4 DEF Work
<1>7. /\ handler'[c].todo = Tail(h.todo) /\ Same(c) /\ Others(c) /\ handler'[c] \in Work
  BY <1>1, <1>5, <1>6 DEF Same, Others, Work, Work0, TypeOK
<1>8. /\ Has(h.todo, "insert") /\ ~Has(h.todo, "count_user") /\ ~Has(h.todo, "count_chat")
  BY <1>1, <1>2, HeadFirst DEF Ordered
<1>9. table[a].state = "none" /\ \A b \in Alerts \ {a} : table'[b] = table[b]
  BY DEF Insert, Work0, TypeOK
<1> QED BY <1>1, <1>4, <1>7, <1>8, <1>9, IdleAssumption DEF Busy

-----------------------------------------------------------------------------
(* What the awaits that are done have shown, still holds.                  *)

Checked == \A c \in Chats : Busy(c) => Shown(c)

\* What is left to do after a step was left to do before it.
LEMMA TodoStep ==
    ASSUME Work0, [Next]_vars, NEW c \in Chats, Busy(c)', NEW x, Has(handler'[c].todo, x),
           x # "refuse"
    PROVE  \/ /\ Busy(c) /\ Same(c) /\ Has(handler[c].todo, x)
              /\ handler[c].entitled => handler'[c].entitled
              /\ \A y : Has(handler[c].todo, y) /\ ~Has(handler'[c].todo, y) =>
                           Head(handler[c].todo) = y /\ Passable(c)
           \/ /\ ~Busy(c) /\ handler'[c].update = Head(inbox[c]) /\ inbox[c] # <<>>
              /\ handler'[c].todo = Awaits(Head(inbox[c]).kind)
<1>1. Moves(c)
  BY HandlersStep DEF Work0, TypeOK, HandlerType
<1>2. ~Has(<<"refuse">>, x)
  BY RefuseOrdered
<1>3. CASE /\ Busy(c) /\ Same(c)
           /\ handler'[c].todo = handler[c].todo
           /\ \/ UNCHANGED <<members, botAdmin>> /\ handler'[c].entitled = handler[c].entitled
              \/ handler'[c].entitled =
                    (handler[c].entitled \/ Right(handler[c].update, members', botAdmin'))
  BY <1>3
<1>4. CASE /\ Busy(c) /\ Same(c) /\ UNCHANGED <<members, botAdmin>>
           /\ handler'[c].entitled = handler[c].entitled
           /\ Len(handler[c].todo) # 1 /\ handler'[c].todo = Tail(handler[c].todo)
           /\ Passable(c)
  <2>1. Ordered(handler[c].todo)
    BY <1>4 DEF Work0, Plans, Planned
  <2>2. /\ \A y : Has(Tail(handler[c].todo), y) => Has(handler[c].todo, y)
        /\ \A y : Has(handler[c].todo, y) /\ Head(handler[c].todo) # y =>
                     Has(Tail(handler[c].todo), y)
    BY <1>4, <2>1, TailOrdered
  <2> QED BY <1>4, <2>2
<1> QED BY <1>1, <1>2, <1>3, <1>4 DEF Moves

\* The right is remembered when it holds.
LEMMA EntitledStep ==
    ASSUME Work0, Checked, [Next]_vars, NEW c \in Chats, Busy(c)'
    PROVE  Right(handler'[c].update, members', botAdmin') => handler'[c].entitled
<1>1. Moves(c)
  BY HandlersStep DEF Work0, TypeOK, HandlerType
<1>2. Busy(c) => (Right(handler[c].update, members, botAdmin) => handler[c].entitled)
  BY DEF Checked, Shown
<1> QED BY <1>1, <1>2 DEF Moves, Same

LEMMA ChatCountStep ==
    ASSUME Work0, [Next]_vars, NEW c \in Chats \ {"supergroup"}
    PROVE  \/ /\ ActiveInChat(c)' \subseteq ActiveInChat(c)
              /\ Cardinality(ActiveInChat(c)') <= Cardinality(ActiveInChat(c))
           \/ /\ \E a \in Alerts : Insert(c, a)
              /\ Cardinality(ActiveInChat(c)') <= Cardinality(ActiveInChat(c)) + 1
<1> DEFINE before == ActiveInChat(c)
           after == ActiveInChat(c)'
<1>1. IsFiniteSet(before) /\ IsFiniteSet(after) /\ after \subseteq Alerts
  BY ActiveFinite DEF ActiveInChat
<1>2. CASE after \subseteq before
  BY <1>1, <1>2, FS_Subset
<1>3. ASSUME NEW a \in after, a \notin before
      PROVE  Insert(c, a) /\ Cardinality(after) <= Cardinality(before) + 1
  <2>1. a \in Alerts
    BY <1>1, <1>3
  <2>2. Insert(c, a)
    BY <1>3, <2>1, ActiveStep DEF ActiveInChat
  <2>3. \A b \in Alerts \ {a} : table'[b] = table[b]
    BY <2>1, <2>2, InsertEffect
  <2>4. after \subseteq before \cup {a}
    BY <2>3 DEF ActiveInChat
  <2> HIDE DEF before, after
  <2>5. /\ IsFiniteSet(before \cup {a})
        /\ Cardinality(before \cup {a}) = Cardinality(before) + 1
    BY <1>1, <1>3, FS_AddElement
  <2>6. Cardinality(after) <= Cardinality(before \cup {a})
    BY <2>4, <2>5, FS_Subset
  <2> QED BY <2>2, <2>5, <2>6
<1> QED BY <1>1, <1>2, <1>3

LEMMA ShownStep ==
    ASSUME Work0, Checked, [Next]_vars
    PROVE  Checked'
<1> SUFFICES ASSUME NEW c \in Chats, Busy(c)' PROVE Shown(c)'
  BY DEF Checked
<1> DEFINE old == handler[c]
           new == handler'[c]
           a == new.update.alert
<1>1. Right(new.update, members', botAdmin') => new.entitled
  BY EntitledStep
<1>2. Busy(c) => Naming(old.update) /\ old.update \in Update
                 /\ Shown(c) /\ Planned(c) /\ old \in Work
  BY DEF Work0, Named, Checked, Plans, TypeOK, Busy, Work
<1>3. ASSUME Busy(c), Same(c), a # NoAlert, InReach(c, table[a])
      PROVE  InReach(c, table'[a]) /\ table'[a].scope = table[a].scope
  <2>1. a \in Alerts /\ table[a].state # "none"
    BY <1>2, <1>3 DEF InReach, Same, Update
  <2>2. RowStep(a) /\ table[a] \in Row
    BY <2>1, RowsStep DEF Work0, TypeOK
  <2> QED BY <1>3, <2>1, <2>2, RowKept DEF InReach
<1>4. ASSUME ~Busy(c), inbox[c] # <<>>, new.update = Head(inbox[c])
      PROVE  new.update \in Update /\ new.update.kind \in Kind /\ Naming(new.update)
  <2>1. 1 \in 1 .. Len(inbox[c]) /\ Head(inbox[c]) = inbox[c][1]
    BY <1>4, EmptySeq, LenProperties DEF Work0, TypeOK
  <2>2. Head(inbox[c]) \in Update
    BY <1>4 DEF Work0, TypeOK
  <2> QED BY <1>4, <2>1, <2>2 DEF Work0, Named, Update
<1>5. new.update.kind = "galert" /\ Has(new.todo, "insert") /\ ~Has(new.todo, "bot_admin") =>
         new.entitled
  <2> SUFFICES ASSUME new.update.kind = "galert", Has(new.todo, "insert"),
                      ~Has(new.todo, "bot_admin")
               PROVE  new.entitled
    OBVIOUS
  <2>1. CASE ~Busy(c)
    BY <1>4, <2>1, TodoStep, AwaitsOrdered
  <2>2. CASE Busy(c)
    <3>1. /\ Same(c) /\ Has(old.todo, "insert") /\ (old.entitled => new.entitled)
          /\ Has(old.todo, "bot_admin") =>
                Head(old.todo) = "bot_admin" /\ Passable(c)
      BY <2>2, TodoStep
    <3>2. CASE Has(old.todo, "bot_admin")
      <4>1. botAdmin
        BY <3>1, <3>2 DEF Passable
      <4>2. Right(old.update, members, botAdmin)
        BY <3>1, <4>1 DEF Right, Same
      <4> QED BY <1>2, <2>2, <3>1, <4>2 DEF Shown
    <3>3. CASE ~Has(old.todo, "bot_admin")
      BY <1>2, <2>2, <3>1, <3>3 DEF Shown, Same
    <3> QED BY <3>2, <3>3
  <2> QED BY <2>1, <2>2
<1>6. a # NoAlert /\ (Has(new.todo, "insert") \/ Has(new.todo, "update"))
         /\ ~Has(new.todo, "member") /\ table'[a].scope = "shared" => new.entitled
  <2> SUFFICES ASSUME a # NoAlert, NEW x \in {"insert", "update"}, Has(new.todo, x),
                      ~Has(new.todo, "member"), table'[a].scope = "shared"
               PROVE  new.entitled
    OBVIOUS
  <2>1. CASE ~Busy(c)
    <3>1. new.todo = Awaits(new.update.kind) /\ new.update.kind \in Ending \cup Taps
      BY <1>4, <2>1, TodoStep DEF Naming
    <3> QED BY <1>4, <2>1, <3>1, AwaitsOrdered, TodoStep
  <2>2. CASE Busy(c)
    <3>1. /\ Same(c) /\ Has(old.todo, x) /\ (old.entitled => new.entitled)
          /\ Has(old.todo, "member") => Head(old.todo) = "member" /\ Passable(c)
      BY <2>2, TodoStep
    <3>2. ~Has(old.todo, "load") /\ a = old.update.alert
      <4>1. ~Has(new.todo, "load") /\ Ordered(old.todo)
        BY <1>2, <2>2, PlansStep DEF Plans, Planned, Ordered, Work0
      <4>2. Has(old.todo, "load") => Head(old.todo) = "load" /\ Has(old.todo, "member")
        BY <2>2, <3>1, <4>1, TodoStep DEF Ordered
      <4> QED BY <3>1, <4>2 DEF Same
    <3>3. table[a].scope = "shared"
      <4>1. InReach(c, table[a])
        BY <1>2, <2>2, <3>1, <3>2 DEF Shown
      <4> QED BY <1>3, <2>2, <3>1, <4>1
    <3>4. CASE Has(old.todo, "member")
      <4>1. old.update.user \in members
        BY <3>1, <3>2, <3>3, <3>4 DEF Passable
      <4>2. old.update.kind # "galert"
        BY <1>2, <2>2, <3>2 DEF Naming, Ending, Taps
      <4>3. Right(old.update, members, botAdmin)
        BY <4>1, <4>2 DEF Right
      <4> QED BY <1>2, <2>2, <3>1, <4>3 DEF Shown
    <3>5. CASE ~Has(old.todo, "member")
      BY <1>2, <2>2, <3>1, <3>2, <3>3, <3>5 DEF Shown
    <3> QED BY <3>4, <3>5
  <2> QED BY <2>1, <2>2
<1>7. a # NoAlert /\ (Has(new.todo, "insert") \/ Has(new.todo, "update"))
         /\ ~Has(new.todo, "load") => InReach(c, table'[a])
  <2> SUFFICES ASSUME a # NoAlert, NEW x \in {"insert", "update"}, Has(new.todo, x),
                      ~Has(new.todo, "load")
               PROVE  InReach(c, table'[a])
    OBVIOUS
  <2>1. CASE ~Busy(c)
    <3>1. new.todo = Awaits(new.update.kind) /\ new.update.kind \in Ending \cup Taps
      BY <1>4, <2>1, TodoStep DEF Naming
    <3> QED BY <1>4, <2>1, <3>1, AwaitsOrdered, TodoStep
  <2>2. CASE Busy(c)
    <3>1. /\ Same(c) /\ Has(old.todo, x)
          /\ Has(old.todo, "load") => Head(old.todo) = "load" /\ Passable(c)
      BY <2>2, TodoStep
    <3>2. InReach(c, table[a])
      BY <1>2, <2>2, <3>1 DEF Shown, Passable, InReach, Same
    <3> QED BY <1>3, <2>2, <3>1, <3>2
  <2> QED BY <2>1, <2>2
<1>8. Has(new.todo, "insert") /\ ~Has(new.todo, "count_chat") /\ c # "supergroup" =>
         Cardinality(ActiveInChat(c)') < MaxAlertsPerChat
  <2> SUFFICES ASSUME Has(new.todo, "insert"), ~Has(new.todo, "count_chat"),
                      c # "supergroup"
               PROVE  Cardinality(ActiveInChat(c)') < MaxAlertsPerChat
    OBVIOUS
  <2>1. CASE ~Busy(c)
    BY <1>4, <2>1, TodoStep, AwaitsOrdered
  <2>2. CASE Busy(c)
    <3>1. /\ Has(old.todo, "insert")
          /\ Has(old.todo, "count_chat") => Head(old.todo) = "count_chat" /\ Passable(c)
      BY <2>2, TodoStep
    <3>2. Cardinality(ActiveInChat(c)) < MaxAlertsPerChat
      BY <1>2, <2>2, <3>1 DEF Shown, Passable
    <3>3. \A b \in Alerts : ~Insert(c, b)
      BY InsertEffect
    <3>4. Cardinality(ActiveInChat(c)') <= Cardinality(ActiveInChat(c))
      BY <3>3, ChatCountStep
    <3>5. /\ Cardinality(ActiveInChat(c)) \in Nat /\ Cardinality(ActiveInChat(c)') \in Nat
          /\ MaxAlertsPerChat \in Nat
      BY ActiveFinite, FS_CardinalityType, HandlersAssumption
    <3> QED BY <3>2, <3>4, <3>5
  <2> QED BY <2>1, <2>2
<1> QED BY <1>1, <1>5, <1>6, <1>7, <1>8 DEF Shown, InReach

-----------------------------------------------------------------------------
(* The quotas.                                                             *)

LEMMA ChatQuotaStep ==
    ASSUME Work0, Checked, ChatQuota, [Next]_vars
    PROVE  ChatQuota'
<1> SUFFICES ASSUME NEW c \in Chats \ {"supergroup"}
             PROVE  Cardinality(ActiveInChat(c)') <= MaxAlertsPerChat
  BY DEF ChatQuota
<1> DEFINE n == Cardinality(ActiveInChat(c))
           m == Cardinality(ActiveInChat(c)')
<1>1. n \in Nat /\ m \in Nat /\ MaxAlertsPerChat \in Nat /\ n <= MaxAlertsPerChat
  BY ActiveFinite, FS_CardinalityType, HandlersAssumption DEF ChatQuota
<1>2. ASSUME m <= n PROVE m <= MaxAlertsPerChat
  <2> HIDE DEF n, m
  <2> QED BY <1>1, <1>2
<1>3. ASSUME NEW a \in Alerts, Insert(c, a), m <= n + 1
      PROVE  m <= MaxAlertsPerChat
  <2>1. /\ Busy(c) /\ Has(handler[c].todo, "insert")
        /\ ~Has(handler[c].todo, "count_chat")
    BY <1>3, InsertEffect
  <2>2. n < MaxAlertsPerChat
    BY <2>1 DEF Checked, Shown
  <2> HIDE DEF n, m
  <2> QED BY <1>1, <1>3, <2>2
<1> QED BY <1>2, <1>3, ChatCountStep

\* The handlers that have passed the user quota and not yet inserted: what
\* they add comes on top of what was counted.
Waiting(u) ==
    {c \in Chats : /\ Busy(c) /\ handler[c].update.user = u
                   /\ Has(handler[c].todo, "insert")
                   /\ ~Has(handler[c].todo, "count_user")}

UserSlack ==
    \A u \in Users :
        Cardinality(ActiveOfUser(u)) + Cardinality(Waiting(u)) <=
            MaxAlertsPerUser + Cardinality(Chats) - 1

LEMMA ChatsFinite == IsFiniteSet(Chats) /\ Cardinality(Chats) \in Nat \ {0}
<1>1. IsFiniteSet(Groups)
  <2>1. IsFiniteSet({"group"}) /\ IsFiniteSet({"supergroup"})
    BY FS_Singleton
  <2>2. IsFiniteSet({"group"} \cup {"supergroup"})
    BY <2>1, FS_Union
  <2> QED BY <2>2, FS_Subset DEF Groups
<1>2. IsFiniteSet(Chats)
  BY <1>1, FS_Union, HandlersAssumption DEF Chats
<1>3. Chats # {}
  BY DEF Chats, Groups
<1> QED BY <1>2, <1>3, FS_CardinalityType, FS_EmptySet

LEMMA WaitingFinite ==
    ASSUME NEW u
    PROVE  /\ IsFiniteSet(Waiting(u)) /\ IsFiniteSet(Waiting(u)')
           /\ Cardinality(Waiting(u)) \in 0 .. Cardinality(Chats)
           /\ Cardinality(Waiting(u)') \in 0 .. Cardinality(Chats)
<1>1. Waiting(u) \subseteq Chats /\ Waiting(u)' \subseteq Chats
  BY DEF Waiting
<1> QED BY <1>1, ChatsFinite, FS_Subset, FS_CardinalityType

\* Who newly waits has just counted.
LEMMA WaitingStep ==
    ASSUME Work0, [Next]_vars, NEW u, NEW c \in Waiting(u)', c \notin Waiting(u)
    PROVE  Cardinality(ActiveOfUser(u)) < MaxAlertsPerUser
<1> DEFINE old == handler[c]
           new == handler'[c]
<1>1. /\ c \in Chats /\ Busy(c)' /\ new.update.user = u
      /\ Has(new.todo, "insert") /\ ~Has(new.todo, "count_user")
  BY DEF Waiting, Busy
<1>2. CASE ~Busy(c)
  <2>1. new.todo = Awaits(Head(inbox[c]).kind) /\ inbox[c] # <<>>
    BY <1>1, <1>2, TodoStep
  <2>2. Head(inbox[c]) \in Update
    BY <1>1, <2>1 DEF Work0, TypeOK
  <2>3. Head(inbox[c]).kind \in Kind
    BY <2>2 DEF Update
  <2> QED BY <1>1, <2>1, <2>3, AwaitsOrdered
<1>3. CASE Busy(c)
  <2>1. /\ Same(c) /\ Has(old.todo, "insert")
        /\ Has(old.todo, "count_user") => Head(old.todo) = "count_user" /\ Passable(c)
    BY <1>1, <1>3, TodoStep
  <2>2. Has(old.todo, "count_user") /\ old.update.user = u
    BY <1>1, <1>3, <2>1 DEF Waiting, Same
  <2> QED BY <2>1, <2>2 DEF Passable
<1> QED BY <1>2, <1>3

LEMMA UserSlackStep ==
    ASSUME Work0, UserSlack, [Next]_vars
    PROVE  UserSlack'
<1> SUFFICES ASSUME NEW u \in Users
             PROVE  Cardinality(ActiveOfUser(u)') + Cardinality(Waiting(u)') <=
                        MaxAlertsPerUser + Cardinality(Chats) - 1
  BY DEF UserSlack
<1> DEFINE active == ActiveOfUser(u)
           active1 == ActiveOfUser(u)'
           waiting == Waiting(u)
           waiting1 == Waiting(u)'
           k == Cardinality(Chats)
<1>1. /\ IsFiniteSet(active) /\ IsFiniteSet(active1)
      /\ IsFiniteSet(waiting) /\ IsFiniteSet(waiting1)
      /\ Cardinality(active) \in Nat /\ Cardinality(active1) \in Nat
      /\ Cardinality(waiting) \in 0 .. k /\ Cardinality(waiting1) \in 0 .. k
      /\ k \in Nat \ {0} /\ MaxAlertsPerUser \in Nat
  BY ActiveFinite, WaitingFinite, ChatsFinite, FS_CardinalityType, HandlersAssumption
<1>2. Cardinality(active) + Cardinality(waiting) <= MaxAlertsPerUser + k - 1
  BY DEF UserSlack
<1>3. ASSUME NEW d \in Chats, NEW a \in Alerts, Insert(d, a), handler[d].update.user = u
      PROVE  Cardinality(active1) + Cardinality(waiting1) <= MaxAlertsPerUser + k - 1
  <2>1. /\ d \in waiting /\ d \notin waiting1 /\ a \notin active
        /\ \A b \in Alerts \ {a} : table'[b] = table[b]
    BY <1>3, InsertEffect DEF Waiting, Active, ActiveOfUser
  <2>2. active1 \subseteq active \cup {a}
    BY <2>1 DEF ActiveOfUser
  <2>3. waiting1 \subseteq waiting \ {d}
    <3>1. Others(d)
      BY <1>3, InsertEffect
    <3>2. \A c \in Chats \ {d} : c \in waiting1 => c \in waiting
      BY <3>1 DEF Others, Waiting, Busy
    <3> QED BY <2>1, <3>2 DEF Waiting
  <2> HIDE DEF active, active1, waiting, waiting1, k
  <2>4. Cardinality(active1) <= Cardinality(active) + 1
    <3>1. /\ IsFiniteSet(active \cup {a})
          /\ Cardinality(active \cup {a}) = Cardinality(active) + 1
      BY <1>1, <2>1, FS_AddElement
    <3>2. Cardinality(active1) <= Cardinality(active \cup {a})
      BY <2>2, <3>1, FS_Subset
    <3> QED BY <3>1, <3>2
  <2>5. Cardinality(waiting1) <= Cardinality(waiting) - 1
    <3>1. /\ IsFiniteSet(waiting \ {d})
          /\ Cardinality(waiting \ {d}) = Cardinality(waiting) - 1
      BY <1>1, <2>1, FS_RemoveElement
    <3>2. Cardinality(waiting1) <= Cardinality(waiting \ {d})
      BY <2>3, <3>1, FS_Subset
    <3> QED BY <3>1, <3>2
  <2> QED BY <1>1, <1>2, <2>4, <2>5
<1>4. ASSUME \A d \in Chats, a \in Alerts : Insert(d, a) => handler[d].update.user # u
      PROVE  Cardinality(active1) + Cardinality(waiting1) <= MaxAlertsPerUser + k - 1
  <2>1. active1 \subseteq active
    <3>1. \A a \in Alerts : a \in active1 => a \in active
      BY <1>4, ActiveStep DEF ActiveOfUser
    <3> QED BY <3>1 DEF ActiveOfUser
  <2>2. Cardinality(active1) <= Cardinality(active)
    BY <1>1, <2>1, FS_Subset
  <2>3. ASSUME waiting1 \subseteq waiting
        PROVE  Cardinality(active1) + Cardinality(waiting1) <= MaxAlertsPerUser + k - 1
    <3>1. Cardinality(waiting1) <= Cardinality(waiting)
      BY <1>1, <2>3, FS_Subset
    <3> HIDE DEF active, active1, waiting, waiting1, k
    <3> QED BY <1>1, <1>2, <2>2, <3>1
  <2>4. ASSUME NEW c \in waiting1, c \notin waiting
        PROVE  Cardinality(active1) + Cardinality(waiting1) <= MaxAlertsPerUser + k - 1
    <3>1. Cardinality(active) < MaxAlertsPerUser
      BY <2>4, WaitingStep
    <3> HIDE DEF active, active1, waiting, waiting1, k
    <3> QED BY <1>1, <2>2, <3>1
  <2> QED BY <2>3, <2>4
<1> QED BY <1>3, <1>4

-----------------------------------------------------------------------------
(* The old group.                                                          *)

LEMMA OldGroupStep ==
    ASSUME Work0, OldGroupStaysEmpty, [Next]_vars
    PROVE  OldGroupStaysEmpty'
<1> SUFFICES ASSUME "group" \in followed', NEW a \in Alerts, table'[a].state # "none"
             PROVE  table'[a].chat # "group"
  BY DEF OldGroupStaysEmpty
<1>1. RowStep(a) /\ table[a] \in Row
  BY RowsStep DEF Work0, TypeOK
<1>2. CASE "group" \in followed
  <2>1. ~Busy("group")
    BY <1>2 DEF Work0, LastUpdate
  <2>2. \A c \in Chats : Insert(c, a) => c # "group"
    BY <2>1, InsertEffect
  <2>3. table[a].state # "none" => table[a].chat # "group"
    BY <1>2 DEF OldGroupStaysEmpty
  <2> QED BY <1>1, <2>2, <2>3 DEF RowStep, Row
<1>3. CASE "group" \notin followed
  <2>1. "group" \in Chats /\ "group" \in Groups
    BY DEF Chats, Groups
  <2>2. MigrateChat("group")
    BY <1>3, <2>1, RestStep
  <2> QED BY <1>1, <2>1, <2>2 DEF MigrateChat, MovesRows, Row
<1> QED BY <1>2, <1>3

-----------------------------------------------------------------------------
(* The theorems.                                                           *)

HandlersInv == Work0 /\ Checked /\ ChatQuota /\ UserSlack /\ OldGroupStaysEmpty

LEMMA HandlersInvInit == Init => HandlersInv
<1> SUFFICES ASSUME Init PROVE HandlersInv
  OBVIOUS
<1>1. Work0
  BY InitWork
<1>2. \A c \in Chats : handler[c] = Idle
  BY DEF Init
<1>3. \A a \in Alerts : table[a].state = "none"
  BY DEF Init, NoRow
<1>4. /\ \A c : ActiveInChat(c) = {}
      /\ \A u : ActiveOfUser(u) = {} /\ Waiting(u) = {}
  BY <1>2, <1>3 DEF ActiveInChat, ActiveOfUser, Active, Waiting, Busy
<1>5. ChatQuota
  BY <1>4, FS_EmptySet, HandlersAssumption DEF ChatQuota
<1>6. UserSlack
  <2>1. Cardinality(Chats) \in Nat \ {0} /\ MaxAlertsPerUser \in Nat
    BY ChatsFinite, HandlersAssumption
  <2>2. 0 + 0 <= MaxAlertsPerUser + Cardinality(Chats) - 1
    BY <2>1
  <2>3. ASSUME NEW u
        PROVE  Cardinality(ActiveOfUser(u)) = 0 /\ Cardinality(Waiting(u)) = 0
    BY <1>4, FS_EmptySet
  <2> QED BY <2>2, <2>3 DEF UserSlack
<1>7. Checked
  BY <1>2 DEF Checked, Busy
<1>8. OldGroupStaysEmpty
  BY DEF Init, OldGroupStaysEmpty
<1> QED BY <1>1, <1>5, <1>6, <1>7, <1>8 DEF HandlersInv

LEMMA HandlersInvStep ==
    ASSUME HandlersInv, [Next]_vars
    PROVE  HandlersInv'
BY WorkStep, ShownStep, ChatQuotaStep, UserSlackStep, OldGroupStep DEF HandlersInv

LEMMA HandlersInvariant == Spec => []HandlersInv
BY HandlersInvInit, HandlersInvStep, PTL DEF Spec

\* No chat but the supergroup ever has more active alerts than its quota: a
\* handler that has counted is the only one that inserts into its chat.
THEOREM ChatQuotaHolds == Spec => []ChatQuota
<1>1. HandlersInv => ChatQuota
  BY DEF HandlersInv
<1> QED BY HandlersInvariant, <1>1, PTL

\* A user exceeds the quota by at most one alert for each chat but one.
THEOREM UserQuotaBounded == Spec => []UserQuotaOvershoot
<1>1. ASSUME HandlersInv PROVE UserQuotaOvershoot
  <2> SUFFICES ASSUME NEW u \in Users
               PROVE  Cardinality(ActiveOfUser(u)) <=
                          MaxAlertsPerUser + Cardinality(Chats) - 1
    BY DEF UserQuotaOvershoot
  <2>1. Cardinality(ActiveOfUser(u)) + Cardinality(Waiting(u)) <=
            MaxAlertsPerUser + Cardinality(Chats) - 1
    BY <1>1 DEF HandlersInv, UserSlack
  <2>2. /\ Cardinality(ActiveOfUser(u)) \in Nat /\ Cardinality(Waiting(u)) \in Nat
        /\ Cardinality(Chats) \in Nat /\ MaxAlertsPerUser \in Nat
    BY ActiveFinite, WaitingFinite, ChatsFinite, FS_CardinalityType, HandlersAssumption
  <2> QED BY <2>1, <2>2
<1> QED BY HandlersInvariant, <1>1, PTL

\* Nothing is left in a group that Telegram has replaced.
THEOREM OldGroupEmpty == Spec => []OldGroupStaysEmpty
<1>1. HandlersInv => OldGroupStaysEmpty
  BY DEF HandlersInv
<1> QED BY HandlersInvariant, <1>1, PTL

\* The only steps of a handler that change the table.
LEMMA Writers ==
    ASSUME Work0, [Next]_vars, NEW c \in Chats, Writing(c)
    PROVE  Cancel(c) \/ (\E a \in Alerts : Insert(c, a)) \/ MigrateChat(c)
<1> USE DEF Writing
<1>1. CASE Environment
  BY <1>1 DEF Environment, SendCommand, Tap, Send, UpgradeGroup, ChangeRights, ClaimAlert,
     SettleAlert
<1>2. ASSUME NEW d \in Chats, Handle(d) \/ GiveUp(d)
      PROVE  Cancel(d) \/ (\E a \in Alerts : Insert(d, a)) \/ MigrateChat(d)
  BY <1>2 DEF Handle, GiveUp, HandlerOnly, TakeUpdate, CountUser, CountChat, CheckBot, Load,
     CheckMember, ReadForCancel, Reply
<1>3. ASSUME NEW d \in Chats,
             Cancel(d) \/ (\E a \in Alerts : Insert(d, a)) \/ MigrateChat(d)
      PROVE  d = c
  BY <1>3 DEF Cancel, Insert, MigrateChat, Done, Refuse, Work0, TypeOK
<1>4. CASE UNCHANGED vars
  BY <1>4 DEF vars
<1> QED BY <1>1, <1>2, <1>3, <1>4 DEF Next

\* A cancellation and what its handler has shown.
LEMMA CancelEffect ==
    ASSUME Work0, NEW c \in Chats, Cancel(c)
    PROVE  /\ Busy(c) /\ Job(c).kind \in Ending /\ Job(c).alert \in Alerts
           /\ Has(handler[c].todo, "update") /\ ~Has(handler[c].todo, "load")
           /\ ~Has(handler[c].todo, "member")
           /\ \/ table' = table
              \/ /\ table[Job(c).alert].state = "pending"
                 /\ \A a \in Alerts \ {Job(c).alert} : table'[a] = table[a]
<1>1. Busy(c) /\ Head(handler[c].todo) = "update" /\ handler[c] \in Work
  BY DEF Cancel, At, Busy, Work0, TypeOK
<1>2. Planned(c) /\ Naming(handler[c].update)
  BY <1>1 DEF Work0, Plans, Named
<1>3. /\ Has(handler[c].todo, "update") /\ ~Has(handler[c].todo, "load")
      /\ ~Has(handler[c].todo, "member")
  BY <1>1, <1>2, HeadFirst DEF Planned, Ordered
<1>4. Job(c).kind \in Ending /\ Job(c).alert \in Alerts
  BY <1>1, <1>2, <1>3 DEF Planned, Naming, Job, Work, Update
<1>5. \/ table' = table
      \/ /\ table[Job(c).alert].state = "pending"
         /\ \A a \in Alerts \ {Job(c).alert} : table'[a] = table[a]
  BY DEF Cancel, Work0, TypeOK
<1> QED BY <1>1, <1>3, <1>4, <1>5

LEMMA MigrationJob ==
    ASSUME Work0, NEW c \in Chats, MigrateChat(c)
    PROVE  Job(c).kind = "migration" /\ Job(c).alert = NoAlert
<1>1. /\ Busy(c) /\ Planned(c) /\ Naming(Job(c)) /\ Head(handler[c].todo) = "migrate"
  BY DEF MigrateChat, At, Busy, Work0, Plans, Named, Job
<1>2. Has(handler[c].todo, "migrate")
  BY <1>1, HeadHas DEF Planned, Ordered
<1>3. Job(c).kind = "migration"
  BY <1>1, <1>2 DEF Planned, Job
<1> QED BY <1>1, <1>3 DEF Naming, Ending, Taps

\* What is claimed stays the worker's.
THEOREM DeliveryUndisturbed == Spec => DeliveryIsNotInterrupted
<1> DEFINE Kept ==
         \A c \in Chats, a \in Alerts :
           Writing(c) /\ table'[a].state # table[a].state =>
              table[a].state \in {"none", "pending"}
<1>1. ASSUME HandlersInv, [Next]_vars, NEW c \in Chats, NEW a \in Alerts, Writing(c),
             table'[a].state # table[a].state
      PROVE  table[a].state \in {"none", "pending"}
  <2>1. Work0 /\ table \in [Alerts -> Row]
    BY <1>1 DEF HandlersInv, Work0, TypeOK
  <2>2. CASE Cancel(c)
    BY <1>1, <2>1, <2>2, CancelEffect
  <2>3. ASSUME NEW b \in Alerts, Insert(c, b) PROVE table[a].state \in {"none", "pending"}
    BY <1>1, <2>1, <2>3, InsertEffect
  <2>4. CASE MigrateChat(c)
    BY <1>1, <2>1, <2>4 DEF MigrateChat, Row
  <2> QED BY <1>1, <2>1, <2>2, <2>3, <2>4, Writers
<1>2. HandlersInv /\ [Next]_vars => [Kept]_vars
  BY <1>1
<1> QED BY HandlersInvariant, <1>2, PTL DEF Spec, DeliveryIsNotInterrupted

\* What a handler that names an alert has shown before it inserts or updates.
LEMMA AskedInReach ==
    ASSUME Work0, Checked, NEW c \in Chats, Busy(c), NEW x \in {"insert", "update"},
           Head(handler[c].todo) = x, Job(c).alert # NoAlert
    PROVE  InReach(c, table[Job(c).alert])
<1>1. Ordered(handler[c].todo)
  BY DEF Work0, Plans, Planned
<1>2. Has(handler[c].todo, x) /\ ~Has(handler[c].todo, "load")
  BY <1>1, HeadFirst DEF Ordered
<1> QED BY <1>2 DEF Checked, Shown, Job

\* A handler ends and copies no alert but one of its own chat, whatever alert
\* its update names.
THEOREM ReachIsOneChat == Spec => NoReachAcrossChats
<1> DEFINE Kept ==
         \A c \in Chats, a \in Alerts :
           Writing(c) /\ (Ends(a) \/ Copies(c, a)) =>
              /\ table[a].state # "none"
              /\ \/ table[a].chat = c
                 \/ c = "group" /\ table[a].chat = "supergroup"
<1>1. ASSUME HandlersInv, [Next]_vars, NEW c \in Chats, NEW a \in Alerts, Writing(c),
             Ends(a) \/ Copies(c, a)
      PROVE  InReach(c, table[a])
  <2>1. Work0 /\ Checked /\ table \in [Alerts -> Row]
    BY <1>1 DEF HandlersInv, Work0, TypeOK
  <2>2. CASE Cancel(c)
    <3>1. Busy(c) /\ Job(c).kind \in Ending /\ Head(handler[c].todo) = "update"
      BY <2>1, <2>2, CancelEffect DEF Cancel, At
    <3>2. a = Job(c).alert
      BY <1>1, <2>1, <2>2, CancelEffect DEF Ends, Copies
    <3> QED BY <2>1, <3>1, <3>2, AskedInReach, HandlersAssumption
  <2>3. ASSUME NEW b \in Alerts, Insert(c, b) PROVE InReach(c, table[a])
    <3>1. table'[b].state = "pending"
      BY <2>1, <2>3 DEF Insert, NewAlert
    <3>2. ~Ends(a)
      BY <2>1, <2>3, <3>1, InsertEffect DEF Ends
    <3>3. Busy(c) /\ Head(handler[c].todo) = "insert" /\ a = Job(c).alert
      BY <1>1, <2>1, <2>3, <3>2 DEF Copies, Insert, At, Busy
    <3> QED BY <2>1, <3>3, AskedInReach, HandlersAssumption
  <2>4. CASE MigrateChat(c)
    <3>1. ~Ends(a)
      BY <2>1, <2>4 DEF MigrateChat, Row, Ends
    <3>2. Job(c).kind = "migration"
      BY <2>1, <2>4, MigrationJob
    <3> QED BY <1>1, <3>1, <3>2 DEF Copies
  <2> QED BY <1>1, <2>1, <2>2, <2>3, <2>4, Writers
<1>2. HandlersInv /\ [Next]_vars => [Kept]_vars
  BY <1>1 DEF InReach
<1> QED BY HandlersInvariant, <1>2, PTL DEF Spec, NoReachAcrossChats

\* What is shared is changed only with the right to do so.
THEOREM SharedIsGuarded == Spec => SharedNeedsRights
<1> DEFINE Kept ==
         \A c \in Chats :
           /\ Writing(c)
           /\ \/ Job(c).kind = "galert"
              \/ Job(c).alert # NoAlert /\ table[Job(c).alert].scope = "shared"
           => handler[c].entitled
<1>1. ASSUME HandlersInv, [Next]_vars, NEW c \in Chats, Writing(c),
             \/ Job(c).kind = "galert"
             \/ Job(c).alert # NoAlert /\ table[Job(c).alert].scope = "shared"
      PROVE  handler[c].entitled
  <2>1. Work0 /\ Checked
    BY <1>1 DEF HandlersInv
  <2>2. CASE Cancel(c)
    BY <1>1, <2>1, <2>2, CancelEffect, HandlersAssumption
       DEF Checked, Shown, Job, Ending
  <2>3. ASSUME NEW b \in Alerts, Insert(c, b) PROVE handler[c].entitled
    <3>1. /\ Busy(c) /\ Planned(c) /\ Head(handler[c].todo) = "insert"
      BY <2>1, <2>3 DEF Insert, At, Busy, Work0, Plans
    <3>2. /\ Has(handler[c].todo, "insert") /\ ~Has(handler[c].todo, "bot_admin")
          /\ ~Has(handler[c].todo, "member")
      BY <3>1, HeadFirst DEF Planned, Ordered
    <3> QED BY <1>1, <2>1, <3>1, <3>2 DEF Checked, Shown, Job
  <2>4. CASE MigrateChat(c)
    BY <1>1, <2>1, <2>4, MigrationJob
  <2> QED BY <1>1, <2>1, <2>2, <2>3, <2>4, Writers
<1>2. HandlersInv /\ [Next]_vars => [Kept]_vars
  BY <1>1
<1> QED BY HandlersInvariant, <1>2, PTL DEF Spec, SharedNeedsRights
=============================================================================
