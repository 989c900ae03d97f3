-------------------------- MODULE UpdateDedupProofs --------------------------
(***************************************************************************)
(* Proofs about UpdateDedup, for any updates, ages, copies and faults.     *)
(***************************************************************************)
EXTENDS UpdateDedupProperties, TLAPS

\* Handlers of an update that had their effect or may still have it.
Effects(u) == handled[u] + IF u \in working THEN 1 ELSE 0

\* A registration is no older than its update, which was sent before it.
RowFollowsUpdate(u) ==
    /\ copies[u] > 0 => update[u].sent
    /\ registered[u] # Unknown =>
          update[u].sent /\ registered[u] <= update[u].age

\* A copy may register the update anew: one that waits, or one that Telegram
\* may still send.
Open(u) == registered[u] = Unknown /\ (copies[u] > 0 \/ update[u].age <= KeepAge)

\* As long as a copy may register anew, or waits beside a row that has
\* outlived Telegram's retries, every effect has an excuse: the next one is
\* the first without.
Excused(u) ==
    /\ Effects(u) <= 1 + excuses[u]
    /\ Open(u) => Effects(u) <= excuses[u]
    /\ registered[u] > KeepAge /\ copies[u] > 0 => Effects(u) <= excuses[u]

IInv == TypeOK /\ \A u \in Updates : RowFollowsUpdate(u) /\ Excused(u)

-----------------------------------------------------------------------------
(* Type correctness.                                                       *)

LEMMA TypeInit == Init => TypeOK
<1> SUFFICES ASSUME Init PROVE TypeOK
  OBVIOUS
<1>1. 0 \in Age /\ 0 \in 0 .. MaxCopies /\ MaxFaults \in 0 .. MaxFaults
  BY DedupAssumption DEF Age
<1> QED
  BY <1>1 DEF Init, TypeOK, Telegram

\* The budget of faults, whether a step spends one or not.
LEMMA BudgetType ==
    ASSUME faults \in 0 .. MaxFaults, Fault \/ UNCHANGED faults
    PROVE  faults' \in 0 .. MaxFaults
  BY DedupAssumption DEF Fault

\* Ages stay within their range.
LEMMA OlderAge ==
    ASSUME NEW age \in Age
    PROVE  Older(age) \in Age /\ Older(age) >= age /\ age <= PurgeAge + 1
  BY DedupAssumption DEF Age, Older

\* One copy is taken out of the queue and, maybe, its handler started.
LEMMA FilterType ==
    ASSUME TypeOK, NEW u \in Updates, Filter(u)
    PROVE  TypeOK'
<1>1. copies[u] - 1 \in 0 .. MaxCopies /\ 0 \in Age
  BY DedupAssumption DEF TypeOK, Age, Filter, RegisterNew, DropDuplicate,
                         RegisterFails, CanFilter
<1>2. faults' \in 0 .. MaxFaults
  BY BudgetType DEF TypeOK, Filter, RegisterNew, DropDuplicate, RegisterFails
<1>3. up /\ up'
  BY DEF Filter, RegisterNew, DropDuplicate, RegisterFails, CanFilter
<1> USE DEF TypeOK
<1>4. CASE RegisterNew(u)
  BY <1>1, <1>2, <1>3, <1>4 DEF RegisterNew
<1>5. CASE DropDuplicate(u)
  BY <1>1, <1>2, <1>3, <1>5 DEF DropDuplicate
<1>6. CASE RegisterFails(u)
  BY <1>1, <1>2, <1>3, <1>6 DEF RegisterFails
<1> QED
  BY <1>4, <1>5, <1>6 DEF Filter

LEMMA TypeNext == TypeOK /\ [Next]_vars => TypeOK'
<1> SUFFICES ASSUME TypeOK, [Next]_vars PROVE TypeOK'
  OBVIOUS
<1>1. ASSUME NEW u \in Updates, SendUpdate(u) PROVE TypeOK'
  BY <1>1 DEF TypeOK, SendUpdate, Telegram, Held
<1>2. ASSUME NEW u \in Updates, Receive(u) PROVE TypeOK'
  <2>1. faults' \in 0 .. MaxFaults
    BY <1>2, BudgetType DEF TypeOK, Receive
  <2>2. copies[u] + 1 \in 0 .. MaxCopies
    BY <1>2, DedupAssumption DEF TypeOK, Receive
  <2> QED
    BY <1>2, <2>1, <2>2 DEF TypeOK, Receive, Telegram
<1>3. ASSUME NEW u \in Updates, Filter(u) PROVE TypeOK'
  BY <1>3, FilterType
<1>4. ASSUME NEW u \in Updates, Handle(u) PROVE TypeOK'
  <2>1. faults' \in 0 .. MaxFaults
    BY <1>4, BudgetType DEF TypeOK, Handle, HandlerEnds, HandlerFails
  <2> QED
    BY <1>4, <2>1 DEF TypeOK, Handle, HandlerEnds, HandlerFails
<1>5. CASE Crash
  <2>1. faults' \in 0 .. MaxFaults /\ 0 \in 0 .. MaxCopies
    BY <1>5, BudgetType, DedupAssumption DEF TypeOK, Crash
  <2>2. Held \subseteq Updates /\ Held' = {}
    BY <1>5 DEF Crash, Held
  <2> QED
    BY <1>5, <2>1, <2>2 DEF TypeOK, Crash
<1>6. CASE Restart
  BY <1>6 DEF TypeOK, Restart
<1>7. CASE PurgeOldUpdates
  <2>1. ASSUME NEW u \in Updates, registered[u] = 0 PROVE registered'[u] = 0
    BY <1>7, <2>1, DedupAssumption DEF PurgeOldUpdates, Expired
  <2> QED
    BY <1>7, <2>1 DEF TypeOK, PurgeOldUpdates, Held
<1>8. CASE Tick
  <2>1. faults' \in 0 .. MaxFaults
    BY <1>8, BudgetType DEF TypeOK, Tick
  <2>2. excuses' \in [Updates -> Nat]
    BY <1>8 DEF TypeOK, Tick
  <2>3. update' \in [Updates -> Telegram]
    BY <1>8, OlderAge DEF TypeOK, Tick, Telegram
  <2>4. registered' \in [Updates -> Age \cup {Unknown}]
    BY <1>8, OlderAge DEF TypeOK, Tick
  <2> QED
    BY <1>8, <2>1, <2>2, <2>3, <2>4 DEF TypeOK, Tick, Held
<1>9. CASE UNCHANGED vars
  BY <1>9 DEF TypeOK, vars, Held
<1> QED
  BY <1>1, <1>2, <1>3, <1>4, <1>5, <1>6, <1>7, <1>8, <1>9 DEF Next

-----------------------------------------------------------------------------
(* Effects and excuses, update by update.                                  *)

LEMMA InvInit == Init => IInv
<1> SUFFICES ASSUME Init PROVE IInv
  OBVIOUS
<1> QED
  BY TypeInit DEF Init, IInv, RowFollowsUpdate, Excused, Effects, Open, Unknown

\* What the invariant says of one update, in numbers.
LEMMA Numbers ==
    ASSUME TypeOK, NEW u \in Updates
    PROVE  /\ copies[u] \in Nat /\ handled[u] \in Nat /\ excuses[u] \in Nat
           /\ registered[u] \in Age \cup {-1} /\ update[u].age \in Age
           /\ \A a \in Age : a \in Nat /\ a <= PurgeAge + 1
  BY DedupAssumption DEF TypeOK, Telegram, Age, Unknown

\* An update that a step leaves alone.
LEMMA Untouched ==
    ASSUME NEW v \in Updates, RowFollowsUpdate(v), Excused(v),
           update'[v] = update[v], copies'[v] = copies[v],
           registered'[v] = registered[v], handled'[v] = handled[v],
           excuses'[v] = excuses[v], (v \in working') <=> (v \in working)
    PROVE  RowFollowsUpdate(v)' /\ Excused(v)'
  BY DEF RowFollowsUpdate, Excused, Effects, Open

\* Telegram sends no copy of an update whose row it has outlived.
LEMMA ReceiveKeeps ==
    ASSUME IInv, NEW u \in Updates, SendUpdate(u) \/ Receive(u)
    PROVE  RowFollowsUpdate(u)' /\ Excused(u)'
<1>1. CASE SendUpdate(u)
  BY <1>1, Numbers DEF IInv, TypeOK, Telegram, SendUpdate, RowFollowsUpdate,
                       Excused, Effects, Open
<1>2. CASE Receive(u)
  <2>1. update[u].age <= KeepAge /\ update'[u].age = update[u].age
        /\ update[u].sent /\ update'[u].sent /\ copies'[u] = copies[u] + 1
    BY <1>2 DEF IInv, TypeOK, Telegram, Receive
  <2> QED
    BY <1>2, <2>1, Numbers, DedupAssumption
       DEF IInv, Receive, RowFollowsUpdate, Excused, Effects, Open, Unknown
<1> QED
  BY <1>1, <1>2

\* A registration without an excuse uses up that the copy was open; any other
\* start of a handler brings its excuse.
LEMMA FilterKeeps ==
    ASSUME IInv, NEW u \in Updates, Filter(u)
    PROVE  RowFollowsUpdate(u)' /\ Excused(u)'
<1> USE DEF IInv, TypeOK, CanFilter, RowFollowsUpdate, Excused, Effects, Open, Unknown
<1>1. copies'[u] = copies[u] - 1 /\ copies[u] > 0 /\ u \notin working
      /\ update' = update /\ handled' = handled
  BY DEF Filter, RegisterNew, DropDuplicate, RegisterFails
<1>2. CASE RegisterNew(u)
  <2>1. registered'[u] = 0 /\ u \in working' /\ excuses' = excuses
    BY <1>2 DEF RegisterNew
  <2> QED
    BY <1>1, <1>2, <2>1, Numbers, DedupAssumption DEF RegisterNew
<1>3. CASE DropDuplicate(u)
  BY <1>1, <1>3, Numbers, DedupAssumption DEF DropDuplicate
<1>4. CASE RegisterFails(u)
  <2>1. excuses'[u] = excuses[u] + 1 /\ u \in working'
    BY <1>4 DEF RegisterFails
  <2>2. registered'[u] = registered[u] \/ (registered[u] = Unknown /\ registered'[u] = 0)
    BY <1>4 DEF RegisterFails
  <2> QED
    BY <1>1, <2>1, <2>2, Numbers, DedupAssumption
<1> QED
  BY <1>2, <1>3, <1>4 DEF Filter

\* What a handler may still do, it does or loses.
LEMMA HandleKeeps ==
    ASSUME IInv, NEW u \in Updates, Handle(u)
    PROVE  RowFollowsUpdate(u)' /\ Excused(u)'
<1>1. u \in working /\ u \notin working' /\ UNCHANGED <<update, copies, registered, excuses>>
  BY DEF Handle, HandlerEnds, HandlerFails
<1>2. handled'[u] = handled[u] + 1 \/ handled'[u] = handled[u]
  BY DEF IInv, TypeOK, Handle, HandlerEnds, HandlerFails
<1> QED
  BY <1>1, <1>2, Numbers DEF IInv, RowFollowsUpdate, Excused, Effects, Open

\* A crash loses copies and handlers, and the rows stay.
LEMMA CrashKeeps ==
    ASSUME IInv, Crash, NEW u \in Updates
    PROVE  RowFollowsUpdate(u)' /\ Excused(u)'
<1>1. copies'[u] = 0 /\ working' = {} /\ UNCHANGED <<update, registered, handled, excuses>>
  BY DEF Crash
<1> QED
  BY <1>1, Numbers DEF IInv, RowFollowsUpdate, Excused, Effects, Open

\* The purge takes a row only when Telegram sends its update no more, and
\* a copy that still waits has waited for a unit.
LEMMA PurgeKeeps ==
    ASSUME IInv, PurgeOldUpdates, NEW u \in Updates
    PROVE  RowFollowsUpdate(u)' /\ Excused(u)'
<1>1. UNCHANGED <<update, copies, working, handled, excuses>>
      /\ registered'[u] = IF Expired(u) THEN Unknown ELSE registered[u]
  BY DEF PurgeOldUpdates
<1>2. CASE ~Expired(u)
  BY <1>1, <1>2, Untouched DEF IInv
<1>3. CASE Expired(u)
  <2>1. registered[u] > PurgeAge /\ registered[u] # Unknown
    BY <1>3, DedupAssumption, Numbers DEF IInv, Expired, Unknown
  <2>2. update[u].age > KeepAge /\ registered[u] > KeepAge
    BY <2>1, DedupAssumption, Numbers DEF IInv, RowFollowsUpdate, Unknown
  <2> QED
    BY <1>1, <1>3, <2>2, Numbers, DedupAssumption
       DEF IInv, RowFollowsUpdate, Excused, Effects, Open, Unknown
<1> QED
  BY <1>2, <1>3

\* Time that passes is an excuse for whatever waits.
LEMMA TickKeeps ==
    ASSUME IInv, Tick, NEW u \in Updates
    PROVE  RowFollowsUpdate(u)' /\ Excused(u)'
<1>1. UNCHANGED <<copies, working, handled>>
  BY DEF Tick
<1>2. copies[u] > 0 \/ u \in working => excuses'[u] = excuses[u] + 1
  BY DEF Tick, Held
<1>3. excuses'[u] = excuses[u] \/ excuses'[u] = excuses[u] + 1
  BY DEF Tick
<1>4. /\ update'[u].sent = update[u].sent
      /\ update'[u].age = IF update[u].sent THEN Older(update[u].age) ELSE update[u].age
  BY DEF Tick, IInv, TypeOK, Telegram
<1>5. registered'[u] = IF registered[u] = Unknown THEN Unknown ELSE Older(registered[u])
  BY DEF Tick
<1> QED
  BY <1>1, <1>2, <1>3, <1>4, <1>5, Numbers, DedupAssumption
     DEF IInv, RowFollowsUpdate, Excused, Effects, Open, Unknown, Older

LEMMA InvNext == IInv /\ [Next]_vars => IInv'
<1> SUFFICES ASSUME IInv, [Next]_vars PROVE IInv'
  OBVIOUS
<1>1. TypeOK'
  BY TypeNext DEF IInv
<1>2. ASSUME NEW v \in Updates PROVE RowFollowsUpdate(v)' /\ Excused(v)'
  <2>1. RowFollowsUpdate(v) /\ Excused(v)
    BY DEF IInv
  <2>2. ASSUME NEW u \in Updates, u # v,
               SendUpdate(u) \/ Receive(u) \/ Filter(u) \/ Handle(u)
        PROVE  RowFollowsUpdate(v)' /\ Excused(v)'
    BY <2>1, <2>2, Untouched
       DEF IInv, TypeOK, SendUpdate, Receive, Filter, RegisterNew, DropDuplicate,
           RegisterFails, Handle, HandlerEnds, HandlerFails
  <2>3. CASE SendUpdate(v) \/ Receive(v)
    BY <2>3, ReceiveKeeps
  <2>4. CASE Filter(v)
    BY <2>4, FilterKeeps
  <2>5. CASE Handle(v)
    BY <2>5, HandleKeeps
  <2>6. CASE Restart \/ UNCHANGED vars
    BY <2>1, <2>6, Untouched DEF Restart, vars
  <2> QED
    BY <2>2, <2>3, <2>4, <2>5, <2>6, CrashKeeps, PurgeKeeps, TickKeeps DEF Next
<1> QED
  BY <1>1, <1>2 DEF IInv

LEMMA Invariance == Spec => []IInv
  BY InvInit, InvNext, PTL DEF Spec

-----------------------------------------------------------------------------
\* Type correctness of the table, the queue and Telegram's view.
THEOREM TypeCorrect == Spec => []TypeOK
<1>1. IInv => TypeOK
  BY DEF IInv
<1> QED
  BY <1>1, Invariance, PTL

\* No update is handled more often than once and once for each failed
\* registration and unit that one of its copies waited, whatever is sent
\* again and whenever the process dies (try_register_update,
\* purge_old_updates).
THEOREM HandledOnce == Spec => []HandledOncePerExcuse
<1>1. ASSUME IInv, NEW u \in Updates PROVE handled[u] <= 1 + excuses[u]
  <2>1. handled[u] \in Nat /\ excuses[u] \in Nat
    BY <1>1, Numbers DEF IInv
  <2>2. Effects(u) <= 1 + excuses[u]
    BY <1>1 DEF IInv, Excused
  <2> QED
    BY <2>1, <2>2 DEF Effects
<1>2. IInv => HandledOncePerExcuse
  BY <1>1 DEF HandledOncePerExcuse
<1> QED
  BY <1>2, Invariance, PTL
=============================================================================
