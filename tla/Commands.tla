------------------------------ MODULE Commands ------------------------------
(***************************************************************************)
(* A command from its text to the last time it rings: parse_command        *)
(* (parser/src/grammar.rs), the alert that create_alert makes of it, and   *)
(* the step to the next occurrence after each delivery (worker.rs,         *)
(* finalise_after_send, with Schedule::next_after).                        *)
(***************************************************************************)
EXTENDS Recurring

CONSTANTS
    Zones,      \* zones of users
    Moments,    \* instants at which commands are sent
    Phrases,    \* what users of a zone write: tokens, after an asterisk or not
    Delays,     \* how late a delivery ends
    MaxFires    \* bound: deliveries of an alert

ASSUME CommandsAssumption ==
    /\ Zones \subseteq Zone
    /\ Moments \subseteq Int
    /\ Delays \subseteq Nat
    /\ MaxFires \in Nat
    /\ \A z \in Zones : \A p \in Phrases[z] :
         p.words \in Seq(Token) /\ p.recurring \in BOOLEAN

VARIABLES
    phrase,     \* the command, or Nothing
    reply,      \* what the parser made of it
    created,    \* when it was sent
    series,     \* the schedule of the alert, until it is finished
    fire,       \* fire_at of the alert
    fired       \* deliveries so far

vars == <<now, zone, phrase, reply, created, series, fire, fired>>

Nothing == [words |-> <<>>, recurring |-> FALSE]

\* parse_command.
ParseCommand(p) ==
    IF p.words = <<>> THEN Refusal("Empty")
    ELSE IF p.recurring THEN ParseRecurring(p.words) ELSE ParseOneShot(p.words)

Init ==
    /\ now \in Moments /\ zone \in Zones
    /\ phrase = Nothing /\ reply = Refusal("Empty")
    /\ created = now /\ series = {} /\ fire = now /\ fired = 0

Create(p) ==
    /\ phrase = Nothing
    /\ phrase' = p
    /\ reply' = ParseCommand(p)
    /\ series' = reply'.schedule
    /\ fire' = IF series' = {} THEN now ELSE The(series').start
    /\ UNCHANGED <<now, zone, created, fired>>

\* The alert was due and is delivered; an alert that does not recur, or whose
\* rule has no other slot, is finished.
Deliver(late, policy) ==
    /\ series # {} /\ fired < MaxFires
    /\ now' = fire + late
    /\ LET s == The(series)
           next == IF IsRecurring(s) THEN NextAfter(s, now', policy) ELSE {}
       IN  IF next = {} THEN series' = {} /\ UNCHANGED fire
           ELSE fire' = The(next) /\ UNCHANGED series
    /\ fired' = fired + 1
    /\ UNCHANGED <<zone, phrase, reply, created>>

Next ==
    \/ \E p \in Phrases[zone] : Create(p)
    \/ \E late \in Delays, policy \in GapPolicy : Deliver(late, policy)

Spec == Init /\ [][Next]_vars
=============================================================================
