------------------------------ MODULE OneShot ------------------------------
(***************************************************************************)
(* parse_one_shot (parser/src/grammar.rs): what a command for one alert    *)
(* means at the moment it is sent.  The strategies are tried in order:     *)
(* relative, date, clock, named day.                                       *)
(***************************************************************************)
EXTENDS RelativeTime, Schedules

VARIABLES
    now,        \* ctx.now_utc
    zone        \* ctx.tz

DefaultTime == Clock(9, 0)

Today == DayOf(Wall(zone, now))

AheadOn(day, clock) == {u \in Resolve(zone, At(day, clock)) : u > now}

-----------------------------------------------------------------------------
(* What a strategy finds: [error, at, notes] and the first token of the    *)
(* text, or nothing.                                                       *)

Found(result, next) == {[result |-> result, next |-> next]}

Landing(here) ==
    IF here = {} THEN Fail("InvalidTime") ELSE Succeed(The(here), {})
OnDay(day, clock) == Landing(Resolve(zone, At(day, clock)))

\* An expression at the first token and the clock that may follow.
TimeAfterFirst(tokens) == TimeOr(OptionalTime(tokens, 2), DefaultTime, 2)

Relatively(match, time) ==
    IF match.kind = "none" THEN {}
    ELSE IF match.kind = "bad" THEN Found(Fail("InvalidRelSpec"), 0)
    ELSE Found(Apply(match.spec, now, zone, {t.clock : t \in time}),
               Max({match.next} \cup {t.next : t \in time}))

RelativeStrategy(tokens) ==
    LET match == Relative(tokens)
    IN  Relatively(match, TimeAfterSpec(tokens, match.next, match.spec))

\* parse_dotted_date and parse_iso_date: a date without a year is of this year
\* while it is ahead, else of the next.
YearOfDate(date, this, clock) ==
    LET here == WithYear(date, this)
    IN  IF date.y # 0 THEN date.y
        ELSE IF Exists(here) /\ AheadOn(DayNumber(here), clock) # {} THEN this
        ELSE this + 1
Dates(date, clock) ==
    {d \in {WithYear(date, YearOfDate(date, YearOf(Today), clock))} : Exists(d)}

OnOneOf(days, time) ==
    IF days = {} THEN {} ELSE Found(OnDay(The(days), time.clock), time.next)

DateStrategy(tokens) ==
    LET time == TimeAfterFirst(tokens)
        dates == UNION {Dates(d, time.clock) : d \in tokens[1].date}
    IN  OnOneOf({DayNumber(d) : d \in dates}, time)

\* resolve_bare_clock.
DayOfClock(clock) ==
    IF Resolve(zone, At(Today, clock)) = {} \/ AheadOn(Today, clock) # {}
    THEN Today ELSE Today + 1
ClockStrategy(tokens) ==
    UNION {OnOneOf({DayOfClock(time.clock)}, time) : time \in OptionalTime(tokens, 1)}

\* resolve_named_day.
\* mutant
WeekdayAfterToday(weekday, clock) ==
    LET first == Today + ((weekday + 7 - Weekday(Today)) % 7)
    IN  IF first > Today THEN first ELSE first + 7
FirstWeekday(weekday, clock) ==
    LET first == Today + ((weekday + 7 - Weekday(Today)) % 7)
    IN  IF AheadOn(first, clock) # {} THEN first ELSE first + 7

NamedDay(token, clock) ==
    IF token.key = "tomorrow" THEN Today + 1
    ELSE IF token.key = "day after tomorrow" THEN Today + 2
    ELSE FirstWeekday(The(token.days), clock)

NamedStrategy(tokens) ==
    LET time == TimeAfterFirst(tokens)
    IN  IF ~(tokens[1].key \in {"tomorrow", "day after tomorrow"}
              \/ Cardinality(tokens[1].days) = 1) THEN {}
        ELSE OnOneOf({NamedDay(tokens[1], time.clock)}, time)

-----------------------------------------------------------------------------
\* try_one_shot_strategies.
OrElse(found, other) == IF found # {} THEN found ELSE other
Strategies(tokens) ==
    OrElse(RelativeStrategy(tokens),
           OrElse(DateStrategy(tokens),
                  OrElse(ClockStrategy(tokens), NamedStrategy(tokens))))

\* Parsed: an error, or a schedule, notes and the text.
Answer(schedule, notes, text) ==
    [error |-> None, schedule |-> {schedule}, notes |-> notes, text |-> text]

Refusal(error) == [error |-> error, schedule |-> {}, notes |-> {}, text |-> <<>>]

\* parse_one_shot.
AnswerOneShot(tokens, found) ==
    LET result == The(found).result
        text == SubSeq(tokens, The(found).next, Len(tokens))
    IN  IF found = {} THEN Refusal("NoTimeExpression")
        ELSE IF result.error # None THEN Refusal(result.error)
        ELSE IF text = <<>> THEN Refusal("MissingText")
        ELSE IF result.at <= now THEN Refusal("InPast")
        ELSE Answer(OneShotSchedule(result.at, zone), result.notes, text)
ParseOneShot(tokens) ==
    IF tokens = <<>> THEN Refusal("Empty")
    ELSE IF tokens[1].key = "today" THEN Refusal("HeuteRejected")
    ELSE AnswerOneShot(tokens, Strategies(tokens))
=============================================================================
