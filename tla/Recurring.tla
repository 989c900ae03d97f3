----------------------------- MODULE Recurring -----------------------------
(***************************************************************************)
(* parse_recurring (parser/src/grammar.rs): its strategies, relative spans *)
(* and named days, and the anchors they compute.                           *)
(***************************************************************************)
EXTENDS OneShot

MonthOf(date) == 12 * date.y + date.m - 1
ThisMonth == MonthOf(DateOf(Today))

-----------------------------------------------------------------------------
(* Anchors: the first day of the candidates on which the clock is ahead,   *)
(* else the fallback.                                                      *)

FirstOr(instants, fallback) == IF instants = {} THEN fallback ELSE Min(instants)
FirstFuture(days, clock, fallback) ==
    FirstOr(UNION {AheadOn(d, clock) : d \in days}, fallback)

\* mutant
DailyAnchorDayByDay(n, clock) ==
    FirstFuture(Today .. Today + n, clock, now + n * DayLength)
DailyAnchor(n, clock) ==
    FirstFuture({Today, Today + n}, clock, now + n * DayLength)

WeeklyAnchor(weekdays, clock) ==
    FirstFuture({d \in Today .. Today + 7 : Weekday(d) \in weekdays}, clock,
                now + 7 * DayLength)

AtMost(day, y, m) == IF day > LastDay(y, m) THEN LastDay(y, m) ELSE day

\* month_iter: the day of each month, where it exists; clamped to the month's
\* last day, it always does.
DayOfMonth(day, i, clamped) ==
    LET y == i \div 12
        m == (i % 12) + 1
    IN  [y |-> y, m |-> m, d |-> IF clamped THEN AtMost(day, y, m) ELSE day]

MonthsAnchor(n, day, clamped, clock) ==
    LET dates == {DayOfMonth(day, ThisMonth + n * k, clamped) : k \in 0 .. 13}
    IN  FirstFuture({DayNumber(d) : d \in {e \in dates : Exists(e)}}, clock,
                    now + 31 * DayLength)

MonthlyAnchor(day, n, clock) == MonthsAnchor(n, day, FALSE, clock)
MonthlyOrLastDayAnchor(day, n, clock) == MonthsAnchor(n, day, TRUE, clock)
MonthlyLastDayAnchor(clock) == MonthsAnchor(1, 31, TRUE, clock)

\* Day 31 stands for the last of the month.
DayOfYear(year, month, day) ==
    DayNumber([y |-> year, m |-> month, d |-> AtMost(day, year, month)])
YearlyAnchor(month, day, n, clock) ==
    FirstFuture({DayOfYear(YearOf(Today) + n * k, month, day) : k \in 0 .. 4}, clock,
                now + 365 * DayLength)

-----------------------------------------------------------------------------
(* Strategies: nothing, an error, or a schedule, notes and the first       *)
(* token of the text.                                                      *)

Refuse(error) == {[error |-> error, schedule |-> {}, notes |-> {}, next |-> 0]}
Make(start, rule, notes, next) ==
    {[error |-> None, schedule |-> {Schedule(start, zone, rule)}, notes |-> notes, next |-> next]}

\* The clock of the moment the command was sent, without its seconds.
CreationTime == ClockOf(Wall(zone, now)) - (ClockOf(Wall(zone, now)) % 60)

Yearly(spec, clock, next) ==
    LET n == spec["Y"]
        today == DateOf(Today)
        start == YearlyAnchor(today.m, today.d, n, clock)
    IN  IF n > MaxInterval THEN Refuse("InvalidRecurrenceSpec")
        ELSE IF today.m = 2 /\ today.d = 29
             THEN Make(start, YearlyEveryLastDayOfMonth(n, 2, clock), {"YearlyFeb29Fallback"}, next)
        ELSE Make(start, YearlyEvery(n, today.m, today.d, clock), {}, next)

\* mutant
NoteFromThe30th(day) == IF day > 29 THEN {"MonthlyLastDayFrom"} ELSE {}
MonthlyNote(day) == IF day > 28 THEN {"MonthlyLastDayFrom"} ELSE {}

Monthly(spec, clock, next) ==
    LET n == spec["M"]
        day == DateOf(Today).d
    IN  IF n > MaxInterval THEN Refuse("InvalidRecurrenceSpec")
        ELSE Make(MonthlyOrLastDayAnchor(day, n, clock), MonthlyEveryOrLastDay(n, day, clock),
                  MonthlyNote(day), next)

\* Whole days by the clock, whatever their unit; else exactly, in UTC.
ByDaysOrSeconds(spec, clock, next) ==
    LET seconds == Clock(spec["h"], spec["m"]) + spec["s"]
        days == 7 * spec["w"] + spec["d"]
        n == days + seconds \div DayLength
        unit == IntervalUnit(seconds)
        exactly == IntervalRule(The(Intervals(days, seconds)), unit)
    IN  IF days = 0 /\ seconds < MinIntervalSeconds THEN Refuse("IntervalTooShort")
        ELSE IF seconds % DayLength = 0
             THEN IF n > MaxInterval THEN Refuse("InvalidRecurrenceSpec")
                  ELSE Make(DailyAnchor(n, clock), DailyAt(n, clock), {}, next)
        ELSE IF Intervals(days, seconds) = {} THEN Refuse("InvalidRecurrenceSpec")
        ELSE {[error |-> None, notes |-> {}, next |-> next,
               schedule |-> {Schedule(now + days * DayLength + seconds, NoOffset, exactly)}]}

\* A spec belongs to one family of frequencies.
Families(spec) ==
    Cardinality({f \in {{"Y"}, {"M"}, {"w", "d", "h", "m", "s"}} : \E u \in f : spec[u] > 0})

SeriesOf(match, times) ==
    LET spec == match.spec
        time == TimeOr(times, CreationTime, match.next)
    IN  IF match.kind = "none" THEN {}
        ELSE IF match.kind = "bad" THEN Refuse("InvalidRelSpec")
        ELSE IF Families(spec) > 1 THEN Refuse("InvalidRecurrenceSpec")
        ELSE IF times # {} /\ HasSubDay(spec) THEN Refuse("SubDayRelWithOverride")
        ELSE IF spec["Y"] > 0 THEN Yearly(spec, time.clock, time.next)
        ELSE IF spec["M"] > 0 THEN Monthly(spec, time.clock, time.next)
        ELSE ByDaysOrSeconds(spec, time.clock, time.next)

RelativeSeries(tokens) ==
    LET match == Relative(tokens)
    IN  IF IsKey(tokens, 1, "in") THEN {}
        ELSE SeriesOf(match, TimeAfterSpec(tokens, match.next, match.spec))

\* A list of weekdays.
WeekdaySeries(tokens) ==
    LET days == tokens[1].days
        time == TimeAfterFirst(tokens)
    IN  IF days = {} THEN {}
        ELSE Make(WeeklyAnchor(days, time.clock), Weekly(days, time.clock), {}, time.next)

\* A day of the month, with its dot; 31. is the last of each.
DayOfMonthSeries(tokens) ==
    LET date == The(tokens[1].date)
        time == TimeAfterFirst(tokens)
    IN  IF tokens[1].date = {} \/ ~tokens[1].dot \/ date.y # 0 \/ date.m # 0
             \/ date.d \notin 1 .. 31 THEN {}
        ELSE IF date.d = 31
        THEN Make(MonthlyLastDayAnchor(time.clock), MonthlyLastDay(time.clock),
                  {"MonthlyLastDay"}, time.next)
        ELSE Make(MonthlyAnchor(date.d, 1, time.clock), MonthlyEvery(1, date.d, time.clock), {},
                  time.next)

\* A day of the year, without a dot after its month; 29.2 is February's last.
MonthDaySeries(tokens) ==
    LET date == The(tokens[1].date)
        time == TimeAfterFirst(tokens)
    IN  IF tokens[1].date = {} \/ tokens[1].dot \/ date.y # 0
             \/ ~Exists([date EXCEPT !.y = 2024]) THEN {}
        ELSE IF date.m = 2 /\ date.d = 29
        THEN Make(YearlyAnchor(2, 31, 1, time.clock),
                  YearlyEveryLastDayOfMonth(1, 2, time.clock), {"YearlyFeb29Fallback"}, time.next)
        ELSE Make(YearlyAnchor(date.m, date.d, 1, time.clock),
                  YearlyEvery(1, date.m, date.d, time.clock), {}, time.next)

\* The strategies for named days, in their order.
NamedSeries(tokens) ==
    OrElse(WeekdaySeries(tokens), OrElse(DayOfMonthSeries(tokens), MonthDaySeries(tokens)))

\* parse_recurring.
AnswerSeries(tokens, found) ==
    LET it == The(found)
        text == SubSeq(tokens, it.next, Len(tokens))
    IN  IF found = {} THEN Refusal("NoTimeExpression")
        ELSE IF it.error # None THEN Refusal(it.error)
        ELSE IF text = <<>> THEN Refusal("MissingText")
        ELSE Answer(The(it.schedule), it.notes, text)
ParseRecurring(tokens) ==
    IF tokens = <<>> THEN Refusal("Empty")
    ELSE AnswerSeries(tokens, OrElse(RelativeSeries(tokens), NamedSeries(tokens)))
=============================================================================
