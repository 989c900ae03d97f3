----------------------------- MODULE Schedules -----------------------------
(***************************************************************************)
(* Schedule (core/src/recurrence.rs): an anchor, a zone and a rule of the  *)
(* rrule library; the constructors of the rules the parser uses, and       *)
(* next_after.                                                             *)
(***************************************************************************)
EXTENDS LocalTime

MinIntervalSeconds == 1800
MaxInterval == 65535

Frequency == {"once", "seconds", "daily", "weekly", "monthly", "yearly"}

\* interval: in units of the frequency; unit: of a frequency of seconds.
\* days: BYMONTHDAY, -1 for the last; latest: BYSETPOS=-1.
\* clock: BYHOUR and BYMINUTE; the seconds are those of the anchor.
AnyRule == [freq |-> "daily", interval |-> 1, unit |-> 1, weekdays |-> {},
            month |-> 0, days |-> {}, latest |-> FALSE, clock |-> 0]

Schedule(start, z, rule) == [start |-> start, zone |-> z, rule |-> rule]

OneShotSchedule(at, z) == Schedule(at, z, [AnyRule EXCEPT !.freq = "once"])
IsRecurring(s) == s.rule.freq # "once"

-----------------------------------------------------------------------------
(* Constructors.  interval_seconds takes days and the seconds left: hours, *)
(* minutes or seconds, whatever divides them; the interval fits in 16      *)
(* bits, or there is none.                                                 *)

IntervalUnit(seconds) ==
    IF seconds % Hour = 0 THEN Hour ELSE IF seconds % 60 = 0 THEN 60 ELSE 1

\* days * DayLength + seconds, in units; compared before it is multiplied.
\* mutant
IntervalsWrapped(days, seconds) ==
    LET unit == IntervalUnit(seconds)
    IN  {(days * (DayLength \div unit) + seconds \div unit) % (MaxInterval + 1)}
Intervals(days, seconds) ==
    LET unit == IntervalUnit(seconds)
        left == seconds \div unit
    IN  IF days > MaxInterval \div (DayLength \div unit)
           \/ left > MaxInterval - days * (DayLength \div unit)
        THEN {} ELSE {days * (DayLength \div unit) + left}

IntervalRule(interval, unit) ==
    [AnyRule EXCEPT !.freq = "seconds", !.interval = interval, !.unit = unit]

DailyAt(n, clock) == [AnyRule EXCEPT !.interval = n, !.clock = clock]

Weekly(weekdays, clock) ==
    [AnyRule EXCEPT !.freq = "weekly", !.weekdays = weekdays, !.clock = clock]

MonthlyEvery(n, day, clock) ==
    [AnyRule EXCEPT !.freq = "monthly", !.interval = n, !.days = {day}, !.clock = clock]

\* monthly_every_or_last_day: the latest of the days 28 to day that exists.
\* mutant
MonthlyEveryStrictly(n, day, clock) == MonthlyEvery(n, day, clock)
MonthlyEveryOrLastDay(n, day, clock) ==
    IF day <= 28 THEN MonthlyEvery(n, day, clock)
    ELSE [MonthlyEvery(n, day, clock) EXCEPT !.days = 28 .. day, !.latest = TRUE]

MonthlyLastDay(clock) == MonthlyEvery(1, -1, clock)

YearlyEvery(n, month, day, clock) ==
    [AnyRule EXCEPT !.freq = "yearly", !.interval = n, !.month = month,
                    !.days = {day}, !.clock = clock]

YearlyEveryLastDayOfMonth(n, month, clock) == YearlyEvery(n, month, -1, clock)

-----------------------------------------------------------------------------
(* What the library makes of a rule, as far as the code relies on it.      *)

\* The days of a month that the rule names.
DaysOfMonth(rule, y, m) ==
    LET last == LastDay(y, m)
        named == {d \in 1 .. last : d \in rule.days \/ d - last - 1 \in rule.days}
        days == IF rule.latest /\ named # {} THEN {Max(named)} ELSE named
    IN  {DayNumber([y |-> y, m |-> m, d |-> d]) : d \in days}

StartDay(s) == DayOf(Wall(s.zone, s.start))

MonthIndex(day) == 12 * DateOf(day).y + DateOf(day).m - 1

\* The period of a day, counted from that of the anchor, and the days that the
\* rule names in a period.
PeriodOf(s, day) ==
    CASE s.rule.freq = "daily" -> (day - StartDay(s)) \div s.rule.interval
      [] s.rule.freq = "weekly" -> (day - StartDay(s)) \div 7
      [] s.rule.freq = "monthly" ->
           (MonthIndex(day) - MonthIndex(StartDay(s))) \div s.rule.interval
      [] s.rule.freq = "yearly" ->
           (DateOf(day).y - DateOf(StartDay(s)).y) \div s.rule.interval

DaysOfPeriod(s, k) ==
    CASE s.rule.freq = "daily" -> {StartDay(s) + k * s.rule.interval}
      [] s.rule.freq = "weekly" ->
           {d \in StartDay(s) + 7 * k .. StartDay(s) + 7 * k + 6 :
              Weekday(d) \in s.rule.weekdays}
      [] s.rule.freq = "monthly" ->
           LET i == MonthIndex(StartDay(s)) + k * s.rule.interval
           IN  DaysOfMonth(s.rule, i \div 12, (i % 12) + 1)
      [] s.rule.freq = "yearly" ->
           DaysOfMonth(s.rule, DateOf(StartDay(s)).y + k * s.rule.interval, s.rule.month)

\* A wall clock in a gap is left out, or falls as much later as the gap is
\* long: the code does not choose.
GapPolicy == {"skip", "shift"}

SlotInstants(policy, z, wall) ==
    LET here == Readings(z, wall)
    IN  IF here # {} THEN {Min(here)}
        ELSE IF policy = "shift" THEN {wall - z.winter} ELSE {}

\* Bound: periods in which the next slot is looked for.  A month may lack the day,
\* and the one after it the clock; rules whose slots meet a gap more than twice in
\* a row (every 52 weeks) are beyond it.
Ahead == -1 .. 3

SlotsAhead(s, now, policy) ==
    LET clock == s.rule.clock + (s.start % 60)
        first == PeriodOf(s, DayOf(Wall(s.zone, now)))
        days == UNION {DaysOfPeriod(s, first + k) : k \in Ahead}
    IN  {u \in UNION {SlotInstants(policy, s.zone, At(d, clock)) : d \in days} :
           u >= s.start}

\* Hours, minutes and seconds are counted in UTC.
SecondsAhead(s, now) ==
    LET step == s.rule.interval * s.rule.unit
        k == IF now < s.start THEN 0 ELSE (now - s.start) \div step
    IN  {s.start + k * step, s.start + (k + 1) * step}

-----------------------------------------------------------------------------
\* The library's slots around now, those before the anchor left out.
Slots(s, now, policy) ==
    IF s.rule.freq = "seconds" THEN SecondsAhead(s, now) ELSE SlotsAhead(s, now, policy)

\* next_after: the first slot that is later than now, if there is one.
NextAfter(s, now, policy) ==
    LET later == {u \in IF IsRecurring(s) THEN Slots(s, now, policy) ELSE {s.start} : u > now}
    IN  IF later = {} THEN {} ELSE {Min(later)}
=============================================================================
