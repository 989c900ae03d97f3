------------------------- MODULE CommandsProperties -------------------------
(***************************************************************************)
(* RULES.md, told by the days and the clock that a command names and the   *)
(* moment it is sent: without the parser's ways of searching, its anchors  *)
(* and the rules it hands to the rrule library.                            *)
(***************************************************************************)
EXTENDS Commands, Phrases

means == phrase.means
Accepted == reply.error = None

\* An alert was asked for once, or as a series; at is when it first rings.
Once(kinds) == phrase # Nothing /\ fired = 0 /\ ~phrase.recurring /\ means.kind \in kinds
Running == phrase # Nothing /\ phrase.recurring /\ series # {}
at == The(reply.schedule).start

NamesDays == {"clock", "weekday", "ahead", "date"}

\* The hour that comes twice in autumn, if there is one, begins and ends on the
\* same day, so that an instant on a later day is a later one.
BackWithinDay(z) ==
    LET saving == z.summer - z.winter
    IN  /\ 0 <= saving /\ saving <= DayLength
        /\ ((Hour + z.winter) % DayLength) + saving <= DayLength

\* A clock that is left out in spring comes an hour later on its day: the zone
\* saves an hour, or none, and not in the last two of a day, in whole minutes.
LeftOutHourFollows(z) ==
    /\ z.summer - z.winter \in {0, Hour}
    /\ (Hour + z.winter) % DayLength <= 22 * Hour
    /\ z.winter % 60 = 0

\* Type correctness.  An accepted command has a text and an alert that recurs
\* exactly if it was asked to, at an interval that its rule can hold.
TypeOK ==
    /\ now \in Int /\ zone \in Zones
    /\ phrase = Nothing \/ phrase \in Phrases[zone]
    /\ created \in Moments /\ fire \in Int
    /\ fired \in 0 .. MaxFires
    /\ \A s \in series : s.rule.freq \in Frequency /\ s.rule.interval \in 1 .. MaxInterval
    /\ reply.notes \subseteq {"LeapClampedToFeb28", "MonthDayClamped", "MonthlyLastDay",
                              "MonthlyLastDayFrom", "YearlyFeb29Fallback"}
    /\ Accepted => reply.text # <<>>
    /\ \A s \in reply.schedule : IsRecurring(s) = phrase.recurring

-----------------------------------------------------------------------------
(* Commands for one alert.                                                 *)

ClockMeant ==
    IF means.clock # {} THEN The(means.clock)
    ELSE IF means.kind # "relative" THEN DefaultTime
    ELSE LET clock == ClockOf(Wall(zone, created)) IN clock - (clock % 60)

\* The instant of the time meant on a day, the first of two.  A time that is left
\* out comes an hour later, if that is a time of this day (RULES.md:266).
MeantOn(day) ==
    LET told == Readings(zone, At(day, ClockMeant))
        bumped == {u \in Readings(zone, At(day, ClockMeant) + Hour) : DayOf(Wall(zone, u)) = day}
    IN  IF told # {} THEN {Min(told)} ELSE {u \in bumped : bumped = {u}}
AheadOf(day) == {u \in MeantOn(day) : u > now}

\* The days that an expression may mean, without a look at the time of day.
DaysNamed(m, today) ==
    CASE m.kind = "clock" -> today .. today + 14
      [] m.kind = "weekday" -> {d \in today .. today + 21 : Weekday(d) \in m.days}
      [] m.kind = "ahead" -> {today + m.ahead}
      [] m.kind = "date" ->
           LET date == The(m.date)
               years == IF date.y # 0 THEN {date.y}
                        ELSE DateOf(today).y .. DateOf(today).y + 8
           IN  {DayNumber(d) : d \in {e \in {WithYear(date, y) : y \in years} : Exists(e)}}
DaysMeant == DaysNamed(means, Today)

\* Where the code departs from the rules (NamedTimesAreFound): there is no such
\* instant on the first day that could have it ahead, or the date without a year
\* is neither ahead in this year nor a date of the next.
EachDayTells ==
    \A day \in DaysMeant : MeantOn(day) = {} =>
        \E earlier \in DaysMeant : earlier < day /\ AheadOf(earlier) # {}
DateIsNear ==
    \A date \in means.date : date.y = 0 /\ DaysMeant # {} =>
        LET this == DateOf(Today).y
        IN  \/ Exists(WithYear(date, this)) /\ AheadOf(DayNumber(WithYear(date, this))) # {}
            \/ Exists(WithYear(date, this + 1))

\* A clock, a weekday, a date and a day ahead mean the first of their instants
\* that is ahead, whatever the time of day and wherever clocks change: neither a
\* past nor a later one.  They are refused exactly if there is no text, no
\* instant ahead or no such date (parse_one_shot and its strategies).
NamedTimeIsTheNext ==
    Once(NamesDays) /\ EachDayTells /\ DateIsNear =>
        LET ahead == UNION {AheadOf(day) : day \in DaysMeant}
        IN  IF Accepted THEN means.text # <<>> /\ at \in ahead /\ at = Min(ahead)
            ELSE \/ reply.error = "MissingText" /\ means.text = <<>>
                 \/ reply.error = "InPast" /\ ahead = {}
                 \/ reply.error = "NoTimeExpression" /\ DaysMeant = {}

\* Hours, minutes and seconds are exact, days too unless a clock is given with
\* them; the time between does not depend on zone or season ...
SpansAreExact ==
    Once({"relative"}) /\ Accepted /\ means.clock = {}
        /\ means.spec["Y"] = 0 /\ means.spec["M"] = 0 =>
        at - now = Days(means.spec) * DayLength + Seconds(means.spec)

\* ... and years, months and days before a clock are counted in the calendar, on
\* the date of their months.  The day of the month and the time of day stay as
\* they are: only where that month is too short the day is its last, and a note
\* says so; only where the clocks change the hour is the next.  The weeks and
\* days follow on the date, and the hours, minutes and seconds on that time.
CalendarIsKept ==
    Once({"relative"}) /\ Accepted
        /\ (means.clock # {} \/ means.spec["Y"] + means.spec["M"] > 0) =>
        LET base == Wall(zone, now)
            there == Wall(zone, at - Seconds(means.spec))
            from == DateOf(DayOf(base))
            date == DateOf(DayOf(there) - Days(means.spec))
            clock == IF means.clock = {} THEN ClockOf(base) ELSE ClockMeant
        IN  /\ MonthOf(date) = MonthOf(from) + 12 * means.spec["Y"] + means.spec["M"]
            /\ date.d = from.d <=> reply.notes = {}
            /\ reply.notes # {} => date.d \in 28 .. LastDay(date.y, date.m)
            /\ \/ ClockOf(there) = clock
               \/ ClockOf(there) = clock + Hour
                  /\ Readings(zone, At(DayOf(there), clock)) = {}

\* Relative commands: no silent change of a span (RelSpec::apply).
SpanIsAsSaid == SpansAreExact /\ CalendarIsKept

\* The scanners take the span, the clock and the text for what is meant; in
\* a series there is no "in".
SpanIsRead(p) ==
    LET match == Relative(p.words)
        times == TimeAfterSpec(p.words, match.next, match.spec)
        next == Max({match.next} \cup {t.next : t \in times})
    IN  /\ match.kind = "spec" /\ match.spec = p.means.spec
        /\ {t.clock : t \in times} = p.means.clock
        /\ SubSeq(p.words, next, Len(p.words)) = p.means.text
        /\ p.words[1].key # "today"
        /\ p.recurring => ~IsKey(p.words, 1, "in")

\* ... and likewise the day and its clock, if no other strategy takes them.
NameIsRead(p) ==
    LET from == IF p.means.kind = "clock" THEN 1 ELSE 2
        first == p.words[1]
        times == OptionalTime(p.words, from)
        next == Max({from} \cup {t.next : t \in times})
    IN  /\ p.words # <<>> /\ Relative(p.words).kind = "none"
        /\ {t.clock : t \in times} = p.means.clock
        /\ SubSeq(p.words, next, Len(p.words)) = p.means.text
        /\ first.date = p.means.date
        /\ p.means.kind = "clock" <=> OptionalTime(p.words, 1) # {}
        /\ CASE p.means.kind = "clock" -> first.date = {} /\ first.key # "today"
             [] p.means.kind = "date" ->
                  first.date # {} /\ first.key = None /\ first.days = {}
             [] p.means.kind = "weekday" ->
                  /\ first.date = {} /\ first.key = "weekdays"
                  /\ first.days = p.means.days /\ \E d \in 0 .. 6 : first.days = {d}
             [] p.means.kind = "ahead" ->
                  /\ first.date = {} /\ p.means.ahead \in {1, 2}
                  /\ first.key = IF p.means.ahead = 1 THEN "tomorrow" ELSE "day after tomorrow"

\* ... and the days of a series: weekdays, a day of each month or of each year.
DaysAreRead(p) ==
    LET first == p.words[1]
        times == OptionalTime(p.words, 2)
        next == Max({2} \cup {t.next : t \in times})
        date == The(p.means.date)
    IN  /\ p.words # <<>> /\ Relative(p.words).kind = "none"
        /\ {t.clock : t \in times} = p.means.clock
        /\ SubSeq(p.words, next, Len(p.words)) = p.means.text
        /\ first.days = p.means.days /\ first.date = p.means.date /\ p.means.spec = NoSpec
        /\ CASE p.means.kind = "weekday" -> first.days # {}
             [] p.means.kind = "monthday" ->
                  /\ first.days = {} /\ first.date # {} /\ first.dot
                  /\ date.y = 0 /\ date.m = 0 /\ date.d \in 1 .. 31
             [] p.means.kind = "date" ->
                  /\ first.days = {} /\ first.date # {} /\ ~first.dot
                  /\ date.y = 0 /\ Exists(WithYear(date, 2024))

\* ... but for words that name nothing that recurs.
NothingRecurs(p) ==
    p.words # <<>> =>
        /\ IsKey(p.words, 1, "in") \/ Relative(p.words).kind # "spec"
        /\ p.words[1].days = {}
        /\ \A date \in p.words[1].date :
             \/ date.y # 0
             \/ ~IF p.words[1].dot THEN date.m = 0 /\ date.d \in 1 .. 31
                 ELSE Exists(WithYear(date, 2024))

SeriesIsRead(p) ==
    \/ p.means.kind = "none" /\ NothingRecurs(p)
    \/ p.means.kind = "relative" /\ SpanIsRead(p) /\ p.means.date = {}
    \/ p.means.kind \in {"weekday", "monthday", "date"} /\ DaysAreRead(p)

\* What follows the time expression is the text, word by word: a number after
\* hours or minutes is text, a clock after a date is not.  For such a span a
\* command is refused if a clock was given, and not for a number with which the
\* text begins (consume_optional_time, consume_time_after_spec).
TextAndClockApart ==
    /\ phrase # Nothing /\ phrase.recurring => SeriesIsRead(phrase)
    /\ phrase # Nothing /\ means.kind # "none" =>
        /\ Accepted => reply.text = means.text
        /\ means.kind = "relative" => SpanIsRead(phrase)
        /\ means.kind \in NamesDays /\ ~phrase.recurring => NameIsRead(phrase)
        /\ means.kind = "relative" /\ (phrase.recurring => Accepted) =>
              (reply.error = "SubDayRelWithOverride"
                 <=> HasSubDay(means.spec) /\ means.clock # {})

-----------------------------------------------------------------------------
(* Series.                                                                 *)

FirstDay == DayOf(Wall(zone, created))

IntervalOf(m) == Days(m.spec) * DayLength + Seconds(m.spec)
IntervalMeant == IntervalOf(means)
UnitMeant == Max({u \in {1, 60, Hour} : IntervalMeant % u = 0})

\* Hours, minutes and seconds, but not whole days of them.
BySeconds == means.kind = "relative" /\ Seconds(means.spec) % DayLength # 0

AtDay(date, d) == date.d = AtMost(d, date.y, date.m)

MonthsMeant(m) == 12 * m.spec["Y"] + m.spec["M"]

\* A day of a series: one, two, three intervals after the command or on its
\* day, or a day that was named; the last of a month that is too short.
RingsOn(m, start, day) ==
    LET date == DateOf(day)
        first == DateOf(start)
    IN  CASE m.kind = "weekday" -> Weekday(day) \in m.days
          [] m.kind = "monthday" ->
               IF The(m.date).d = 31 THEN AtDay(date, 31) ELSE date.d = The(m.date).d
          [] m.kind = "date" ->
               date.m = The(m.date).m /\ AtDay(date, The(m.date).d)
          [] m.kind = "relative" /\ MonthsMeant(m) > 0 ->
               (MonthOf(date) - MonthOf(first)) % MonthsMeant(m) = 0 /\ AtDay(date, first.d)
          [] m.kind = "relative" /\ MonthsMeant(m) = 0 ->
               (day - start) % (IntervalOf(m) \div DayLength) = 0
IsRuleDay(day) == RingsOn(means, FirstDay, day)

FireDay == DayOf(Wall(zone, fire))

\* However late its deliveries end, a series rings on its days and at the time
\* that was named, in summer and winter alike (only if this time does not exist
\* on a day, an hour later), or to the second after its intervals, if they are
\* of hours, minutes or seconds (next_dtstart_for_*, Schedule).
RingsAsNamed ==
    /\ Running /\ BySeconds => (fire - created) % IntervalMeant = 0
    /\ Running /\ ~BySeconds =>
          /\ IsRuleDay(FireDay)
          /\ \/ ClockOf(Wall(zone, fire)) = ClockMeant
             \/ ClockOf(Wall(zone, fire)) = ClockMeant + Hour
                /\ Readings(zone, At(FireDay, ClockMeant)) = {}

\* A series never comes to an end ...
GoesOn == Accepted /\ phrase.recurring => series # {}

\* ... its next occurrence is ahead, and none is left out before it, but for one
\* whose time does not exist (one that comes twice counts once) ...
NoneSkipped ==
    Running =>
        /\ fire > now
        /\ BySeconds => fire - now <= IntervalMeant
        /\ ~BySeconds => \A day \in DayOf(Wall(zone, now)) .. FireDay :
             IsRuleDay(day) /\ Readings(zone, At(day, ClockMeant)) # {} =>
                LET u == Min(Readings(zone, At(day, ClockMeant)))
                IN  u > now => fire <= u

\* ... so that a late delivery neither rings twice nor loses a later occurrence,
\* and the first is today or a full interval away (next_after,
\* finalise_after_send, next_dtstart_for_*).
NothingLeftOut == GoesOn /\ NoneSkipped

\* The day of the month, of the command or named by it, unless the month is too
\* short.
NamesDayOfMonth(m) ==
    m.kind \in {"date", "monthday"} \/ m.spec["Y"] + m.spec["M"] > 0
IsDayNamed(m, start, day) ==
    DateOf(day).d = IF m.date = {} THEN DateOf(start).d ELSE The(m.date).d

\* Whenever a series rings on another day of the month than the one named by
\* the command or the calendar, the reply told so (ParseNote).
ClampsAreTold ==
    Running /\ NamesDayOfMonth(means) =>
        reply.notes # {} \/ IsDayNamed(means, FirstDay, FireDay)

\* A series has one interval: a command is refused exactly if it mixes years or
\* months with others, is shorter than half an hour, does not fit in the rules,
\* contradicts itself or has no text (try_recurring_relative).
RefusedOnlyForCause ==
    phrase # Nothing /\ phrase.recurring /\ means.kind = "relative" =>
        LET years == means.spec["Y"] > 0
            months == means.spec["M"] > 0
            rest == Days(means.spec) > 0 \/ HasSubDay(means.spec)
            n == means.spec["Y"] + means.spec["M"] + Days(means.spec)
                 + Seconds(means.spec) \div DayLength
        IN  ~Accepted <=>
              \/ years /\ months
              \/ (years \/ months) /\ rest
              \/ n = 0 /\ Seconds(means.spec) < 1800
              \/ n > MaxInterval
              \/ HasSubDay(means.spec) /\ means.clock # {}
              \/ BySeconds /\ IntervalMeant \div UnitMeant > MaxInterval
              \/ means.text = <<>>

-----------------------------------------------------------------------------
\* What the rules promise on a day: the time meant, or, where it is left out, the
\* time that much later as the clocks are set forward.
PromisedOn(day) ==
    LET wall == At(day, ClockMeant)
        told == Readings(zone, wall)
    IN  IF told # {} THEN Min(told) ELSE wall - zone.winter

\* RULES.md:244-245 and 266, lib.rs:139: the next occurrence of a weekday or a
\* date without a year is searched for, and a time that is left out is moved
\* forward.  A named time that is ahead is neither refused nor missed.
NamedTimesAreFound ==
    Once(NamesDays) /\ means.text # <<>> =>
        LET promised == {u \in {PromisedOn(day) : day \in DaysMeant} : u > now}
        IN  promised # {} => Accepted /\ at <= Min(promised)

\* grammar.rs:156: a longform may be glued on its number, "5min".
LongformsMayBeGlued == phrase # Nothing => Accepted
=============================================================================
