---------------------------- MODULE RelativeTime ----------------------------
(***************************************************************************)
(* RelSpec::apply: the instant that a relative specification names.        *)
(***************************************************************************)
EXTENDS TimeTokens

MaxRelativeYears == 50
MaxOffset == MaxRelativeYears * 366 * DayLength

\* A result of the parser: an error, or an instant and its notes.
Fail(error) == [error |-> error, at |-> 0, notes |-> {}]
Succeed(at, notes) == [error |-> None, at |-> at, notes |-> notes]

Seconds(spec) == Clock(spec["h"], spec["m"]) + spec["s"]
Days(spec) == 7 * spec["w"] + spec["d"]

\* Years, then months, each onto a day that exists.
\* mutant
YearsLaterIntoMarch(date, n) ==
    IF n = 0 \/ Exists(WithYear(date, date.y + n)) THEN WithYear(date, date.y + n)
    ELSE [y |-> date.y + n, m |-> 3, d |-> 1]
YearsLater(date, n) ==
    IF n = 0 \/ Exists(WithYear(date, date.y + n)) THEN WithYear(date, date.y + n)
    ELSE [WithYear(date, date.y + n) EXCEPT !.d = 28]

CalendarDate(date, spec) == MonthsLater(YearsLater(date, spec["Y"]), spec["M"])

Notes(date, spec) ==
    LET later == YearsLater(date, spec["Y"])
    IN  (IF later.d < date.d THEN {"LeapClampedToFeb28"} ELSE {})
        \cup (IF CalendarDate(date, spec).d < later.d THEN {"MonthDayClamped"} ELSE {})

Near(at, base, notes) ==
    IF at - base > MaxOffset THEN Fail("RelTooFar") ELSE Succeed(at, notes)

\* Without years, months and a clock: exact seconds.
ApplyExactly(spec, base) ==
    Near(base + Days(spec) * DayLength + Seconds(spec), base, {})

\* Else: the date of the calendar, with the clock, and the seconds.
OnCalendar(spec, base, here, clock, notes) ==
    IF here = {} THEN Fail("InvalidTime")
    ELSE Near(The(here) + (IF clock = {} THEN Seconds(spec) ELSE 0), base, notes)

ApplyByCalendar(spec, base, z, clock) ==
    LET wall == Wall(z, base)
        date == DateOf(DayOf(wall))
        day == DayNumber(CalendarDate(date, spec)) + Days(spec)
        time == IF clock = {} THEN ClockOf(wall) ELSE The(clock)
    IN  OnCalendar(spec, base, Resolve(z, At(day, time)), clock, Notes(date, spec))

\* clock: the set of the override, if there is one.
Apply(spec, base, z, clock) ==
    IF IsZero(spec) THEN Fail("NoTimeExpression")
    ELSE IF clock # {} /\ HasSubDay(spec) THEN Fail("SubDayRelWithOverride")
    ELSE IF spec["Y"] > MaxRelativeYears THEN Fail("RelTooFar")
    ELSE IF clock = {} /\ spec["Y"] = 0 /\ spec["M"] = 0 THEN ApplyExactly(spec, base)
    ELSE ApplyByCalendar(spec, base, z, clock)
=============================================================================
