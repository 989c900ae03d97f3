------------------------------ MODULE Calendar ------------------------------
(***************************************************************************)
(* Dates as the code takes them from chrono: the proleptic Gregorian       *)
(* calendar.  A date is a record, or the number of its day.                *)
(***************************************************************************)
EXTENDS Integers

\* The bot is not older than this year; instants count from its first day.
FirstYear == 2024

IsLeap(y) == (y % 4 = 0 /\ y % 100 # 0) \/ y % 400 = 0

\* last_day_of_month.
LastDay(y, m) ==
    IF m = 2 THEN (IF IsLeap(y) THEN 29 ELSE 28)
    ELSE IF m \in {4, 6, 9, 11} THEN 30 ELSE 31

Date == [y : Int, m : Int, d : Int]

\* NaiveDate::from_ymd_opt.
Exists(date) == date.m \in 1 .. 12 /\ date.d \in 1 .. LastDay(date.y, date.m)

DaysBeforeYear(y) ==
    365 * (y - 1) + (y - 1) \div 4 - (y - 1) \div 100 + (y - 1) \div 400

DaysBeforeMonth(y, m) ==
    <<0, 31, 59, 90, 120, 151, 181, 212, 243, 273, 304, 334>>[m]
    + (IF m > 2 /\ IsLeap(y) THEN 1 ELSE 0)

\* Day 0 is the first of January of FirstYear.
FirstDayOf(y) == DaysBeforeYear(y) - DaysBeforeYear(FirstYear)

DayNumber(date) ==
    FirstDayOf(date.y) + DaysBeforeMonth(date.y, date.m) + date.d - 1

\* 400 years are 146097 days, and no year is longer than 366.
YearOf(n) ==
    LET about == FirstYear + 400 * (n \div 146097) + (n % 146097) \div 366
    IN  CHOOSE y \in about - 1 .. about + 1 :
            FirstDayOf(y) <= n /\ n < FirstDayOf(y + 1)

DateIn(y, in) ==
    LET m == CHOOSE m \in 1 .. 12 :
               /\ DaysBeforeMonth(y, m) <= in
               /\ m < 12 => in < DaysBeforeMonth(y, m + 1)
    IN  [y |-> y, m |-> m, d |-> in - DaysBeforeMonth(y, m) + 1]

DateOf(n) == DateIn(YearOf(n), n - FirstDayOf(YearOf(n)))

\* num_days_from_monday; the first of January 2024 was a Monday.
Weekday(n) == n % 7

LastSunday(y, m) ==
    LET last == DayNumber([y |-> y, m |-> m, d |-> LastDay(y, m)])
    IN  last - ((Weekday(last) + 1) % 7)

\* NaiveDate::with_year, which fails for 29 February, and
\* checked_add_months, which takes the last day of a shorter month.
WithYear(date, y) == [date EXCEPT !.y = y]

MonthsLater(date, n) ==
    LET k == (12 * date.y + date.m - 1) + n
        y == k \div 12
        m == (k % 12) + 1
    IN  [y |-> y, m |-> m,
         d |-> IF date.d > LastDay(y, m) THEN LastDay(y, m) ELSE date.d]
=============================================================================
