--------------------------- MODULE CommandsProofs ---------------------------
(***************************************************************************)
(* Proofs about times: the calendar, wall clocks, spans, the rules of a    *)
(* series and what a command means, for every zone, moment and span.       *)
(***************************************************************************)
EXTENDS CommandsProperties, FiniteSetTheorems, WellFoundedInduction, TLAPS

-----------------------------------------------------------------------------
(* The calendar: every day has one date, every date one day.  The quotients *)
(* of the Gregorian rule are given to the provers as numbers of their own. *)

LEMMA Quotients ==
    ASSUME NEW x \in Int
    PROVE  /\ x \div 4 \in Int /\ 4 * (x \div 4) <= x /\ x <= 4 * (x \div 4) + 3
           /\ x \div 100 \in Int /\ 100 * (x \div 100) <= x /\ x <= 100 * (x \div 100) + 99
           /\ x \div 400 \in Int /\ 400 * (x \div 400) <= x /\ x <= 400 * (x \div 400) + 399
  OBVIOUS

\* A year starts 365 days after the one before, or 366.
LEMMA YearLength ==
    ASSUME NEW y \in Int
    PROVE  /\ FirstDayOf(y) \in Int
           /\ FirstDayOf(y + 1) = FirstDayOf(y) + (IF IsLeap(y) THEN 366 ELSE 365)
<1>1. y \div 4 = (y - 1) \div 4 + (IF y % 4 = 0 THEN 1 ELSE 0)
  OBVIOUS
<1>2. y \div 100 = (y - 1) \div 100 + (IF y % 100 = 0 THEN 1 ELSE 0)
  OBVIOUS
<1>3. y \div 400 = (y - 1) \div 400 + (IF y % 400 = 0 THEN 1 ELSE 0)
  OBVIOUS
<1>4. (y % 400 = 0 => y % 100 = 0) /\ (y % 100 = 0 => y % 4 = 0)
  OBVIOUS
<1> QED BY <1>1, <1>2, <1>3, <1>4 DEF FirstDayOf, DaysBeforeYear, IsLeap, FirstYear

LEMMA EraLength ==
    ASSUME NEW y \in Int, NEW e \in Int
    PROVE  FirstDayOf(y + 400 * e) = FirstDayOf(y) + 146097 * e
<1> DEFINE x == y - 1
<1>1. (x + 400 * e) \div 4 = x \div 4 + 100 * e
  OBVIOUS
<1>2. (x + 400 * e) \div 100 = x \div 100 + 4 * e
  OBVIOUS
<1>3. (x + 400 * e) \div 400 = x \div 400 + e
  OBVIOUS
<1>4. (y + 400 * e) - 1 = x + 400 * e /\ x \in Int
  OBVIOUS
<1>5. x \div 4 \in Int /\ x \div 100 \in Int /\ x \div 400 \in Int
  OBVIOUS
<1> HIDE DEF x
<1>6. DaysBeforeYear(y + 400 * e) = 365 * (x + 400 * e) + (x \div 4 + 100 * e)
         - (x \div 100 + 4 * e) + (x \div 400 + e)
  BY <1>1, <1>2, <1>3, <1>4 DEF DaysBeforeYear
<1>7. DaysBeforeYear(y) = 365 * x + x \div 4 - x \div 100 + x \div 400
  BY DEF DaysBeforeYear, x
<1>8. DaysBeforeYear(FirstYear) \in Int
  BY DEF DaysBeforeYear, FirstYear
<1> QED BY <1>4, <1>5, <1>6, <1>7, <1>8 DEF FirstDayOf

LEMMA YearsInOrder ==
    ASSUME NEW y \in Int, NEW x \in Int, y < x
    PROVE  FirstDayOf(y + 1) <= FirstDayOf(x)
<1> DEFINE d == x - 1
<1>1. d \in Int /\ y <= d /\ (y + 1) - 1 = y
  OBVIOUS
<1>2. DaysBeforeYear(x) = 365 * d + d \div 4 - d \div 100 + d \div 400
  BY DEF DaysBeforeYear
<1>3. DaysBeforeYear(y + 1) = 365 * y + y \div 4 - y \div 100 + y \div 400
  BY <1>1 DEF DaysBeforeYear
<1> HIDE DEF d
<1> DEFINE d1 == d \div 4
           d2 == d \div 100
           d3 == d \div 400
           y1 == y \div 4
           y2 == y \div 100
           y3 == y \div 400
<1>4. /\ d1 \in Int /\ 4 * d1 <= d /\ d <= 4 * d1 + 3
      /\ d2 \in Int /\ 100 * d2 <= d /\ d <= 100 * d2 + 99
      /\ d3 \in Int /\ 400 * d3 <= d /\ d <= 400 * d3 + 399
  BY <1>1, Quotients
<1>5. /\ y1 \in Int /\ 4 * y1 <= y /\ y <= 4 * y1 + 3
      /\ y2 \in Int /\ 100 * y2 <= y /\ y <= 100 * y2 + 99
      /\ y3 \in Int /\ 400 * y3 <= y /\ y <= 400 * y3 + 399
  BY Quotients
<1>6. DaysBeforeYear(FirstYear) \in Int
  BY DEF DaysBeforeYear, FirstYear
<1> HIDE DEF d1, d2, d3, y1, y2, y3
<1>7. y1 <= d1 /\ y3 <= d3
  BY <1>1, <1>4, <1>5
<1>8. d2 - y2 <= 365 * (d - y)
  BY <1>1, <1>4, <1>5
<1>9. 365 * y + y1 - y2 + y3 <= 365 * d + d1 - d2 + d3
  BY <1>1, <1>4, <1>5, <1>7, <1>8
<1>10. DaysBeforeYear(y + 1) <= DaysBeforeYear(x)
  BY <1>2, <1>3, <1>9 DEF d1, d2, d3, y1, y2, y3
<1>11. DaysBeforeYear(y + 1) \in Int /\ DaysBeforeYear(x) \in Int
  BY <1>1, <1>2, <1>3, <1>4, <1>5 DEF d1, d2, d3, y1, y2, y3
<1> QED BY <1>6, <1>10, <1>11 DEF FirstDayOf

\* Within 400 years of FirstYear the year is found by its number of days.
LEMMA YearInEra ==
    ASSUME NEW j \in Int, 0 <= j, j <= 399, NEW n \in Int, 366 * j <= n, n <= 366 * j + 365
    PROVE  FirstDayOf(FirstYear + j) <= n /\ n < FirstDayOf(FirstYear + j + 2)
<1> DEFINE p == 2023 + j
           q == 2025 + j
<1>1. p \in Int /\ q \in Int /\ (FirstYear + j) - 1 = p /\ (FirstYear + j + 2) - 1 = q
  BY DEF FirstYear
<1>2. DaysBeforeYear(FirstYear + j) = 365 * p + p \div 4 - p \div 100 + p \div 400
  BY <1>1 DEF DaysBeforeYear
<1>3. DaysBeforeYear(FirstYear + j + 2) = 365 * q + q \div 4 - q \div 100 + q \div 400
  BY <1>1 DEF DaysBeforeYear
<1>4. DaysBeforeYear(FirstYear) = 365 * 2023 + 505 - 20 + 5
  BY DEF DaysBeforeYear, FirstYear
<1> DEFINE p1 == p \div 4
           p2 == p \div 100
           p3 == p \div 400
           q1 == q \div 4
           q2 == q \div 100
           q3 == q \div 400
<1>5. /\ p1 \in Int /\ 4 * p1 <= p /\ p <= 4 * p1 + 3
      /\ p2 \in Int /\ 100 * p2 <= p /\ p <= 100 * p2 + 99
      /\ p3 \in Int /\ 400 * p3 <= p /\ p <= 400 * p3 + 399
  BY <1>1, Quotients
<1>6. /\ q1 \in Int /\ 4 * q1 <= q /\ q <= 4 * q1 + 3
      /\ q2 \in Int /\ 100 * q2 <= q /\ q <= 100 * q2 + 99
      /\ q3 \in Int /\ 400 * q3 <= q /\ q <= 400 * q3 + 399
  BY <1>1, Quotients
<1> HIDE DEF p1, p2, p3, q1, q2, q3
<1>7. 365 * p + p1 - p2 + p3 - (365 * 2023 + 505 - 20 + 5) <= n
  <2>1. p1 - 505 <= j /\ p3 - 5 <= p2 - 20
    BY <1>5
  <2> QED BY <1>5, <2>1
<1>8. n < 365 * q + q1 - q2 + q3 - (365 * 2023 + 505 - 20 + 5)
  BY <1>6
<1> QED BY <1>2, <1>3, <1>4, <1>7, <1>8 DEF FirstDayOf, p1, p2, p3, q1, q2, q3

LEMMA YearFound ==
    ASSUME NEW n \in Int
    PROVE  /\ YearOf(n) \in Int
           /\ FirstDayOf(YearOf(n)) <= n /\ n < FirstDayOf(YearOf(n) + 1)
<1> DEFINE e == n \div 146097
           r == n % 146097
           j == r \div 366
           a == FirstYear + 400 * e + j
<1>1. e \in Int /\ r \in Int /\ 0 <= r /\ r <= 146096 /\ n = 146097 * e + r
  <2>1. e \in Int /\ r \in Int
    BY SMT
  <2>2. 0 <= r /\ r <= 146096
    BY SMT
  <2>3. r = n - 146097 * e
    BY SMT
  <2> QED BY <2>1, <2>2, <2>3, SMT
<1>2. j \in Int /\ 0 <= j /\ j <= 399 /\ 366 * j <= r /\ r <= 366 * j + 365
  BY <1>1, SMT
<1>3. FirstDayOf(FirstYear + j) <= r /\ r < FirstDayOf(FirstYear + j + 2)
  BY <1>1, <1>2, YearInEra
<1> HIDE DEF e, r, j
<1>4. FirstYear + j \in Int /\ FirstYear + j + 2 \in Int
  BY <1>2 DEF FirstYear
<1>5. /\ FirstDayOf(FirstYear + j + 400 * e) = FirstDayOf(FirstYear + j) + 146097 * e
      /\ FirstDayOf(FirstYear + j + 2 + 400 * e) = FirstDayOf(FirstYear + j + 2) + 146097 * e
  BY <1>1, <1>4, EraLength
<1>6. a \in Int /\ a = FirstYear + j + 400 * e /\ a + 1 + 1 = FirstYear + j + 2 + 400 * e
  BY <1>1, <1>2 DEF FirstYear
<1>7. FirstDayOf(FirstYear + j) \in Int /\ FirstDayOf(FirstYear + j + 2) \in Int
  BY <1>4, YearLength
<1>8. FirstDayOf(a) <= n /\ n < FirstDayOf(a + 1 + 1)
  BY <1>1, <1>3, <1>5, <1>6, <1>7
<1> HIDE DEF a
<1>9. \E y \in a - 1 .. a + 1 : FirstDayOf(y) <= n /\ n < FirstDayOf(y + 1)
  <2>1. FirstDayOf(a + 1) \in Int
    BY <1>6, YearLength
  <2>2. a \in a - 1 .. a + 1 /\ a + 1 \in a - 1 .. a + 1
    BY <1>6
  <2> QED BY <1>8, <2>1, <2>2
<1>10. YearOf(n) = CHOOSE y \in a - 1 .. a + 1 : FirstDayOf(y) <= n /\ n < FirstDayOf(y + 1)
  BY DEF YearOf, a, e, r, j
<1>11. YearOf(n) \in a - 1 .. a + 1
       /\ FirstDayOf(YearOf(n)) <= n /\ n < FirstDayOf(YearOf(n) + 1)
  BY <1>9, <1>10
<1> QED BY <1>6, <1>11

\* It is the only one.
LEMMA YearUnique ==
    ASSUME NEW n \in Int, NEW y \in Int, FirstDayOf(y) <= n, n < FirstDayOf(y + 1)
    PROVE  YearOf(n) = y
<1> DEFINE x == YearOf(n)
<1>1. x \in Int /\ FirstDayOf(x) <= n /\ n < FirstDayOf(x + 1)
  BY YearFound
<1> HIDE DEF x
<1>2. /\ FirstDayOf(x) \in Int /\ FirstDayOf(x + 1) \in Int
      /\ FirstDayOf(y) \in Int /\ FirstDayOf(y + 1) \in Int
  BY <1>1, YearLength
<1>3. CASE x < y
  BY <1>1, <1>2, <1>3, YearsInOrder
<1>4. CASE y < x
  BY <1>1, <1>2, <1>4, YearsInOrder
<1> QED BY <1>1, <1>3, <1>4 DEF x

-----------------------------------------------------------------------------
(* Months and days.                                                        *)

\* A month starts when the one before has had its last day, and the last one
\* ends the year.
MonthFits(y, m) ==
    /\ DaysBeforeMonth(y, m) \in Nat /\ LastDay(y, m) \in 28 .. 31
    /\ m < 12 => DaysBeforeMonth(y, m + 1) = DaysBeforeMonth(y, m) + LastDay(y, m)
    /\ DaysBeforeMonth(y, 1) = 0
    /\ DaysBeforeMonth(y, 12) + LastDay(y, 12) = IF IsLeap(y) THEN 366 ELSE 365

LEMMA MonthsFit == \A y \in Int : \A m \in 1 .. 12 : MonthFits(y, m)
<1> SUFFICES ASSUME NEW y \in Int, NEW m \in 1 .. 12 PROVE MonthFits(y, m)
  OBVIOUS
<1>1. m \in {1, 2, 3, 4, 5, 6, 7, 8, 9, 10, 11, 12}
  OBVIOUS
<1> QED BY <1>1 DEF MonthFits, DaysBeforeMonth, LastDay

LEMMA MonthLength ==
    ASSUME NEW y \in Int, NEW m \in 1 .. 12
    PROVE  /\ DaysBeforeMonth(y, m) \in Nat
           /\ LastDay(y, m) \in 28 .. 31
           /\ m < 12 => DaysBeforeMonth(y, m + 1) = DaysBeforeMonth(y, m) + LastDay(y, m)
           /\ DaysBeforeMonth(y, 1) = 0
           /\ DaysBeforeMonth(y, 12) + LastDay(y, 12) = IF IsLeap(y) THEN 366 ELSE 365
<1>1. MonthFits(y, m)
  BY MonthsFit
<1> QED BY <1>1 DEF MonthFits

LEMMA MonthsInOrder ==
    ASSUME NEW y \in Int, NEW m \in 1 .. 12, NEW k \in 1 .. 12, m < k
    PROVE  DaysBeforeMonth(y, m) + LastDay(y, m) <= DaysBeforeMonth(y, k)
<1> DEFINE leap == IF IsLeap(y) THEN 1 ELSE 0
<1>1. leap \in {0, 1}
  OBVIOUS
<1>2. m \in {1, 2, 3, 4, 5, 6, 7, 8, 9, 10, 11} /\ k \in {2, 3, 4, 5, 6, 7, 8, 9, 10, 11, 12}
  OBVIOUS
<1>3. CASE IsLeap(y)
  BY <1>2, <1>3 DEF DaysBeforeMonth, LastDay
<1>4. CASE ~IsLeap(y)
  BY <1>2, <1>4 DEF DaysBeforeMonth, LastDay
<1> QED BY <1>3, <1>4

\* The day of a year is one day of one month.
LEMMA MonthFound ==
    ASSUME NEW y \in Int, NEW n \in Int, 0 <= n,
           n < (IF IsLeap(y) THEN 366 ELSE 365)
    PROVE  \E m \in 1 .. 12 : /\ DaysBeforeMonth(y, m) <= n
                              /\ m < 12 => n < DaysBeforeMonth(y, m + 1)
<1>1. DaysBeforeMonth(y, 1) = 0
  BY MonthLength
<1> DEFINE F(m) == DaysBeforeMonth(y, m)
<1>2. /\ F(1) = 0
      /\ F(1) \in Int /\ F(2) \in Int /\ F(3) \in Int /\ F(4) \in Int /\ F(5) \in Int
      /\ F(6) \in Int /\ F(7) \in Int /\ F(8) \in Int /\ F(9) \in Int /\ F(10) \in Int
      /\ F(11) \in Int /\ F(12) \in Int
  BY MonthLength
<1> HIDE DEF F
<1> SUFFICES \E m \in 1 .. 12 : F(m) <= n /\ (m < 12 => n < F(m + 1))
  BY DEF F
<1>3. CASE n < F(2)
  BY <1>2, <1>3
<1>4. CASE F(2) <= n /\ n < F(3)
  BY <1>2, <1>4
<1>5. CASE F(3) <= n /\ n < F(4)
  BY <1>2, <1>5
<1>6. CASE F(4) <= n /\ n < F(5)
  BY <1>2, <1>6
<1>7. CASE F(5) <= n /\ n < F(6)
  BY <1>2, <1>7
<1>8. CASE F(6) <= n /\ n < F(7)
  BY <1>2, <1>8
<1>9. CASE F(7) <= n /\ n < F(8)
  BY <1>2, <1>9
<1>10. CASE F(8) <= n /\ n < F(9)
  BY <1>2, <1>10
<1>11. CASE F(9) <= n /\ n < F(10)
  BY <1>2, <1>11
<1>12. CASE F(10) <= n /\ n < F(11)
  BY <1>2, <1>12
<1>13. CASE F(11) <= n /\ n < F(12)
  BY <1>2, <1>13
<1>14. CASE F(12) <= n
  BY <1>2, <1>14
<1> QED
  BY <1>2, <1>3, <1>4, <1>5, <1>6, <1>7, <1>8, <1>9, <1>10, <1>11, <1>12, <1>13, <1>14

LEMMA DateInYear ==
    ASSUME NEW y \in Int, NEW n \in Int, 0 <= n,
           n < (IF IsLeap(y) THEN 366 ELSE 365)
    PROVE  LET date == DateIn(y, n) IN
           /\ date \in Date /\ date.y = y /\ Exists(date)
           /\ DaysBeforeMonth(y, date.m) + date.d - 1 = n
<1> DEFINE OfMonth(m) == /\ DaysBeforeMonth(y, m) <= n
                         /\ m < 12 => n < DaysBeforeMonth(y, m + 1)
           k == CHOOSE m \in 1 .. 12 : OfMonth(m)
<1>1. k \in 1 .. 12 /\ OfMonth(k)
  <2>1. \E m \in 1 .. 12 : OfMonth(m)
    BY MonthFound
  <2> QED BY <2>1
<1>2. DateIn(y, n) = [y |-> y, m |-> k, d |-> n - DaysBeforeMonth(y, k) + 1]
  BY DEF DateIn
<1> HIDE DEF k
<1>3. /\ DaysBeforeMonth(y, k) \in Nat /\ LastDay(y, k) \in 28 .. 31
      /\ k < 12 => DaysBeforeMonth(y, k + 1) = DaysBeforeMonth(y, k) + LastDay(y, k)
      /\ DaysBeforeMonth(y, 12) + LastDay(y, 12) = IF IsLeap(y) THEN 366 ELSE 365
  <2>1. k \in 1 .. 12
    BY <1>1
  <2>2. MonthFits(y, k)
    BY <2>1, MonthsFit
  <2> QED BY <2>2 DEF MonthFits
<1>4. n < DaysBeforeMonth(y, k) + LastDay(y, k)
  <2>1. CASE k < 12
    BY <1>1, <1>3, <2>1
  <2>2. CASE k = 12
    BY <1>3, <2>2
  <2> QED BY <1>1, <2>1, <2>2
<1>5. n - DaysBeforeMonth(y, k) + 1 \in 1 .. LastDay(y, k)
  BY <1>1, <1>3, <1>4
<1> QED BY <1>1, <1>2, <1>3, <1>5 DEF Date, Exists

\* The date of a day exists, and the day is the one of the date.
LEMMA DateOfDay ==
    ASSUME NEW n \in Int
    PROVE  DateOf(n) \in Date /\ Exists(DateOf(n)) /\ DayNumber(DateOf(n)) = n
<1> DEFINE y == YearOf(n)
           i == n - FirstDayOf(y)
<1>1. y \in Int /\ FirstDayOf(y) <= n /\ n < FirstDayOf(y + 1)
  BY YearFound
<1>2. FirstDayOf(y) \in Int /\ FirstDayOf(y + 1) = FirstDayOf(y) + (IF IsLeap(y) THEN 366 ELSE 365)
  BY <1>1, YearLength
<1>3. i \in Int /\ 0 <= i /\ i < (IF IsLeap(y) THEN 366 ELSE 365)
  BY <1>1, <1>2
<1>4. DateOf(n) = DateIn(y, i)
  BY DEF DateOf
<1> HIDE DEF y
<1>5. /\ DateOf(n) \in Date /\ DateOf(n).y = y /\ Exists(DateOf(n))
      /\ DaysBeforeMonth(y, DateOf(n).m) + DateOf(n).d - 1 = i
  BY <1>1, <1>3, <1>4, DateInYear
<1>6. DaysBeforeMonth(y, DateOf(n).m) \in Nat /\ DateOf(n).d \in Int
  BY <1>1, <1>5, MonthLength DEF Exists, Date
<1>7. DayNumber(DateOf(n)) = FirstDayOf(y) + (DaysBeforeMonth(y, DateOf(n).m) + DateOf(n).d - 1)
  BY <1>2, <1>5, <1>6 DEF DayNumber
<1> QED BY <1>2, <1>5, <1>7

\* A date that exists is the date of its day.
LEMMA DayOfDate ==
    ASSUME NEW date \in Date, Exists(date)
    PROVE  DayNumber(date) \in Int /\ DateOf(DayNumber(date)) = date
<1> DEFINE n == DayNumber(date)
           y == date.y
           i == DaysBeforeMonth(y, date.m) + date.d - 1
<1>1. /\ y \in Int /\ date.m \in 1 .. 12 /\ date.d \in 1 .. LastDay(y, date.m)
      /\ date = [y |-> y, m |-> date.m, d |-> date.d]
  BY DEF Date, Exists
<1>2. /\ DaysBeforeMonth(y, date.m) \in Nat /\ LastDay(y, date.m) \in 28 .. 31
      /\ date.m < 12 => DaysBeforeMonth(y, date.m + 1) = DaysBeforeMonth(y, date.m) + LastDay(y, date.m)
      /\ DaysBeforeMonth(y, 12) + LastDay(y, 12) = IF IsLeap(y) THEN 366 ELSE 365
  BY <1>1, MonthLength
<1>3. /\ FirstDayOf(y) \in Int
      /\ FirstDayOf(y + 1) = FirstDayOf(y) + (IF IsLeap(y) THEN 366 ELSE 365)
  BY <1>1, YearLength
<1>4. n = FirstDayOf(y) + i /\ i \in Int
  BY <1>1, <1>2, <1>3 DEF DayNumber
<1>5. 0 <= i /\ i < (IF IsLeap(y) THEN 366 ELSE 365)
  <2>1. CASE date.m = 12
    BY <1>1, <1>2, <2>1
  <2>2. CASE date.m < 12
    <3>1. DaysBeforeMonth(y, date.m) + LastDay(y, date.m) <= DaysBeforeMonth(y, 12)
      BY <1>1, <2>2, MonthsInOrder
    <3>2. DaysBeforeMonth(y, 12) \in Nat /\ LastDay(y, 12) \in 28 .. 31
      BY <1>1, MonthLength
    <3> QED BY <1>1, <1>2, <3>1, <3>2
  <2> QED BY <1>1, <2>1, <2>2
<1>6. YearOf(n) = y
  BY <1>1, <1>3, <1>4, <1>5, YearUnique
<1>7. DateOf(n) = DateIn(y, i)
  BY <1>3, <1>4, <1>6 DEF DateOf
<1> DEFINE OfMonth(m) == /\ DaysBeforeMonth(y, m) <= i
                         /\ m < 12 => i < DaysBeforeMonth(y, m + 1)
           k == CHOOSE m \in 1 .. 12 : OfMonth(m)
<1>8. OfMonth(date.m)
  BY <1>1, <1>2
<1>9. k \in 1 .. 12 /\ OfMonth(k)
  BY <1>1, <1>8
<1>10. DateOf(n) = [y |-> y, m |-> k, d |-> i - DaysBeforeMonth(y, k) + 1]
  BY <1>7 DEF DateIn
<1> HIDE DEF k, n
<1>11. k = date.m
  <2>1. /\ DaysBeforeMonth(y, k) \in Nat /\ LastDay(y, k) \in 28 .. 31
        /\ k < 12 => DaysBeforeMonth(y, k + 1) = DaysBeforeMonth(y, k) + LastDay(y, k)
    BY <1>1, <1>9, MonthLength
  <2>2. CASE k < date.m
    <3>1. DaysBeforeMonth(y, k) + LastDay(y, k) <= DaysBeforeMonth(y, date.m)
      BY <1>1, <1>9, <2>2, MonthsInOrder
    <3> QED BY <1>1, <1>2, <1>8, <1>9, <2>1, <2>2, <3>1
  <2>3. CASE date.m < k
    <3>1. DaysBeforeMonth(y, date.m) + LastDay(y, date.m) <= DaysBeforeMonth(y, k)
      BY <1>1, <1>9, <2>3, MonthsInOrder
    <3> QED BY <1>1, <1>2, <1>4, <1>9, <2>1, <2>3, <3>1
  <2> QED BY <1>1, <1>9, <2>2, <2>3
<1>12. i - DaysBeforeMonth(y, k) + 1 = date.d
  BY <1>1, <1>2, <1>11
<1> QED BY <1>1, <1>3, <1>4, <1>10, <1>11, <1>12 DEF n

-----------------------------------------------------------------------------
(* Wall clocks.                                                            *)

LEMMA ClockParts ==
    ASSUME NEW t \in Int
    PROVE  /\ DayOf(t) \in Int /\ ClockOf(t) \in Int
           /\ 0 <= ClockOf(t) /\ ClockOf(t) < DayLength
           /\ At(DayOf(t), ClockOf(t)) = t
<1>1. t \div 86400 \in Int /\ t % 86400 \in Int
  BY SMT
<1>2. 0 <= t % 86400 /\ t % 86400 <= 86399
  BY SMT
<1>3. t % 86400 = t - 86400 * (t \div 86400)
  BY SMT
<1> DEFINE q == t \div 86400
           r == t % 86400
<1>4. DayOf(t) = q /\ ClockOf(t) = r /\ At(q, r) = q * 86400 + r
  BY DEF DayOf, ClockOf, At, DayLength
<1>5. q \in Int /\ r \in Int /\ 0 <= r /\ r < 86400 /\ r = t - 86400 * q
  BY <1>1, <1>2, <1>3, SMT
<1> HIDE DEF q, r
<1>6. q * 86400 + r = t
  BY <1>5, SMT
<1> QED BY <1>4, <1>5, <1>6, SMT DEF DayLength

LEMMA PartsOfAt ==
    ASSUME NEW day \in Int, NEW clock \in Int, 0 <= clock, clock < DayLength
    PROVE  /\ At(day, clock) \in Int
           /\ DayOf(At(day, clock)) = day /\ ClockOf(At(day, clock)) = clock
<1> DEFINE t == day * 86400 + clock
<1>1. clock < 86400 /\ t \in Int
  BY SMT DEF DayLength
<1>2. t \div 86400 = day
  BY <1>1, SMT
<1>3. t % 86400 = clock
  BY <1>1, SMT
<1> QED BY <1>1, <1>2, <1>3, SMT DEF At, DayOf, ClockOf, DayLength

LEMMA WallType ==
    ASSUME NEW z \in Zone, NEW u \in Int
    PROVE  /\ Offset(z, u) \in {z.summer, z.winter} /\ Offset(z, u) \in Int
           /\ Wall(z, u) \in Int /\ z.summer \in Int /\ z.winter \in Int
<1>1. z.summer \in Int /\ z.winter \in Int
  BY DEF Zone
<1>2. Offset(z, u) \in {z.summer, z.winter}
  BY DEF Offset
<1> QED BY <1>1, <1>2 DEF Wall

LEMMA ReadingsType ==
    ASSUME NEW z \in Zone, NEW wall \in Int
    PROVE  /\ Readings(z, wall) \subseteq {wall - z.summer, wall - z.winter}
           /\ \A u \in Readings(z, wall) : u \in Int /\ Wall(z, u) = wall
           /\ IsFiniteSet(Readings(z, wall))
           /\ \A u \in Int : Wall(z, u) = wall => u \in Readings(z, wall)
<1>1. z.summer \in Int /\ z.winter \in Int
  BY DEF Zone
<1>2. Readings(z, wall) \subseteq {wall - z.summer, wall - z.winter}
  BY DEF Readings
<1>3. IsFiniteSet({wall - z.summer} \cup {wall - z.winter})
  <2>1. IsFiniteSet({wall - z.summer})
    BY FS_Singleton
  <2> QED BY <2>1, FS_AddElement
<1>4. IsFiniteSet({wall - z.summer, wall - z.winter})
  <2>1. {wall - z.summer, wall - z.winter} = {wall - z.summer} \cup {wall - z.winter}
    OBVIOUS
  <2> QED BY <1>3, <2>1
<1>5. IsFiniteSet(Readings(z, wall))
  BY <1>2, <1>4, FS_Subset
<1>6. \A u \in Readings(z, wall) : u \in Int /\ Wall(z, u) = wall
  BY <1>1 DEF Readings
<1>7. ASSUME NEW u \in Int, Wall(z, u) = wall PROVE u \in Readings(z, wall)
  <2>1. u = wall - Offset(z, u)
    BY <1>7, WallType DEF Wall
  <2> QED BY <1>7, <2>1, WallType DEF Readings
<1> QED BY <1>2, <1>5, <1>6, <1>7

\* The earlier of one or two instants.
LEMMA EarlierReading ==
    ASSUME NEW z \in Zone, NEW wall \in Int, Readings(z, wall) # {}
    PROVE  /\ Min(Readings(z, wall)) \in Readings(z, wall)
           /\ \A u \in Readings(z, wall) : Min(Readings(z, wall)) <= u
<1> DEFINE S == Readings(z, wall)
           a == wall - z.summer
           b == wall - z.winter
<1>1. a \in Int /\ b \in Int
  BY DEF Zone
<1>2. S \subseteq {a, b} /\ S # {}
  BY ReadingsType
<1> HIDE DEF S, a, b
<1>3. \E x \in S : \A y \in S : x <= y
  <2>1. a <= a /\ b <= b
    BY <1>1
  <2>2. \A y \in S : y = a \/ y = b
    BY <1>2
  <2>3. CASE a \in S /\ (b \in S => a <= b)
    BY <2>1, <2>2, <2>3
  <2>4. CASE b \in S /\ (a \in S => b <= a)
    BY <2>1, <2>2, <2>4
  <2>5. a <= b \/ b <= a
    BY <1>1
  <2>6. a \in S \/ b \in S
    BY <1>2, <2>2
  <2> QED BY <2>3, <2>4, <2>5, <2>6
<1> QED BY <1>3 DEF Min, S

\* local_to_utc finds at most one instant; the wall clock there is the one
\* asked for or, where it does not exist, an hour later on the same day.
LEMMA Resolved ==
    ASSUME NEW z \in Zone, NEW wall \in Int, NEW u \in Resolve(z, wall)
    PROVE  /\ u \in Int /\ Resolve(z, wall) = {u} /\ The(Resolve(z, wall)) = u
           /\ \/ Wall(z, u) = wall
              \/ /\ Wall(z, u) = wall + Hour /\ ClockOf(wall) < 23 * Hour
                 /\ Readings(z, wall) = {}
<1> DEFINE later == {v \in Readings(z, wall + Hour) : ClockOf(wall) < 23 * Hour}
<1>1. wall + Hour \in Int
  BY DEF Hour
<1>2. CASE Readings(z, wall) # {}
  <2>1. Resolve(z, wall) = {Min(Readings(z, wall))}
    BY <1>2 DEF Resolve, FirstOf
  <2>2. u = Min(Readings(z, wall)) /\ The(Resolve(z, wall)) = u
    BY <2>1 DEF The
  <2> QED BY <1>2, <2>1, <2>2, EarlierReading, ReadingsType
<1>3. CASE Readings(z, wall) = {}
  <2>1. /\ IsFiniteSet(Readings(z, wall + Hour))
        /\ \A v \in Readings(z, wall + Hour) : v \in Int /\ Wall(z, v) = wall + Hour
    BY <1>1, ReadingsType
  <2>2. IsFiniteSet(later)
    BY <2>1, FS_Subset
  <2>3. Resolve(z, wall) = IF Cardinality(later) = 1 THEN later ELSE {}
    BY <1>3 DEF Resolve, FirstOf
  <2>4. Cardinality(later) = 1 /\ Resolve(z, wall) = later
    BY <2>3
  <2>5. PICK x : later = {x}
    BY <2>2, <2>4, FS_Singleton
  <2>6. u = x /\ u \in later
    BY <2>4, <2>5
  <2>7. Resolve(z, wall) = {u} /\ The(Resolve(z, wall)) = u
    BY <2>4, <2>5, <2>6 DEF The
  <2> QED BY <1>3, <2>1, <2>6, <2>7
<1> QED BY <1>2, <1>3

-----------------------------------------------------------------------------
(* Spans as the scanners read them.                                        *)

Units == {"Y", "M", "w", "d", "h", "m", "s"}

LEMMA UnitNames == Unit = Units
  BY DEF Unit, Rank, None, Units

LEMMA JustType ==
    ASSUME NEW u \in Unit, NEW n \in Nat
    PROVE  Just(u, n) \in [Unit -> Nat]
  BY DEF Just, NoSpec

LEMMA CompactType ==
    ASSUME NEW p \in Seq(Piece), Compact(p).kind = "spec"
    PROVE  Compact(p).spec \in [Unit -> Nat]
<1> DEFINE Stops(i) == \/ p[i].n = Huge \/ p[i].unit = None \/ p[i].more
                       \/ ~Descends(p, i)
           stops == {i \in DOMAIN p : Stops(i)}
           value == [u \in Unit |->
                       IF \E i \in DOMAIN p : p[i].unit = u
                       THEN p[CHOOSE i \in DOMAIN p : p[i].unit = u].n ELSE 0]
<1>1. /\ "none" # "spec" /\ "bad" # "spec"
      /\ NoMatch.kind = "none" /\ BadMatch.kind = "bad"
  BY DEF NoMatch, BadMatch
<1>2. stops = {} /\ Compact(p) = Match(value, 0)
  BY <1>1 DEF Compact
<1>3. \A i \in DOMAIN p : p[i].n \in Nat
  <2>1. \A i \in DOMAIN p : p[i] \in Piece
    OBVIOUS
  <2> QED BY <1>2, <2>1 DEF Piece
<1>4. ASSUME NEW u \in Unit PROVE value[u] \in Nat
  <2>1. CASE \E i \in DOMAIN p : p[i].unit = u
    <3>1. (CHOOSE i \in DOMAIN p : p[i].unit = u) \in DOMAIN p
      BY <2>1
    <3> QED BY <1>3, <2>1, <3>1
  <2>2. CASE ~\E i \in DOMAIN p : p[i].unit = u
    BY <2>2
  <2> QED BY <2>1, <2>2
<1> HIDE DEF value
<1>5. value \in [Unit -> Nat]
  <2>1. value = [u \in Unit |-> value[u]]
    BY DEF value
  <2> QED BY <1>4, <2>1
<1> QED BY <1>2, <1>5 DEF Match

LEMMA MatchForms ==
    ASSUME NEW t
    PROVE  \/ SingleToken(t) \in {NoMatch, BadMatch}
           \/ \E s, n : SingleToken(t) = Match(s, n)
<1>1. Compact(t.pieces) \in {NoMatch, BadMatch} \/ \E s, n : Compact(t.pieces) = Match(s, n)
  BY DEF Compact
<1> QED BY <1>1 DEF SingleToken

LEMMA SingleTokenType ==
    ASSUME NEW t \in Token, SingleToken(t).kind = "spec"
    PROVE  SingleToken(t).spec \in [Unit -> Nat]
<1>1. t.pieces \in Seq(Piece) /\ t.long \in Unit \cup {None}
  BY DEF Token
<1>2. CASE SingleToken(t) = Compact(t.pieces)
  BY <1>1, <1>2, CompactType
<1>3. CASE t.pieces # <<>> /\ t.long # None /\ t.pieces[1].n # Huge
           /\ SingleToken(t) = Match(Just(t.long, t.pieces[1].n), 0)
  <2>1. t.pieces[1] \in Piece
    BY <1>1, <1>3
  <2>2. t.pieces[1].n \in Nat /\ t.long \in Unit
    BY <1>1, <1>3, <2>1 DEF Piece
  <2>3. Just(t.long, t.pieces[1].n) \in [Unit -> Nat]
    BY <2>2, JustType
  <2>4. SingleToken(t).spec = Just(t.long, t.pieces[1].n)
    BY <1>3 DEF Match
  <2> QED BY <2>3, <2>4
<1>4. NoMatch.kind # "spec"
  BY DEF NoMatch
<1> QED BY <1>2, <1>3, <1>4 DEF SingleToken

\* A span that is read has no negative parts, and none that does not fit.
LEMMA SpanType ==
    ASSUME NEW tokens \in Seq(Token), Relative(tokens).kind = "spec"
    PROVE  /\ Relative(tokens).spec \in [Unit -> Nat] /\ Relative(tokens).next \in Nat
           /\ tokens # <<>>
<1> DEFINE i == IF IsKey(tokens, 1, "in") THEN 2 ELSE 1
           one == SingleToken(tokens[i])
<1>1. NoMatch.kind = "none" /\ BadMatch.kind = "bad"
  BY DEF NoMatch, BadMatch
<1>2. i \in DOMAIN tokens /\ i \in Nat
  BY <1>1 DEF Relative
<1>3. tokens[i] \in Token /\ tokens # <<>>
  BY <1>2
<1>4. CASE one.kind # "none"
  <2>1. Relative(tokens) = [one EXCEPT !.next = i + 1]
    BY <1>2, <1>4 DEF Relative
  <2>2. one \in {NoMatch, BadMatch} \/ \E s, n : one = Match(s, n)
    BY MatchForms
  <2> HIDE DEF one
  <2>3. /\ Relative(tokens).kind = one.kind /\ Relative(tokens).spec = one.spec
        /\ Relative(tokens).next = i + 1
    BY <2>1, <2>2 DEF NoMatch, BadMatch, Match
  <2> QED BY <1>2, <1>3, <2>3, SingleTokenType DEF one
<1>5. CASE one.kind = "none"
  <2>1. /\ TwoTokens(tokens, i) /\ tokens[i].pieces[1].n # Huge
        /\ Relative(tokens) = Match(Just(tokens[i + 1].long, tokens[i].pieces[1].n), i + 2)
    BY <1>1, <1>2, <1>5 DEF Relative
  <2>2. tokens[i + 1] \in Token /\ tokens[i].pieces # <<>>
    BY <1>3, <2>1 DEF TwoTokens, Token
  <2>3. tokens[i].pieces[1] \in Piece
    BY <1>3, <2>2 DEF Token
  <2>4. tokens[i].pieces[1].n \in Nat
    BY <2>1, <2>3 DEF Piece
  <2>5. tokens[i + 1].long \in Unit
    BY <2>1, <2>2 DEF TwoTokens, Token
  <2>6. Just(tokens[i + 1].long, tokens[i].pieces[1].n) \in [Unit -> Nat]
    BY <2>4, <2>5, JustType
  <2>7. /\ Relative(tokens).spec = Just(tokens[i + 1].long, tokens[i].pieces[1].n)
        /\ Relative(tokens).next = i + 2
    BY <2>1 DEF Match
  <2> QED BY <1>2, <1>3, <2>6, <2>7
<1> QED BY <1>3, <1>4, <1>5

LEMMA SpelledClock ==
    ASSUME NEW c \in Spelled, NEW t \in Clocks(c)
    PROVE  t \in Int /\ 0 <= t /\ t < DayLength
<1> DEFINE h == IF c.half = None THEN c.h
                ELSE (c.h % 12) + (IF c.half = "pm" THEN 12 ELSE 0)
<1>1. h \in 0 .. 23 /\ c.m \in 0 .. 59 /\ t = Clock(h, c.m)
  BY DEF Clocks
<1> HIDE DEF h
<1> QED BY <1>1 DEF Clock, Hour, DayLength

LEMMA ClockAfter ==
    ASSUME NEW tokens \in Seq(Token), NEW from \in Nat, NEW t \in OptionalTime(tokens, from)
    PROVE  t.clock \in Int /\ 0 <= t.clock /\ t.clock < DayLength
<1> DEFINE i == IF IsKey(tokens, from, "at") THEN from + 1 ELSE from
<1>1. PICK c \in UNION {Clocks(spelled) : spelled \in
                         IF i \in DOMAIN tokens THEN tokens[i].clock ELSE {}} :
        t.clock = c
  BY DEF OptionalTime
<1>2. PICK s \in IF i \in DOMAIN tokens THEN tokens[i].clock ELSE {} : c \in Clocks(s)
  BY <1>1
<1>3. i \in DOMAIN tokens /\ s \in tokens[i].clock
  BY <1>2
<1>4. tokens[i] \in Token
  BY <1>3
<1>5. s \in Spelled
  BY <1>3, <1>4 DEF Token
<1> QED BY <1>1, <1>2, <1>5, SpelledClock

-----------------------------------------------------------------------------
(* Years and months later.                                                 *)

LEMMA YearsLaterType ==
    ASSUME NEW date \in Date, Exists(date), NEW n \in Nat
    PROVE  LET later == YearsLater(date, n) IN
           /\ later \in Date /\ Exists(later)
           /\ later.d = date.d \/ (later.d < date.d /\ later.d = 28)
           /\ later.y = date.y + n /\ later.m = date.m
<1> DEFINE y == date.y + n
           same == WithYear(date, y)
<1>1. /\ date.y \in Int /\ date.m \in 1 .. 12 /\ date.d \in 1 .. LastDay(date.y, date.m)
      /\ date = [y |-> date.y, m |-> date.m, d |-> date.d] /\ date.d \in Int
  BY DEF Date, Exists
<1>2. y \in Int
  BY <1>1
<1>6. y = date.y + n
  OBVIOUS
<1> HIDE DEF y
<1>3. same = [y |-> y, m |-> date.m, d |-> date.d]
  BY <1>1 DEF WithYear
<1>4. CASE n = 0 \/ Exists(same)
  <2>1. YearsLater(date, n) = same
    BY <1>4 DEF YearsLater, y
  <2>2. n = 0 => same = date
    BY <1>1, <1>3 DEF y
  <2> QED BY <1>1, <1>2, <1>3, <1>4, <1>6, <2>1, <2>2 DEF Date
<1>5. CASE n # 0 /\ ~Exists(same)
  <2>1. YearsLater(date, n) = [same EXCEPT !.d = 28]
    BY <1>5 DEF YearsLater, y
  <2>2. YearsLater(date, n) = [y |-> y, m |-> date.m, d |-> 28]
    BY <1>3, <2>1
  <2>3. ~(date.d \in 1 .. LastDay(y, date.m))
    BY <1>1, <1>3, <1>5 DEF Exists
  <2>4. LastDay(y, date.m) \in 28 .. 31
    BY <1>1, <1>2, MonthLength
  <2>5. 28 < date.d
    BY <1>1, <2>3, <2>4
  <2>6. Exists(YearsLater(date, n)) /\ YearsLater(date, n) \in Date
    BY <1>1, <1>2, <2>2, <2>4 DEF Date, Exists
  <2> QED BY <1>1, <1>6, <2>2, <2>5, <2>6
<1> QED BY <1>4, <1>5

LEMMA MonthsLaterType ==
    ASSUME NEW date \in Date, Exists(date), NEW n \in Nat
    PROVE  LET later == MonthsLater(date, n) IN
           /\ later \in Date /\ Exists(later)
           /\ LastDay(later.y, later.m) \in 28 .. 31
           /\ \/ later.d = date.d
              \/ later.d < date.d /\ later.d = LastDay(later.y, later.m)
           /\ 12 * later.y + later.m - 1 = 12 * date.y + date.m - 1 + n
<1> DEFINE k == (12 * date.y + date.m - 1) + n
           y == k \div 12
           m == (k % 12) + 1
<1>1. /\ date.y \in Int /\ date.m \in 1 .. 12 /\ date.d \in 1 .. LastDay(date.y, date.m)
      /\ date.d \in Int /\ date.d >= 1
  BY DEF Date, Exists
<1>2. k \in Int
  BY <1>1
<1>6. k = 12 * date.y + date.m - 1 + n
  BY <1>1
<1> HIDE DEF k
<1>3. y \in Int /\ m \in 1 .. 12 /\ 12 * y + m - 1 = k
  BY <1>2
<1>4. MonthsLater(date, n) = [y |-> y, m |-> m,
         d |-> IF date.d > LastDay(y, m) THEN LastDay(y, m) ELSE date.d]
  BY DEF MonthsLater, k
<1> HIDE DEF y, m
<1>5. LastDay(y, m) \in 28 .. 31
  BY <1>3, MonthLength
<1> QED BY <1>1, <1>3, <1>4, <1>5, <1>6 DEF Date, Exists

\* Years and months lead to a day that exists; it is another day of the month
\* only where the month is too short, and then there is a note.
LEMMA CalendarDateType ==
    ASSUME NEW date \in Date, Exists(date), NEW spec \in [Unit -> Nat]
    PROVE  LET later == CalendarDate(date, spec) IN
           /\ later \in Date /\ Exists(later)
           /\ MonthOf(later) = MonthOf(date) + 12 * spec["Y"] + spec["M"]
           /\ later.d = date.d <=> Notes(date, spec) = {}
           /\ Notes(date, spec) # {} => later.d \in 28 .. LastDay(later.y, later.m)
<1> DEFINE years == YearsLater(date, spec["Y"])
           later == CalendarDate(date, spec)
<1>1. spec["Y"] \in Nat /\ spec["M"] \in Nat
  BY UnitNames DEF Units
<1>2. /\ years \in Date /\ Exists(years)
      /\ years.d = date.d \/ (years.d < date.d /\ years.d = 28)
      /\ years.y = date.y + spec["Y"] /\ years.m = date.m
  BY <1>1, YearsLaterType
<1>3. later = MonthsLater(years, spec["M"])
  BY DEF CalendarDate
<1>4. Notes(date, spec) = (IF years.d < date.d THEN {"LeapClampedToFeb28"} ELSE {})
                          \cup (IF later.d < years.d THEN {"MonthDayClamped"} ELSE {})
  BY DEF Notes
<1> HIDE DEF years, later
<1>5. /\ later \in Date /\ Exists(later)
      /\ LastDay(later.y, later.m) \in 28 .. 31
      /\ \/ later.d = years.d
         \/ later.d < years.d /\ later.d = LastDay(later.y, later.m)
      /\ 12 * later.y + later.m - 1 = 12 * years.y + years.m - 1 + spec["M"]
  BY <1>1, <1>2, <1>3, MonthsLaterType
<1>6. later.d \in Int /\ years.d \in Int /\ date.d \in Int
  BY <1>2, <1>5 DEF Date
<1>7. Notes(date, spec) = {} <=> ~(years.d < date.d) /\ ~(later.d < years.d)
  BY <1>4
<1>8. later.d = date.d <=> Notes(date, spec) = {}
  BY <1>2, <1>5, <1>6, <1>7
<1>9. Notes(date, spec) # {} => later.d \in 28 .. LastDay(later.y, later.m)
  BY <1>2, <1>5, <1>6, <1>7
<1>10. MonthOf(later) = MonthOf(date) + 12 * spec["Y"] + spec["M"]
  <2>1. date.y \in Int /\ date.m \in Int /\ later.y \in Int /\ later.m \in Int
    BY <1>5 DEF Date
  <2> QED BY <1>1, <1>2, <1>5, <2>1 DEF MonthOf
<1> QED BY <1>5, <1>8, <1>9, <1>10 DEF later

-----------------------------------------------------------------------------
(* What a span comes to.                                                   *)

LEMMA SpanParts ==
    ASSUME NEW spec \in [Unit -> Nat]
    PROVE  /\ spec["Y"] \in Nat /\ spec["M"] \in Nat
           /\ Days(spec) \in Nat /\ Seconds(spec) \in Nat
           /\ HasSubDay(spec) <=> Seconds(spec) > 0
           /\ IsZero(spec) <=> spec["Y"] = 0 /\ spec["M"] = 0 /\ Days(spec) = 0 /\ Seconds(spec) = 0
<1>1. /\ spec["Y"] \in Nat /\ spec["M"] \in Nat /\ spec["w"] \in Nat /\ spec["d"] \in Nat
      /\ spec["h"] \in Nat /\ spec["m"] \in Nat /\ spec["s"] \in Nat
  <2>1. /\ "Y" \in Unit /\ "M" \in Unit /\ "w" \in Unit /\ "d" \in Unit
        /\ "h" \in Unit /\ "m" \in Unit /\ "s" \in Unit
    BY UnitNames DEF Units
  <2> QED BY <2>1
<1>2. HasSubDay(spec) <=> spec["h"] > 0 \/ spec["m"] > 0 \/ spec["s"] > 0
  BY DEF HasSubDay
<1>3. HasDatePart(spec) <=> spec["Y"] > 0 \/ spec["M"] > 0 \/ spec["w"] > 0 \/ spec["d"] > 0
  BY DEF HasDatePart
<1>4. Days(spec) \in Nat /\ (Days(spec) = 0 <=> spec["w"] = 0 /\ spec["d"] = 0)
  BY <1>1 DEF Days
<1>5. /\ Seconds(spec) \in Nat
      /\ Seconds(spec) = 0 <=> spec["h"] = 0 /\ spec["m"] = 0 /\ spec["s"] = 0
  <2> DEFINE h == spec["h"]
             m == spec["m"]
             s == spec["s"]
  <2>1. h \in Nat /\ m \in Nat /\ s \in Nat /\ Seconds(spec) = h * 3600 + m * 60 + s
    BY <1>1 DEF Seconds, Clock, Hour
  <2> HIDE DEF h, m, s
  <2>2. Seconds(spec) \in Nat /\ (Seconds(spec) = 0 <=> h = 0 /\ m = 0 /\ s = 0)
    BY <2>1
  <2> QED BY <2>2 DEF h, m, s
<1>6. HasSubDay(spec) <=> Seconds(spec) > 0
  BY <1>1, <1>2, <1>5
<1>7. HasDatePart(spec) <=> ~(spec["Y"] = 0 /\ spec["M"] = 0 /\ Days(spec) = 0)
  BY <1>1, <1>3, <1>4
<1> QED BY <1>1, <1>4, <1>5, <1>6, <1>7 DEF IsZero

\* Clocks as they are read: none, or times of a day.
IsClock(clock) == \A c \in clock : c \in Int /\ 0 <= c /\ c < DayLength

\* A span without years, months and a clock is exact.
LEMMA SpanIsExact ==
    ASSUME NEW z, NEW n \in Int, NEW spec \in [Unit -> Nat],
           Apply(spec, n, z, {}).error = None, spec["Y"] = 0, spec["M"] = 0
    PROVE  /\ Apply(spec, n, z, {}).at = n + Days(spec) * DayLength + Seconds(spec)
           /\ Apply(spec, n, z, {}).notes = {}
<1>1. \A e \in {"RelTooFar", "NoTimeExpression", "SubDayRelWithOverride"} : Fail(e).error # None
  BY DEF Fail, None
<1>2. Apply(spec, n, z, {}) = ApplyExactly(spec, n)
  BY <1>1 DEF Apply
<1>3. ApplyExactly(spec, n) = Succeed(n + Days(spec) * DayLength + Seconds(spec), {})
  BY <1>1, <1>2 DEF ApplyExactly, Near
<1> QED BY <1>2, <1>3 DEF Succeed

\* A span with years, months or a clock comes to the day of the calendar and
\* to the clock, or an hour later where the clock is not shown.
LEMMA SpanIsOnCalendar ==
    ASSUME NEW z \in Zone, NEW n \in Int, NEW spec \in [Unit -> Nat],
           NEW clock, IsClock(clock), Apply(spec, n, z, clock).error = None,
           clock # {} \/ spec["Y"] + spec["M"] > 0
    PROVE  LET r == Apply(spec, n, z, clock)
               date == DateOf(DayOf(Wall(z, n)))
               day == DayNumber(CalendarDate(date, spec)) + Days(spec)
               time == IF clock = {} THEN ClockOf(Wall(z, n)) ELSE The(clock)
               u == r.at - Seconds(spec)
           IN  /\ r.at \in Int /\ date \in Date /\ Exists(date)
               /\ time \in Int /\ 0 <= time /\ time < DayLength
               /\ day \in Int
               /\ DayOf(Wall(z, u)) = day
               /\ \/ ClockOf(Wall(z, u)) = time
                  \/ ClockOf(Wall(z, u)) = time + Hour /\ Readings(z, At(day, time)) = {}
               /\ clock # {} => Seconds(spec) = 0
               /\ r.notes = Notes(date, spec)
<1> DEFINE wall == Wall(z, n)
           date == DateOf(DayOf(wall))
           later == CalendarDate(date, spec)
           day == DayNumber(later) + Days(spec)
           time == IF clock = {} THEN ClockOf(wall) ELSE The(clock)
           here == Resolve(z, At(day, time))
           r == Apply(spec, n, z, clock)
           u == The(here)
<1>1. \A e \in {"RelTooFar", "NoTimeExpression", "SubDayRelWithOverride", "InvalidTime"} :
        Fail(e).error # None
  BY DEF Fail, None
<1>2. /\ spec["Y"] \in Nat /\ spec["M"] \in Nat
      /\ Days(spec) \in Nat /\ Seconds(spec) \in Nat
      /\ HasSubDay(spec) <=> Seconds(spec) > 0
  BY SpanParts
<1>3. r = ApplyByCalendar(spec, n, z, clock)
  BY <1>1, <1>2 DEF Apply
<1>4. clock # {} => Seconds(spec) = 0
  BY <1>1, <1>2 DEF Apply
<1>5. r = OnCalendar(spec, n, here, clock, Notes(date, spec))
  BY <1>3 DEF ApplyByCalendar
<1>6. wall \in Int
  BY WallType
<1> HIDE DEF wall
<1>7. date \in Date /\ Exists(date)
  BY <1>6, ClockParts, DateOfDay
<1> HIDE DEF date
<1>8. later \in Date /\ Exists(later)
  BY <1>7, CalendarDateType
<1> HIDE DEF later
<1>9. day \in Int
  BY <1>2, <1>8, DayOfDate
<1> HIDE DEF day
<1>10. time \in Int /\ 0 <= time /\ time < DayLength
  <2>1. CASE clock = {}
    BY <1>6, <2>1, ClockParts
  <2>2. CASE clock # {}
    <3>1. The(clock) \in clock
      BY <2>2 DEF The
    <3> QED BY <2>2, <3>1 DEF IsClock
  <2> QED BY <2>1, <2>2
<1> HIDE DEF time, r
<1>11. here # {} /\ r = Succeed(u + (IF clock = {} THEN Seconds(spec) ELSE 0), Notes(date, spec))
  BY <1>1, <1>5 DEF OnCalendar, Near, r
<1>12. /\ At(day, time) \in Int /\ DayOf(At(day, time)) = day /\ ClockOf(At(day, time)) = time
  BY <1>9, <1>10, PartsOfAt
<1>13. /\ u \in Int
       /\ \/ Wall(z, u) = At(day, time)
          \/ /\ Wall(z, u) = At(day, time) + Hour /\ time < 23 * Hour
             /\ Readings(z, At(day, time)) = {}
  <2>1. PICK v : v \in here
    BY <1>11
  <2> QED BY <1>12, <2>1, Resolved
<1> HIDE DEF here, u
<1>14. /\ DayOf(Wall(z, u)) = day
       /\ \/ ClockOf(Wall(z, u)) = time
          \/ ClockOf(Wall(z, u)) = time + Hour /\ Readings(z, At(day, time)) = {}
  <2>1. CASE Wall(z, u) = At(day, time)
    BY <1>12, <2>1
  <2>2. CASE /\ Wall(z, u) = At(day, time) + Hour /\ time < 23 * Hour
             /\ Readings(z, At(day, time)) = {}
    <3>1. time + Hour \in Int /\ 0 <= time + Hour /\ time + Hour < DayLength
      BY <1>10, <2>2 DEF Hour, DayLength
    <3>2. At(day, time) + Hour = At(day, time + Hour)
      BY <1>9, <1>10 DEF At, Hour, DayLength
    <3>3. DayOf(At(day, time + Hour)) = day /\ ClockOf(At(day, time + Hour)) = time + Hour
      BY <1>9, <3>1, PartsOfAt
    <3> QED BY <2>2, <3>2, <3>3
  <2> QED BY <1>13, <2>1, <2>2
<1>15. r.at = u + Seconds(spec) /\ r.notes = Notes(date, spec)
  BY <1>2, <1>4, <1>11, <1>13 DEF Succeed
<1>16. r.at \in Int /\ r.at - Seconds(spec) = u
  BY <1>2, <1>13, <1>15
<1> QED BY <1>4, <1>7, <1>9, <1>10, <1>14, <1>15, <1>16
        DEF day, later, date, time, wall, r

-----------------------------------------------------------------------------
(* Intervals of a series in the largest unit that divides them.            *)

LEMMA Division ==
    ASSUME NEW n \in Int, NEW d \in Int, 0 < d
    PROVE  /\ n \div d \in Int /\ n % d \in Int /\ 0 <= n % d /\ n % d < d
           /\ n = d * (n \div d) + (n % d)
  BY SMT

LEMMA DivisionUnique ==
    ASSUME NEW d \in Int, NEW q \in Int, NEW r \in Int, 0 <= r, r < d
    PROVE  (d * q + r) \div d = q /\ (d * q + r) % d = r
<1>1. (d * q + r) \div d = q
  BY SMT
<1>2. (d * q + r) % d = r
  BY SMT
<1> QED BY <1>1, <1>2

\* A day is a number of intervals.
LEMMA DaysInUnits ==
    ASSUME NEW days \in Nat, NEW seconds \in Nat, NEW unit \in Int, 0 < unit,
           NEW k \in Int, unit * k = DayLength
    PROVE  /\ (days * DayLength + seconds) % unit = seconds % unit
           /\ (days * DayLength + seconds) \div unit = days * k + seconds \div unit
<1> DEFINE q == seconds \div unit
           r == seconds % unit
<1>1. q \in Int /\ r \in Int /\ 0 <= r /\ r < unit /\ seconds = unit * q + r
  BY Division
<1> HIDE DEF q, r
<1>2. days * DayLength = unit * (days * k)
  <2>1. days * (unit * k) = unit * (days * k)
    OBVIOUS
  <2> QED BY <2>1
<1>3. days * k \in Int
  OBVIOUS
<1> DEFINE m == days * k
<1>4. days * DayLength + seconds = unit * (m + q) + r
  <2>1. unit * m + (unit * q + r) = unit * (m + q) + r
    BY <1>1, <1>3
  <2> QED BY <1>1, <1>2, <2>1
<1>5. m + q \in Int
  BY <1>1, <1>3
<1>6. (unit * (m + q) + r) \div unit = m + q /\ (unit * (m + q) + r) % unit = r
  BY <1>1, <1>5, DivisionUnique
<1> QED BY <1>4, <1>6 DEF q, r

\* interval_seconds: the units of a span are those that divide it, and it is
\* refused exactly if it has too many of them.
IntervalFits(days, seconds) ==
    LET all == days * DayLength + seconds
        unit == Max({u \in {1, 60, Hour} : all % u = 0})
        n == days + seconds \div DayLength
    IN  /\ unit = IntervalUnit(seconds)
        /\ Intervals(days, seconds) = {} <=> all \div unit > MaxInterval
        /\ n > MaxInterval => all \div unit > MaxInterval
        /\ Intervals(days, seconds) # {} => Intervals(days, seconds) = {all \div unit}

LEMMA IntervalsFit ==
    ASSUME NEW days \in Nat, NEW seconds \in Nat
    PROVE  IntervalFits(days, seconds)
<1> DEFINE all == days * DayLength + seconds
           unit == IntervalUnit(seconds)
           k == DayLength \div unit
           left == seconds \div unit
           m == days * k
           whole == seconds \div DayLength
<1>1. /\ all % 1 = seconds % 1 /\ all % 60 = seconds % 60 /\ all % 3600 = seconds % 3600
      /\ seconds % 1 = 0
  <2>1. all % 1 = seconds % 1
    BY DaysInUnits DEF DayLength
  <2>2. all % 60 = seconds % 60
    <3>1. 60 * 1440 = DayLength
      BY DEF DayLength
    <3> QED BY <3>1, DaysInUnits
  <2>3. all % 3600 = seconds % 3600
    <3>1. 3600 * 24 = DayLength
      BY DEF DayLength
    <3> QED BY <3>1, DaysInUnits
  <2>4. seconds % 1 = 0
    BY SMT
  <2> QED BY <2>1, <2>2, <2>3, <2>4
<1>2. unit \in {1, 60, 3600} /\ seconds % unit = 0
  BY <1>1 DEF IntervalUnit, Hour
<1>3. Max({u \in {1, 60, Hour} : all % u = 0}) = unit
  <2> DEFINE S == {u \in {1, 60, 3600} : seconds % u = 0}
  <2>1. {u \in {1, 60, Hour} : all % u = 0} = S
    BY <1>1 DEF Hour
  <2>2. seconds % 3600 = 0 => seconds % 60 = 0
    BY SMT
  <2>3. unit \in S /\ \A u \in S : unit >= u
    <3>1. CASE seconds % 3600 = 0
      BY <3>1, <2>2 DEF IntervalUnit, Hour
    <3>2. CASE seconds % 3600 # 0 /\ seconds % 60 = 0
      BY <3>2 DEF IntervalUnit, Hour
    <3>3. CASE seconds % 3600 # 0 /\ seconds % 60 # 0
      BY <1>1, <3>3 DEF IntervalUnit, Hour
    <3> QED BY <3>1, <3>2, <3>3
  <2>4. \A u \in S : u \in Int
    OBVIOUS
  <2> HIDE DEF S, unit
  <2>5. Max(S) = unit
    <3>1. Max(S) \in S /\ \A u \in S : Max(S) >= u
      BY <2>3 DEF Max
    <3> QED BY <2>3, <2>4, <3>1
  <2> QED BY <2>1, <2>5
<1>4. unit \in Int /\ 0 < unit /\ k \in Nat /\ 1 <= k /\ unit * k = DayLength
  BY <1>2 DEF DayLength
<1> HIDE DEF unit, k
<1>5. all \div unit = m + left
  <2>1. ASSUME NEW u \in Int, 0 < u, NEW j \in Int, u * j = DayLength
        PROVE  (days * DayLength + seconds) \div u = days * j + seconds \div u
    BY <2>1, DaysInUnits
  <2>2. unit \in Int /\ k \in Int /\ 0 < unit /\ unit * k = DayLength
    BY <1>4
  <2>3. (days * DayLength + seconds) \div unit = days * k + seconds \div unit
    BY <2>1, <2>2, Zenon
  <2> QED BY <2>3
<1>6. left \in Nat /\ whole \in Nat /\ whole <= left
  <2>1. left \in Nat /\ seconds = unit * left
    <3>1. seconds = unit * left + (seconds % unit) /\ left \in Int
      BY <1>4, Division
    <3>2. seconds = unit * left
      BY <1>2, <1>4, <3>1
    <3>3. 0 <= left
      BY <1>4, <3>1, <3>2
    <3> QED BY <3>1, <3>2, <3>3
  <2>2. whole \in Int /\ 0 <= whole /\ DayLength * whole <= seconds
    <3>1. DayLength \in Int /\ 0 < DayLength
      BY DEF DayLength
    <3>2. whole \in Int /\ seconds % DayLength >= 0 /\ seconds % DayLength \in Int
          /\ seconds = DayLength * whole + (seconds % DayLength) /\ seconds % DayLength < DayLength
      BY <3>1, Division
    <3> HIDE DEF whole
    <3>3. 0 <= whole
      BY <3>2 DEF DayLength
    <3> QED BY <3>2, <3>3 DEF DayLength
  <2> HIDE DEF left, whole
  <2>3. unit * (k * whole) <= unit * left
    <3>1. unit * (k * whole) = (unit * k) * whole
      BY <1>4, <2>2
    <3> QED BY <1>4, <2>1, <2>2, <3>1
  <2>4. k * whole <= left
    <3>1. k * whole \in Int
      BY <1>4, <2>2
    <3> QED BY <1>4, <2>1, <2>3, <3>1
  <2>5. whole <= k * whole
    BY <1>4, <2>2
  <2>6. k * whole \in Int
    BY <1>4, <2>2
  <2> QED BY <2>1, <2>2, <2>4, <2>5, <2>6
<1>7. m \in Nat /\ days <= m
  BY <1>4
<1> DEFINE most == MaxInterval \div k
<1>8. most \in Int /\ k * most <= MaxInterval /\ MaxInterval < k * (most + 1)
  <2>1. MaxInterval \in Int
    BY DEF MaxInterval
  <2> DEFINE rest == MaxInterval % k
  <2>2. /\ most \in Int /\ rest \in Int /\ 0 <= rest /\ rest < k
        /\ MaxInterval = k * most + rest
    BY <1>4, <2>1, Division
  <2> HIDE DEF most, rest
  <2> QED BY <1>4, <2>1, <2>2
<1> HIDE DEF most
<1>9. days > most => m > MaxInterval
  <2> SUFFICES ASSUME days >= most + 1 PROVE m > MaxInterval
    BY <1>8
  <2>1. k * (most + 1) <= k * days
    BY <1>4, <1>8
  <2>2. k * days = m
    BY <1>4
  <2>3. k * (most + 1) \in Int /\ MaxInterval \in Int
    BY <1>4, <1>8 DEF MaxInterval
  <2> QED BY <1>7, <1>8, <2>1, <2>2, <2>3
<1>10. Intervals(days, seconds) = IF days > most \/ left > MaxInterval - m THEN {} ELSE {m + left}
  BY DEF Intervals, unit, k, most
<1> HIDE DEF m, left, whole
<1>11. MaxInterval \in Int
  BY DEF MaxInterval
<1>12. Intervals(days, seconds) = {} <=> m + left > MaxInterval
  BY <1>6, <1>7, <1>9, <1>10, <1>11
<1>13. days + whole > MaxInterval => m + left > MaxInterval
  BY <1>6, <1>7, <1>11
<1>14. Intervals(days, seconds) # {} => Intervals(days, seconds) = {m + left}
  BY <1>10
<1> QED BY <1>3, <1>5, <1>12, <1>13, <1>14 DEF IntervalFits, unit, whole

-----------------------------------------------------------------------------
(* Families of units, and where the text begins.                           *)

LEMMA MoreThanOne ==
    ASSUME NEW S, IsFiniteSet(S)
    PROVE  /\ Cardinality(S) \in Nat
           /\ (\E a, b \in S : a # b) => Cardinality(S) > 1
           /\ ~(\E a, b \in S : a # b) => ~(Cardinality(S) > 1)
<1>1. Cardinality(S) \in Nat
  BY FS_CardinalityType
<1>2. ASSUME NEW a \in S, NEW b \in S, a # b PROVE Cardinality(S) > 1
  <2>1. IsFiniteSet({a}) /\ Cardinality({a}) = 1
    BY FS_Singleton
  <2>2. IsFiniteSet({a} \cup {b}) /\ Cardinality({a} \cup {b}) = 2
    <3>1. b \notin {a}
      BY <1>2
    <3>2. /\ IsFiniteSet({a} \cup {b})
          /\ Cardinality({a} \cup {b})
               = IF b \in {a} THEN Cardinality({a}) ELSE Cardinality({a}) + 1
      BY <2>1, FS_AddElement
    <3> QED BY <2>1, <3>1, <3>2
  <2>3. {a} \cup {b} \subseteq S
    OBVIOUS
  <2>4. Cardinality({a} \cup {b}) <= Cardinality(S)
    BY <2>3, FS_Subset
  <2> QED BY <1>1, <2>2, <2>4
<1>3. ASSUME ~(\E a, b \in S : a # b) PROVE ~(Cardinality(S) > 1)
  <2>1. CASE S = {}
    BY <2>1, FS_EmptySet
  <2>2. CASE S # {}
    <3>1. PICK a : a \in S
      BY <2>2
    <3>2. S = {a}
      BY <1>3, <3>1
    <3> QED BY <3>2, FS_Singleton
  <2> QED BY <2>1, <2>2
<1> QED BY <1>1, <1>2, <1>3

\* Years, months and all others are three families.
LEMMA FamiliesMixed ==
    ASSUME NEW spec \in [Unit -> Nat]
    PROVE  LET years == spec["Y"] > 0
               months == spec["M"] > 0
               rest == Days(spec) > 0 \/ HasSubDay(spec)
           IN  Families(spec) > 1 <=> (years /\ months) \/ ((years \/ months) /\ rest)
<1> DEFINE Fam == {{"Y"}, {"M"}, {"w", "d", "h", "m", "s"}}
           S == {f \in Fam : \E u \in f : spec[u] > 0}
           years == spec["Y"] > 0
           months == spec["M"] > 0
           rest == Days(spec) > 0 \/ HasSubDay(spec)
           others == {"w", "d", "h", "m", "s"}
<1>1. IsFiniteSet(S)
  <2>1. IsFiniteSet({{"Y"}})
    BY FS_Singleton
  <2>2. IsFiniteSet({{"Y"}} \cup {{"M"}})
    BY <2>1, FS_AddElement
  <2>3. IsFiniteSet(({{"Y"}} \cup {{"M"}}) \cup {others})
    BY <2>2, FS_AddElement
  <2>4. S \subseteq ({{"Y"}} \cup {{"M"}}) \cup {others}
    OBVIOUS
  <2> QED BY <2>3, <2>4, FS_Subset
<1>2. rest <=> \E u \in others : spec[u] > 0
  <2>1. /\ "w" \in Unit /\ "d" \in Unit
    BY UnitNames DEF Units
  <2>2. spec["w"] \in Nat /\ spec["d"] \in Nat
    BY <2>1
  <2>3. Days(spec) > 0 <=> spec["w"] > 0 \/ spec["d"] > 0
    BY <2>2 DEF Days
  <2>4. HasSubDay(spec) <=> spec["h"] > 0 \/ spec["m"] > 0 \/ spec["s"] > 0
    BY DEF HasSubDay
  <2> QED BY <2>3, <2>4
<1>3. /\ {"Y"} \in S <=> years
      /\ {"M"} \in S <=> months
      /\ others \in S <=> rest
  BY <1>2
<1>4. {"Y"} # {"M"} /\ {"Y"} # others /\ {"M"} # others
  <2>1. "Y" \notin {"M"} /\ "Y" \notin others /\ "M" \notin others
    OBVIOUS
  <2> QED BY <2>1
<1>5. \A f \in S : f = {"Y"} \/ f = {"M"} \/ f = others
  OBVIOUS
<1>6. Families(spec) = Cardinality(S)
  BY DEF Families
<1> HIDE DEF S, others, rest, years, months
<1>7. (\E a, b \in S : a # b) <=> (years /\ months) \/ ((years \/ months) /\ rest)
  BY <1>3, <1>4, <1>5
<1> QED BY <1>1, <1>6, <1>7, MoreThanOne DEF rest, years, months

\* All clocks that a token spells end at the same token.
LEMMA OneEnd ==
    ASSUME NEW tokens, NEW from \in Nat, NEW t \in OptionalTime(tokens, from),
           NEW v \in OptionalTime(tokens, from)
    PROVE  t.next = v.next /\ t.next \in Nat /\ from < t.next
  BY DEF OptionalTime

LEMMA TextFollows ==
    ASSUME NEW tokens, NEW spec, NEW from \in Nat
    PROVE  LET times == TimeAfterSpec(tokens, from, spec)
           IN  \A clock : TimeOr(times, clock, from).next
                             = Max({from} \cup {t.next : t \in times})
<1> DEFINE times == TimeAfterSpec(tokens, from, spec)
           S == {from} \cup {t.next : t \in times}
<1>1. times \subseteq OptionalTime(tokens, from)
  BY DEF TimeAfterSpec
<1>2. \A t, v \in times : t.next = v.next /\ t.next \in Nat /\ from < t.next
  BY <1>1, OneEnd
<1> HIDE DEF times
<1> SUFFICES ASSUME NEW clock PROVE TimeOr(times, clock, from).next = Max(S)
  BY DEF times
<1>3. CASE times = {}
  <2>1. TimeOr(times, clock, from).next = from
    BY <1>3 DEF TimeOr
  <2>2. S = {from}
    BY <1>3
  <2>3. Max({from}) = from
    BY DEF Max
  <2> QED BY <2>1, <2>2, <2>3
<1>4. CASE times # {}
  <2> DEFINE first == The(times)
  <2>1. first \in times /\ TimeOr(times, clock, from) = first
    BY <1>4 DEF The, TimeOr
  <2> HIDE DEF first
  <2>2. S = {from, first.next}
    BY <1>2, <2>1
  <2>3. first.next \in Nat /\ from < first.next
    BY <1>2, <2>1
  <2> DEFINE n == first.next
  <2> HIDE DEF n, S
  <2>4. Max({from, n}) = n
    BY <2>3 DEF Max, n
  <2> QED BY <2>1, <2>2, <2>4 DEF n
<1> QED BY <1>3, <1>4

-----------------------------------------------------------------------------
(* The least of many instants.                                             *)

LEMMA LeastNat ==
    ASSUME NEW T, T \subseteq Nat, T # {}
    PROVE  \E x \in T : \A y \in T : x <= y
<1> DEFINE R == OpToRel(<, Nat)
<1>1. IsWellFoundedOn(R, Nat)
  BY NatLessThanWellFounded
<1>2. \A x, y \in Nat : <<y, x>> \in R <=> y < x
  BY DEF OpToRel
<1> HIDE DEF R
<1>3. PICK x \in T : \A y \in T : ~(<<y, x>> \in R)
  BY <1>1, WFMin
<1>4. \A y \in T : y \in Nat /\ ~(y < x)
  BY <1>2, <1>3
<1>5. x \in Nat
  BY <1>3
<1> QED BY <1>3, <1>4, <1>5

\* Instants after a given one have a first.
LEMMA LeastAfter ==
    ASSUME NEW S, S \subseteq Int, S # {}, NEW b \in Int, \A u \in S : u > b
    PROVE  Min(S) \in S /\ \A u \in S : Min(S) <= u
<1> DEFINE T == {u - b : u \in S}
<1>1. T \subseteq Nat /\ T # {}
  <2>1. \A u \in S : u - b \in Nat
    OBVIOUS
  <2> QED BY <2>1
<1>2. PICK t \in T : \A v \in T : t <= v
  BY <1>1, LeastNat
<1>3. PICK x \in S : t = x - b
  BY <1>2
<1>4. \A u \in S : x <= u
  <2> SUFFICES ASSUME NEW u \in S PROVE x <= u
    OBVIOUS
  <2>1. t <= u - b
    BY <1>2
  <2>2. x \in Int /\ u \in Int
    BY <1>3
  <2> QED BY <1>3, <2>1, <2>2
<1> QED BY <1>3, <1>4 DEF Min

-----------------------------------------------------------------------------
(* Instants that the parser computes.                                      *)

LEMMA TodayType ==
    ASSUME NEW n \in Int, NEW z \in Zone
    PROVE  /\ DayOf(Wall(z, n)) \in Int
           /\ DateOf(DayOf(Wall(z, n))) \in Date /\ Exists(DateOf(DayOf(Wall(z, n))))
           /\ YearOf(DayOf(Wall(z, n))) \in Int
<1>1. DayOf(Wall(z, n)) \in Int
  BY WallType, ClockParts
<1> QED BY <1>1, DateOfDay, YearFound

LEMMA DayNumberType ==
    ASSUME NEW date, date.y \in Int, date.m \in 1 .. 12, date.d \in Int
    PROVE  DayNumber(date) \in Int
<1>1. FirstDayOf(date.y) \in Int
  BY YearLength
<1>2. DaysBeforeMonth(date.y, date.m) \in Nat
  <2>1. \A y \in Int, m \in 1 .. 12 : DaysBeforeMonth(y, m) \in Nat
    BY MonthLength
  <2> QED BY <2>1
<1> QED BY <1>1, <1>2 DEF DayNumber

LEMMA ResolveType ==
    ASSUME NEW z \in Zone, NEW day \in Int, NEW clock \in Int
    PROVE  /\ At(day, clock) \in Int
           /\ Resolve(z, At(day, clock)) \subseteq Int
           /\ Resolve(z, At(day, clock)) # {} => The(Resolve(z, At(day, clock))) \in Int
<1>1. At(day, clock) \in Int
  BY DEF At, DayLength
<1>2. \A u \in Resolve(z, At(day, clock)) : u \in Int /\ The(Resolve(z, At(day, clock))) = u
  BY <1>1, Resolved
<1> QED BY <1>1, <1>2

\* A result of the parser: an error, or an instant and notes of the calendar.
IsResult(r) ==
    r.error = None => r.at \in Int /\ r.notes \subseteq {"LeapClampedToFeb28", "MonthDayClamped"}

LEMMA FailType ==
    \A e \in {"RelTooFar", "NoTimeExpression", "SubDayRelWithOverride", "InvalidTime",
              "InvalidRelSpec"} : Fail(e).error # None /\ IsResult(Fail(e))
  BY DEF Fail, None, IsResult

LEMMA ApplyType ==
    ASSUME NEW z \in Zone, NEW n \in Int, NEW spec \in [Unit -> Nat],
           NEW clock, IsClock(clock)
    PROVE  IsResult(Apply(spec, n, z, clock))
<1> DEFINE r == Apply(spec, n, z, clock)
<1> SUFFICES ASSUME r.error = None
             PROVE  r.at \in Int /\ r.notes \subseteq {"LeapClampedToFeb28", "MonthDayClamped"}
  BY DEF IsResult
<1>1. /\ spec["Y"] \in Nat /\ spec["M"] \in Nat /\ Days(spec) \in Nat /\ Seconds(spec) \in Nat
  BY SpanParts
<1>2. CASE clock = {} /\ spec["Y"] = 0 /\ spec["M"] = 0
  <2>1. r.at = n + Days(spec) * DayLength + Seconds(spec) /\ r.notes = {}
    BY <1>2, SpanIsExact
  <2> HIDE DEF r
  <2> QED BY <1>1, <2>1 DEF DayLength
<1>3. CASE ~(clock = {} /\ spec["Y"] = 0 /\ spec["M"] = 0)
  <2>1. clock # {} \/ spec["Y"] + spec["M"] > 0
    BY <1>1, <1>3
  <2>2. r.at \in Int /\ r.notes = Notes(DateOf(DayOf(Wall(z, n))), spec)
    BY <2>1, SpanIsOnCalendar
  <2> QED BY <2>2 DEF Notes
<1> QED BY <1>2, <1>3

LEMMA OnDayType ==
    ASSUME zone \in Zone, NEW day \in Int, NEW clock \in Int
    PROVE  IsResult(OnDay(day, clock))
<1>1. Resolve(zone, At(day, clock)) # {} => The(Resolve(zone, At(day, clock))) \in Int
  BY ResolveType
<1> QED BY <1>1 DEF OnDay, Landing, Succeed, Fail, IsResult, None

LEMMA AheadOnType ==
    ASSUME zone \in Zone, now \in Int, NEW day \in Int, NEW clock \in Int
    PROVE  \A u \in AheadOn(day, clock) : u \in Int /\ u > now
  BY ResolveType DEF AheadOn

\* An anchor is an instant to come.
LEMMA AnchorType ==
    ASSUME zone \in Zone, now \in Int, NEW days, days \subseteq Int, NEW clock \in Int,
           NEW n \in Int, n > 0
    PROVE  /\ FirstFuture(days, clock, now + n * DayLength) \in Int
           /\ FirstFuture(days, clock, now + n * DayLength) > now
<1> DEFINE S == UNION {AheadOn(d, clock) : d \in days}
<1>1. \A u \in S : u \in Int /\ u > now
  BY AheadOnType
<1>2. FirstFuture(days, clock, now + n * DayLength)
        = IF S = {} THEN now + n * DayLength ELSE Min(S)
  BY DEF FirstFuture, FirstOr
<1> HIDE DEF S
<1>3. CASE S = {}
  BY <1>2, <1>3 DEF DayLength
<1>4. CASE S # {}
  <2>1. Min(S) \in S
    BY <1>1, <1>4, LeastAfter
  <2> QED BY <1>1, <1>2, <1>4, <2>1
<1> QED BY <1>3, <1>4

-----------------------------------------------------------------------------
(* What the strategies for one alert find.                                 *)

IsFound(found) == \A f \in found : IsResult(f.result)

LEMMA RelativeKinds ==
    ASSUME NEW tokens
    PROVE  Relative(tokens).kind \in {"none", "bad", "spec"}
<1> DEFINE i == IF IsKey(tokens, 1, "in") THEN 2 ELSE 1
           one == SingleToken(tokens[i])
<1>1. \/ one \in {NoMatch, BadMatch}
      \/ \E s, n : one = Match(s, n)
  BY MatchForms
<1>2. \/ Relative(tokens) \in {NoMatch, BadMatch}
      \/ Relative(tokens) = [one EXCEPT !.next = i + 1]
      \/ \E s, n : Relative(tokens) = Match(s, n)
  BY DEF Relative
<1> HIDE DEF one, i
<1> QED BY <1>1, <1>2 DEF NoMatch, BadMatch, Match

LEMMA TimesType ==
    ASSUME NEW tokens \in Seq(Token), NEW from \in Nat, NEW clock \in Int,
           NEW times, times \subseteq OptionalTime(tokens, from)
    PROVE  /\ IsClock({t.clock : t \in times})
           /\ TimeOr(times, clock, from).clock \in Int
<1>1. \A t \in times : t.clock \in Int /\ 0 <= t.clock /\ t.clock < DayLength
  BY ClockAfter
<1>2. CASE times = {}
  BY <1>2 DEF TimeOr, IsClock
<1>3. CASE times # {}
  <2>1. The(times) \in times
    BY <1>3 DEF The
  <2>2. TimeOr(times, clock, from).clock \in Int
    BY <1>1, <1>3, <2>1 DEF TimeOr
  <2> QED BY <1>1, <2>2 DEF IsClock
<1> QED BY <1>2, <1>3

LEMMA TimeAfterFirstType ==
    ASSUME NEW tokens \in Seq(Token)
    PROVE  TimeAfterFirst(tokens).clock \in Int
<1>1. DefaultTime \in Int
  BY DEF DefaultTime, Clock, Hour
<1> QED BY <1>1, TimesType DEF TimeAfterFirst

LEMMA RelativeFound ==
    ASSUME zone \in Zone, now \in Int, NEW tokens \in Seq(Token)
    PROVE  IsFound(RelativeStrategy(tokens))
<1> DEFINE match == Relative(tokens)
           times == TimeAfterSpec(tokens, match.next, match.spec)
           clocks == {t.clock : t \in times}
           next == Max({match.next} \cup {t.next : t \in times})
<1>1. RelativeStrategy(tokens) =
        IF match.kind = "none" THEN {}
        ELSE IF match.kind = "bad" THEN Found(Fail("InvalidRelSpec"), 0)
        ELSE Found(Apply(match.spec, now, zone, clocks), next)
  BY DEF RelativeStrategy, Relatively
<1>2. match.kind \in {"none", "bad", "spec"}
  BY RelativeKinds
<1>3. ASSUME match.kind = "spec" PROVE IsResult(Apply(match.spec, now, zone, clocks))
  <2>1. match.spec \in [Unit -> Nat] /\ match.next \in Nat
    BY <1>3, SpanType
  <2>2. times \subseteq OptionalTime(tokens, match.next)
    BY DEF TimeAfterSpec
  <2> HIDE DEF match, times
  <2>3. IsClock(clocks)
    <3>1. 0 \in Int
      OBVIOUS
    <3> QED BY <2>1, <2>2, <3>1, TimesType
  <2> HIDE DEF clocks
  <2> QED BY <2>1, <2>3, ApplyType
<1>4. IsResult(Fail("InvalidRelSpec"))
  BY FailType
<1> HIDE DEF match, times, clocks, next
<1> QED BY <1>1, <1>2, <1>3, <1>4 DEF IsFound, Found

LEMMA OnOneOfFound ==
    ASSUME zone \in Zone, NEW days, days \subseteq Int, NEW time, time.clock \in Int
    PROVE  IsFound(OnOneOf(days, time))
<1>1. CASE days = {}
  BY <1>1 DEF OnOneOf, IsFound
<1>2. CASE days # {}
  <2>1. The(days) \in Int
    BY <1>2 DEF The
  <2>2. IsResult(OnDay(The(days), time.clock))
    BY <2>1, OnDayType
  <2> QED BY <1>2, <2>2 DEF OnOneOf, Found, IsFound
<1> QED BY <1>1, <1>2

LEMMA DateFound ==
    ASSUME zone \in Zone, now \in Int, NEW tokens \in Seq(Token), tokens # <<>>
    PROVE  IsFound(DateStrategy(tokens))
<1> DEFINE time == TimeAfterFirst(tokens)
           dates == UNION {Dates(d, time.clock) : d \in tokens[1].date}
           days == {DayNumber(d) : d \in dates}
<1>1. time.clock \in Int
  BY TimeAfterFirstType
<1>2. tokens[1] \in Token
  OBVIOUS
<1>3. tokens[1].date \subseteq Date
  BY <1>2 DEF Token
<1>4. YearOf(Today) \in Int
  BY TodayType DEF Today
<1> HIDE DEF time
<1>5. \A d \in dates : d \in Date /\ Exists(d)
  <2> SUFFICES ASSUME NEW date \in tokens[1].date, NEW d \in Dates(date, time.clock)
               PROVE  d \in Date /\ Exists(d)
    OBVIOUS
  <2> DEFINE y == YearOfDate(date, YearOf(Today), time.clock)
  <2>1. date \in Date
    BY <1>3
  <2>2. y \in Int
    BY <1>4, <2>1 DEF YearOfDate, Date
  <2>3. d = WithYear(date, y) /\ Exists(d)
    BY DEF Dates
  <2> HIDE DEF y
  <2> QED BY <2>1, <2>2, <2>3 DEF WithYear, Date
<1> HIDE DEF dates
<1>6. days \subseteq Int
  BY <1>5, DayOfDate
<1>7. DateStrategy(tokens) = OnOneOf(days, time)
  BY DEF DateStrategy, days, dates, time
<1> HIDE DEF days
<1> QED BY <1>1, <1>6, <1>7, OnOneOfFound

LEMMA ClockFound ==
    ASSUME zone \in Zone, now \in Int, NEW tokens \in Seq(Token)
    PROVE  IsFound(ClockStrategy(tokens))
<1>1. Today \in Int
  BY TodayType DEF Today
<1>2. ASSUME NEW time \in OptionalTime(tokens, 1)
      PROVE  IsFound(OnOneOf({DayOfClock(time.clock)}, time))
  <2>1. time.clock \in Int
    BY ClockAfter
  <2>2. {DayOfClock(time.clock)} \subseteq Int
    BY <1>1 DEF DayOfClock
  <2> QED BY <2>1, <2>2, OnOneOfFound
<1> QED BY <1>2 DEF ClockStrategy, IsFound

LEMMA NamedFound ==
    ASSUME zone \in Zone, now \in Int, NEW tokens \in Seq(Token), tokens # <<>>
    PROVE  IsFound(NamedStrategy(tokens))
<1> DEFINE time == TimeAfterFirst(tokens)
           first == tokens[1]
<1>1. time.clock \in Int /\ Today \in Int
  BY TimeAfterFirstType, TodayType DEF Today
<1>2. first \in Token
  OBVIOUS
<1>3. first.days \subseteq 0 .. 6
  BY <1>2 DEF Token
<1>4. \/ NamedStrategy(tokens) = {}
      \/ /\ NamedStrategy(tokens) = OnOneOf({NamedDay(first, time.clock)}, time)
         /\ \/ first.key \in {"tomorrow", "day after tomorrow"}
            \/ Cardinality(first.days) = 1
  BY DEF NamedStrategy
<1> HIDE DEF first, time
<1>5. CASE NamedStrategy(tokens) = {}
  BY <1>5 DEF IsFound
<1>6. CASE first.key \in {"tomorrow", "day after tomorrow"} \/ Cardinality(first.days) = 1
  <2>1. ASSUME Cardinality(first.days) = 1 PROVE The(first.days) \in 0 .. 6
    <3>1. first.days # {}
      <4>1. Cardinality({}) = 0
        BY FS_EmptySet
      <4> DEFINE D == first.days
      <4>2. Cardinality(D) = 1
        BY <2>1
      <4> HIDE DEF D
      <4>3. D # {}
        <5>1. 0 # 1
          OBVIOUS
        <5> QED BY <4>1, <4>2, <5>1, Zenon
      <4> QED BY <4>3 DEF D
    <3> QED BY <1>3, <3>1 DEF The
  <2>2. NamedDay(first, time.clock) \in Int
    <3>1. Weekday(Today) \in Int
      BY <1>1 DEF Weekday
    <3>2. ASSUME NEW w \in 0 .. 6 PROVE FirstWeekday(w, time.clock) \in Int
      <4> DEFINE x == Today + ((w + 7 - Weekday(Today)) % 7)
      <4>1. x \in Int
        BY <1>1, <3>1
      <4>2. FirstWeekday(w, time.clock) = x \/ FirstWeekday(w, time.clock) = x + 7
        BY DEF FirstWeekday
      <4> HIDE DEF x
      <4> QED BY <4>1, <4>2
    <3>3. CASE first.key \in {"tomorrow", "day after tomorrow"}
      <4>1. NamedDay(first, time.clock) \in {Today + 1, Today + 2}
        BY <3>3, Zenon DEF NamedDay
      <4> QED BY <1>1, <4>1
    <3>4. CASE first.key \notin {"tomorrow", "day after tomorrow"}
      <4>1. NamedDay(first, time.clock) = FirstWeekday(The(first.days), time.clock)
        BY <3>4 DEF NamedDay
      <4>2. The(first.days) \in 0 .. 6
        BY <1>6, <2>1, <3>4
      <4> QED BY <3>2, <4>1, <4>2
    <3> QED BY <3>3, <3>4
  <2>3. IsFound(OnOneOf({NamedDay(first, time.clock)}, time))
    BY <1>1, <2>2, OnOneOfFound
  <2> QED BY <1>4, <2>3 DEF IsFound
<1> QED BY <1>4, <1>5, <1>6

\* An accepted command for one alert has a text and an instant to come.
OneAnswer(answer) ==
    /\ answer.error # None => answer.schedule = {} /\ answer.notes = {}
    /\ answer.error = None =>
         /\ answer.text # <<>>
         /\ answer.notes \subseteq {"LeapClampedToFeb28", "MonthDayClamped"}
         /\ \E u \in Int : u > now /\ answer.schedule = {OneShotSchedule(u, zone)}

LEMMA OneShotType ==
    ASSUME zone \in Zone, now \in Int, NEW tokens \in Seq(Token)
    PROVE  OneAnswer(ParseOneShot(tokens))
<1>1. \A e : e # None => OneAnswer(Refusal(e))
  BY DEF OneAnswer, Refusal
<1>2. \A e \in {"Empty", "HeuteRejected", "NoTimeExpression", "MissingText", "InPast"} : e # None
  BY DEF None
<1>3. CASE tokens = <<>> \/ tokens[1].key = "today"
  BY <1>1, <1>2, <1>3 DEF ParseOneShot
<1>4. CASE tokens # <<>> /\ tokens[1].key # "today"
  <2> DEFINE found == Strategies(tokens)
             it == The(found)
             result == it.result
             text == SubSeq(tokens, it.next, Len(tokens))
  <2>1. IsFound(found)
    BY <1>4, RelativeFound, DateFound, ClockFound, NamedFound DEF Strategies, OrElse
  <2>2. ParseOneShot(tokens) = AnswerOneShot(tokens, found)
    BY <1>4 DEF ParseOneShot
  <2> HIDE DEF found
  <2>3. AnswerOneShot(tokens, found) =
          IF found = {} THEN Refusal("NoTimeExpression")
          ELSE IF result.error # None THEN Refusal(result.error)
          ELSE IF text = <<>> THEN Refusal("MissingText")
          ELSE IF result.at <= now THEN Refusal("InPast")
          ELSE Answer(OneShotSchedule(result.at, zone), result.notes, text)
    BY DEF AnswerOneShot
  <2>4. found # {} => IsResult(result)
    <3>1. found # {} => it \in found
      BY DEF The
    <3> QED BY <2>1, <3>1 DEF IsFound
  <2> HIDE DEF it, result, text
  <2>5. CASE found # {} /\ result.error = None /\ text # <<>> /\ ~(result.at <= now)
    <3> DEFINE s == OneShotSchedule(result.at, zone)
    <3>1. AnswerOneShot(tokens, found) = Answer(s, result.notes, text)
      BY <2>3, <2>5
    <3>2. result.at \in Int /\ result.notes \subseteq {"LeapClampedToFeb28", "MonthDayClamped"}
      BY <2>4, <2>5 DEF IsResult
    <3>3. result.at > now
      BY <2>5, <3>2
    <3> HIDE DEF s
    <3>4. LET answer == Answer(s, result.notes, text)
          IN  /\ answer.error = None /\ answer.text = text
              /\ answer.notes = result.notes /\ answer.schedule = {s}
      BY DEF Answer
    <3> QED BY <2>2, <2>5, <3>1, <3>2, <3>3, <3>4 DEF OneAnswer, s
  <2>6. CASE ~(found # {} /\ result.error = None /\ text # <<>> /\ ~(result.at <= now))
    <3>1. \E e : e # None /\ AnswerOneShot(tokens, found) = Refusal(e)
      BY <1>2, <2>3, <2>6
    <3> QED BY <1>1, <2>2, <3>1
  <2> QED BY <2>5, <2>6
<1> QED BY <1>3, <1>4

-----------------------------------------------------------------------------
(* What the strategies for a series make.                                   *)

\* RefusedOnlyForCause, of a span, a clock and what follows them: the span is
\* no interval of a series, or there is nothing to say.
NoInterval(spec, clock) ==
    LET years == spec["Y"] > 0
        months == spec["M"] > 0
        rest == Days(spec) > 0 \/ HasSubDay(spec)
        n == spec["Y"] + spec["M"] + Days(spec) + Seconds(spec) \div DayLength
        all == Days(spec) * DayLength + Seconds(spec)
        unit == Max({u \in {1, 60, Hour} : all % u = 0})
    IN  \/ years /\ months
        \/ (years \/ months) /\ rest
        \/ n = 0 /\ Seconds(spec) < 1800
        \/ n > MaxInterval
        \/ HasSubDay(spec) /\ clock # {}
        \/ Seconds(spec) % DayLength # 0 /\ all \div unit > MaxInterval

\* Rules that the library can count by, and what the parser leaves to it.
IsRule(rule) ==
    /\ rule.freq \in Frequency \ {"once"}
    /\ rule.interval \in 1 .. MaxInterval /\ rule.unit \in {1, 60, Hour}
    /\ rule.clock \in Int
    /\ rule.month \in Int /\ (rule.freq = "yearly" => rule.month \in 1 .. 12)

NotesOfSeries == {"MonthlyLastDay", "MonthlyLastDayFrom", "YearlyFeb29Fallback"}

\* A strategy has refused, or made a series that begins at an instant to come.
Refused(found) == \E e : e # None /\ found = Refuse(e)
Made(found, next) ==
    \E start, z, rule, notes :
        /\ start \in Int /\ start > now /\ z \in Zone
        /\ IsRule(rule) /\ notes \subseteq NotesOfSeries
        /\ found = {[error |-> None, schedule |-> {Schedule(start, z, rule)},
                     notes |-> notes, next |-> next]}

LEMMA Recurs ==
    /\ {"seconds", "daily", "weekly", "monthly", "yearly"} = Frequency \ {"once"}
    /\ "InvalidRecurrenceSpec" # None /\ "IntervalTooShort" # None
    /\ "SubDayRelWithOverride" # None
  BY DEF Frequency, None

LEMMA RuleForms ==
    ASSUME NEW n \in 1 .. MaxInterval
    PROVE  /\ \A unit \in {1, 60, Hour} : IsRule(IntervalRule(n, unit))
           /\ \A clock \in Int : IsRule(DailyAt(n, clock))
           /\ \A days, clock \in Int : IsRule(MonthlyEveryOrLastDay(n, days, clock))
           /\ \A month \in 1 .. 12, day \in Int, clock \in Int : IsRule(YearlyEvery(n, month, day, clock))
           /\ \A month \in 1 .. 12, clock \in Int :
                IsRule(YearlyEveryLastDayOfMonth(n, month, clock))
<1>1. 0 \in Int /\ 1 \in {1, 60, Hour}
  OBVIOUS
<1>2. \A unit \in {1, 60, Hour} : IsRule(IntervalRule(n, unit))
  BY <1>1, Recurs DEF IsRule, IntervalRule, AnyRule
<1>3. \A clock \in Int : IsRule(DailyAt(n, clock))
  BY <1>1, Recurs DEF IsRule, DailyAt, AnyRule
<1>4. \A day \in Int, clock \in Int : IsRule(MonthlyEveryOrLastDay(n, day, clock))
  BY <1>1, Recurs DEF IsRule, MonthlyEveryOrLastDay, MonthlyEvery, AnyRule
<1>5. \A month \in 1 .. 12, day \in Int, clock \in Int : IsRule(YearlyEvery(n, month, day, clock))
  BY <1>1, Recurs DEF IsRule, YearlyEvery, AnyRule
<1>6. \A month \in 1 .. 12, clock \in Int : IsRule(YearlyEveryLastDayOfMonth(n, month, clock))
  BY <1>1, Recurs DEF IsRule, YearlyEveryLastDayOfMonth, YearlyEvery, AnyRule
<1> QED BY <1>2, <1>3, <1>4, <1>5, <1>6

LEMMA NamedRules ==
    ASSUME NEW clock \in Int
    PROVE  /\ \A days : IsRule(Weekly(days, clock))
           /\ \A day : IsRule(MonthlyEvery(1, day, clock))
           /\ IsRule(MonthlyLastDay(clock))
           /\ \A month \in 1 .. 12 : \A day : IsRule(YearlyEvery(1, month, day, clock))
<1>1. 0 \in Int /\ 1 \in {1, 60, Hour} /\ 1 \in 1 .. MaxInterval
  BY DEF MaxInterval
<1>2. \A days : IsRule(Weekly(days, clock))
  BY <1>1, Recurs DEF IsRule, Weekly, AnyRule
<1>3. \A day : IsRule(MonthlyEvery(1, day, clock))
  BY <1>1, Recurs DEF IsRule, MonthlyEvery, AnyRule
<1>4. \A month \in 1 .. 12 : \A day : IsRule(YearlyEvery(1, month, day, clock))
  BY <1>1, Recurs DEF IsRule, YearlyEvery, AnyRule
<1> QED BY <1>2, <1>3, <1>4 DEF MonthlyLastDay

\* Anchors are instants to come.
LEMMA Anchors ==
    ASSUME zone \in Zone, now \in Int, NEW clock \in Int, NEW n \in Nat, n > 0
    PROVE  /\ DailyAnchor(n, clock) \in Int /\ DailyAnchor(n, clock) > now
           /\ \A days : WeeklyAnchor(days, clock) \in Int /\ WeeklyAnchor(days, clock) > now
           /\ \A day \in Int, clamped \in BOOLEAN :
                /\ MonthsAnchor(n, day, clamped, clock) \in Int
                /\ MonthsAnchor(n, day, clamped, clock) > now
           /\ \A month \in 1 .. 12, day \in Int :
                YearlyAnchor(month, day, n, clock) \in Int /\ YearlyAnchor(month, day, n, clock) > now
<1>1. Today \in Int /\ YearOf(Today) \in Int /\ DateOf(Today) \in Date
  BY TodayType DEF Today
<1>2. ASSUME NEW S, S \subseteq Int, NEW k \in Int, k > 0
      PROVE  /\ FirstFuture(S, clock, now + k * DayLength) \in Int
             /\ FirstFuture(S, clock, now + k * DayLength) > now
  BY <1>2, AnchorType
<1>3. DailyAnchor(n, clock) \in Int /\ DailyAnchor(n, clock) > now
  <2>1. {Today, Today + n} \subseteq Int
    BY <1>1
  <2> QED BY <1>2, <2>1 DEF DailyAnchor
<1>4. ASSUME NEW days
      PROVE  WeeklyAnchor(days, clock) \in Int /\ WeeklyAnchor(days, clock) > now
  <2>1. {d \in Today .. Today + 7 : Weekday(d) \in days} \subseteq Int
    BY <1>1
  <2> QED BY <1>2, <2>1 DEF WeeklyAnchor
<1>5. ASSUME NEW day \in Int, NEW clamped \in BOOLEAN
      PROVE  /\ MonthsAnchor(n, day, clamped, clock) \in Int
             /\ MonthsAnchor(n, day, clamped, clock) > now
  <2> DEFINE dates == {DayOfMonth(day, ThisMonth + n * k, clamped) : k \in 0 .. 13}
             days == {DayNumber(d) : d \in {e \in dates : Exists(e)}}
  <2>1. ThisMonth \in Int
    BY <1>1 DEF ThisMonth, MonthOf, Date
  <2>2. \A d \in dates : d \in Date
    <3> SUFFICES ASSUME NEW k \in 0 .. 13
                 PROVE  DayOfMonth(day, ThisMonth + n * k, clamped) \in Date
      OBVIOUS
    <3> DEFINE i == ThisMonth + n * k
    <3>1. i \in Int
      BY <2>1
    <3> HIDE DEF i
    <3> DEFINE y == i \div 12
               m == (i % 12) + 1
    <3>2. y \in Int /\ m \in 1 .. 12
      BY <3>1
    <3> HIDE DEF y, m
    <3>3. LastDay(y, m) \in 28 .. 31
      BY <3>2, MonthLength
    <3>4. AtMost(day, y, m) \in Int
      BY <3>3 DEF AtMost
    <3>5. DayOfMonth(day, i, clamped)
            = [y |-> y, m |-> m, d |-> IF clamped THEN AtMost(day, y, m) ELSE day]
      BY DEF DayOfMonth, y, m
    <3>6. DayOfMonth(day, i, clamped) \in Date
      BY <3>2, <3>4, <3>5 DEF Date
    <3> QED BY <3>6 DEF i
  <2> HIDE DEF dates
  <2>3. days \subseteq Int
    BY <2>2, DayOfDate
  <2>4. MonthsAnchor(n, day, clamped, clock) = FirstFuture(days, clock, now + 31 * DayLength)
    BY DEF MonthsAnchor, days, dates
  <2> HIDE DEF days
  <2>5. 31 \in Int /\ 31 > 0
    OBVIOUS
  <2> QED BY <1>2, <2>3, <2>4, <2>5
<1>6. ASSUME NEW month \in 1 .. 12, NEW day \in Int
      PROVE  YearlyAnchor(month, day, n, clock) \in Int /\ YearlyAnchor(month, day, n, clock) > now
  <2> DEFINE days == {DayOfYear(YearOf(Today) + n * k, month, day) : k \in 0 .. 4}
  <2>1. ASSUME NEW y \in Int PROVE DayOfYear(y, month, day) \in Int
    <3> DEFINE d == AtMost(day, y, month)
               date == [y |-> y, m |-> month, d |-> d]
    <3>1. LastDay(y, month) \in 28 .. 31
      BY MonthLength
    <3>2. d \in Int
      BY <3>1 DEF AtMost
    <3> HIDE DEF d
    <3>3. date.y \in Int /\ date.m \in 1 .. 12 /\ date.d \in Int
      BY <3>2
    <3> HIDE DEF date
    <3>4. DayNumber(date) \in Int
      BY <3>3, DayNumberType
    <3> QED BY <3>4 DEF DayOfYear, date, d
  <2>2. \A k \in 0 .. 4 : YearOf(Today) + n * k \in Int
    BY <1>1
  <2>3. days \subseteq Int
    BY <2>1, <2>2
  <2>4. YearlyAnchor(month, day, n, clock) = FirstFuture(days, clock, now + 365 * DayLength)
    BY DEF YearlyAnchor
  <2> HIDE DEF days
  <2>5. 365 \in Int /\ 365 > 0
    OBVIOUS
  <2>6. /\ FirstFuture(days, clock, now + 365 * DayLength) \in Int
        /\ FirstFuture(days, clock, now + 365 * DayLength) > now
    BY <1>2, <2>3, <2>5, ZenonT(40)
  <2> QED BY <2>4, <2>6, Zenon
<1> QED BY <1>3, <1>4, <1>5, <1>6

LEMMA MakeMade ==
    ASSUME zone \in Zone, NEW start \in Int, start > now, NEW rule, IsRule(rule),
           NEW notes, notes \subseteq NotesOfSeries, NEW next
    PROVE  Made(Make(start, rule, notes, next), next)
  BY DEF Made, Make

LEMMA FitsInRule ==
    ASSUME NEW n \in Int, 0 < n, ~(n > MaxInterval)
    PROVE  n \in 1 .. MaxInterval
<1>1. MaxInterval \in Int
  BY DEF MaxInterval
<1> QED BY <1>1

LEMMA YearlyMade ==
    ASSUME zone \in Zone, now \in Int, NEW spec, spec["Y"] \in Nat, spec["Y"] > 0,
           NEW clock \in Int, NEW next
    PROVE  /\ spec["Y"] > MaxInterval => Refused(Yearly(spec, clock, next))
           /\ ~(spec["Y"] > MaxInterval) => Made(Yearly(spec, clock, next), next)
<1> DEFINE n == spec["Y"]
           today == DateOf(Today)
           start == YearlyAnchor(today.m, today.d, n, clock)
           last == YearlyEveryLastDayOfMonth(n, 2, clock)
           day == YearlyEvery(n, today.m, today.d, clock)
<1>1. CASE n > MaxInterval
  <2>1. Yearly(spec, clock, next) = Refuse("InvalidRecurrenceSpec")
    BY <1>1 DEF Yearly
  <2> QED BY <1>1, <2>1, Recurs DEF Refused
<1>2. CASE ~(n > MaxInterval)
  <2>1. n \in 1 .. MaxInterval
    BY <1>2, FitsInRule
  <2>2. \/ Yearly(spec, clock, next) = Make(start, last, {"YearlyFeb29Fallback"}, next)
        \/ Yearly(spec, clock, next) = Make(start, day, {}, next)
    BY <1>2 DEF Yearly
  <2>3. today.m \in 1 .. 12 /\ today.d \in Int
    BY TodayType DEF Today, Date, Exists
  <2> HIDE DEF n, today
  <2>4. IsRule(last) /\ IsRule(day)
    <3>1. 2 \in 1 .. 12
      OBVIOUS
    <3> QED BY <2>1, <2>3, <3>1, RuleForms
  <2>5. start \in Int /\ start > now
    <3>1. n \in Nat /\ n > 0
      BY DEF n
    <3> QED BY <2>3, <3>1, Anchors
  <2> HIDE DEF start, last, day
  <2>6. {} \subseteq NotesOfSeries /\ {"YearlyFeb29Fallback"} \subseteq NotesOfSeries
    BY DEF NotesOfSeries
  <2>7. /\ Made(Make(start, last, {"YearlyFeb29Fallback"}, next), next)
        /\ Made(Make(start, day, {}, next), next)
    BY <2>4, <2>5, <2>6, MakeMade
  <2> QED BY <1>2, <2>2, <2>7 DEF n
<1> QED BY <1>1, <1>2

LEMMA MonthlyMade ==
    ASSUME zone \in Zone, now \in Int, NEW spec, spec["M"] \in Nat, spec["M"] > 0,
           NEW clock \in Int, NEW next
    PROVE  /\ spec["M"] > MaxInterval => Refused(Monthly(spec, clock, next))
           /\ ~(spec["M"] > MaxInterval) => Made(Monthly(spec, clock, next), next)
<1> DEFINE n == spec["M"]
           day == DateOf(Today).d
           start == MonthlyOrLastDayAnchor(day, n, clock)
           rule == MonthlyEveryOrLastDay(n, day, clock)
           note == MonthlyNote(day)
<1>1. CASE n > MaxInterval
  <2>1. Monthly(spec, clock, next) = Refuse("InvalidRecurrenceSpec")
    BY <1>1 DEF Monthly
  <2> QED BY <1>1, <2>1, Recurs DEF Refused
<1>2. CASE ~(n > MaxInterval)
  <2>1. n \in 1 .. MaxInterval
    BY <1>2, FitsInRule
  <2>2. Monthly(spec, clock, next) = Make(start, rule, note, next)
    BY <1>2 DEF Monthly
  <2>3. day \in Int
    BY TodayType DEF Today, Date
  <2> HIDE DEF n, day
  <2>4. IsRule(rule)
    BY <2>1, <2>3, RuleForms
  <2>5. start \in Int /\ start > now
    <3>1. n \in Nat /\ n > 0
      BY DEF n
    <3>2. TRUE \in BOOLEAN
      OBVIOUS
    <3>3. /\ MonthsAnchor(n, day, TRUE, clock) \in Int
          /\ MonthsAnchor(n, day, TRUE, clock) > now
      BY <2>3, <3>1, <3>2, Anchors
    <3> QED BY <3>3 DEF MonthlyOrLastDayAnchor
  <2>6. note \subseteq NotesOfSeries
    BY DEF MonthlyNote, NotesOfSeries
  <2> HIDE DEF start, rule, note
  <2>7. Made(Make(start, rule, note, next), next)
    BY <2>4, <2>5, <2>6, MakeMade
  <2> QED BY <1>2, <2>2, <2>7 DEF n
<1> QED BY <1>1, <1>2

LEMMA DaysOrSecondsMade ==
    ASSUME zone \in Zone, now \in Int,
           NEW spec \in [Unit -> Nat], spec["Y"] = 0, spec["M"] = 0, NEW clock \in Int,
           NEW next, NEW times, ~(HasSubDay(spec) /\ times # {})
    PROVE  /\ NoInterval(spec, times) => Refused(ByDaysOrSeconds(spec, clock, next))
           /\ ~NoInterval(spec, times) => Made(ByDaysOrSeconds(spec, clock, next), next)
<1> DEFINE seconds == Seconds(spec)
           days == Days(spec)
           whole == seconds \div DayLength
           n == days + whole
           all == days * DayLength + seconds
           unit == Max({u \in {1, 60, Hour} : all % u = 0})
           found == ByDaysOrSeconds(spec, clock, next)
<1>1. days \in Nat /\ seconds \in Nat
  BY SpanParts
<1>2. found =
        IF days = 0 /\ seconds < MinIntervalSeconds THEN Refuse("IntervalTooShort")
        ELSE IF seconds % DayLength = 0
             THEN IF n > MaxInterval THEN Refuse("InvalidRecurrenceSpec")
                  ELSE Make(DailyAnchor(n, clock), DailyAt(n, clock), {}, next)
        ELSE IF Intervals(days, seconds) = {} THEN Refuse("InvalidRecurrenceSpec")
        ELSE {[error |-> None, notes |-> {}, next |-> next,
               schedule |-> {Schedule(now + days * DayLength + seconds, NoOffset,
                               IntervalRule(The(Intervals(days, seconds)), IntervalUnit(seconds)))}]}
  BY DEF ByDaysOrSeconds, Seconds, Days
<1>3. NoInterval(spec, times) <=>
        \/ n = 0 /\ seconds < 1800
        \/ n > MaxInterval
        \/ seconds % DayLength # 0 /\ all \div unit > MaxInterval
  <2> DEFINE rest == Days(spec) > 0 \/ HasSubDay(spec)
  <2>1. spec["Y"] + spec["M"] + Days(spec) = days
    BY <1>1
  <2> QED BY <2>1 DEF NoInterval
<1>4. /\ Intervals(days, seconds) = {} <=> all \div unit > MaxInterval
      /\ n > MaxInterval => all \div unit > MaxInterval
      /\ Intervals(days, seconds) # {} => Intervals(days, seconds) = {all \div unit}
      /\ unit = IntervalUnit(seconds)
  <2>1. IntervalFits(days, seconds)
    BY <1>1, IntervalsFit
  <2> QED BY <2>1 DEF IntervalFits
<1>5. /\ whole \in Nat
      /\ seconds < 1800 => whole = 0
      /\ seconds % DayLength = 0 /\ seconds > 0 => whole > 0
  BY <1>1 DEF DayLength
<1>6. n \in Nat /\ (n = 0 /\ seconds < 1800 <=> days = 0 /\ seconds < 1800)
  BY <1>1, <1>5
<1> HIDE DEF unit
<1>7. all \div unit \in Int /\ (days > 0 \/ seconds > 0 => all \div unit > 0)
  <2>1. unit \in {1, 60, 3600} /\ seconds % unit = 0
    <3>1. seconds % 1 = 0
      BY <1>1
    <3> QED BY <1>1, <1>4, <3>1 DEF IntervalUnit, Hour
  <2>2. unit \in Int /\ 0 < unit /\ all \in Nat
    BY <1>1, <2>1 DEF DayLength
  <2> HIDE DEF all
  <2>3. /\ all \div unit \in Int /\ all = unit * (all \div unit) + (all % unit)
        /\ 0 <= all % unit /\ all % unit < unit
    BY <2>2, Division
  <2>4. days > 0 \/ seconds > 0 => all >= unit
    <3>1. CASE days > 0
      <4>1. all >= 86400
        BY <1>1, <3>1 DEF DayLength, all
      <4> QED BY <2>1, <2>2, <4>1
    <3>2. CASE seconds > 0
      <4>1. seconds >= unit
        BY <1>1, <2>1, <3>2
      <4> QED BY <1>1, <2>2, <4>1 DEF DayLength, all
    <3> QED BY <3>1, <3>2
  <2> DEFINE q == all \div unit
             r == all % unit
  <2>5. q \in Int /\ all = unit * q + r /\ r < unit /\ all \in Nat
        /\ (days > 0 \/ seconds > 0 => all >= unit) /\ r \in Int
    BY <2>2, <2>3, <2>4
  <2> HIDE DEF q, r
  <2>6. days > 0 \/ seconds > 0 => q > 0
    <3> SUFFICES ASSUME all >= unit, q <= 0 PROVE FALSE
      BY <2>5
    <3>1. unit * q <= 0
      BY <2>2, <2>5
    <3>2. unit * q \in Int
      BY <2>2, <2>5
    <3> QED BY <2>2, <2>5, <3>1, <3>2
  <2> QED BY <2>5, <2>6 DEF q, all
<1> HIDE DEF seconds, days, whole, n, all, found
<1>8. CASE days = 0 /\ seconds < 1800
  <2>1. found = Refuse("IntervalTooShort")
    BY <1>2, <1>8 DEF MinIntervalSeconds
  <2>2. NoInterval(spec, times)
    BY <1>3, <1>6, <1>8
  <2> QED BY <2>1, <2>2, Recurs DEF Refused, found
<1>9. CASE ~(days = 0 /\ seconds < 1800) /\ seconds % DayLength = 0
  <2>1. n > MaxInterval => found = Refuse("InvalidRecurrenceSpec")
    BY <1>2, <1>9 DEF MinIntervalSeconds
  <2>2. ~(n > MaxInterval) =>
           found = Make(DailyAnchor(n, clock), DailyAt(n, clock), {}, next)
    BY <1>2, <1>9 DEF MinIntervalSeconds
  <2>3. n > 0
    BY <1>1, <1>5, <1>6, <1>9 DEF n
  <2>4. ~(n > MaxInterval) => n \in 1 .. MaxInterval
    BY <1>6, <2>3, FitsInRule
  <2>5. ~(n > MaxInterval) => Made(found, next)
    <3> DEFINE rule == DailyAt(n, clock)
               start == DailyAnchor(n, clock)
    <3>1. ~(n > MaxInterval) => IsRule(rule)
      BY <2>4, RuleForms
    <3>2. ~(n > MaxInterval) => found = Make(start, rule, {}, next)
      BY <2>2
    <3>3. start \in Int /\ start > now
      BY <1>6, <2>3, Anchors
    <3>4. {} \subseteq NotesOfSeries
      OBVIOUS
    <3> HIDE DEF rule, start
    <3> QED BY <3>1, <3>2, <3>3, <3>4, MakeMade
  <2>6. NoInterval(spec, times) <=> n > MaxInterval
    BY <1>3, <1>6, <1>9
  <2> QED BY <2>1, <2>5, <2>6, Recurs DEF Refused, found
<1>10. CASE ~(days = 0 /\ seconds < 1800) /\ seconds % DayLength # 0
  <2>1. NoInterval(spec, times) <=> Intervals(days, seconds) = {}
    BY <1>3, <1>4, <1>6, <1>10
  <2>2. Intervals(days, seconds) = {} => found = Refuse("InvalidRecurrenceSpec")
    BY <1>2, <1>10 DEF MinIntervalSeconds
  <2>3. ASSUME Intervals(days, seconds) # {} PROVE Made(found, next)
    <3> DEFINE i == all \div unit
               rule == IntervalRule(i, IntervalUnit(seconds))
               start == now + days * DayLength + seconds
    <3>1. Intervals(days, seconds) = {i}
      BY <1>4, <2>3
    <3>2. The(Intervals(days, seconds)) = i
      BY <3>1 DEF The
    <3>3. found = {[error |-> None, notes |-> {}, next |-> next,
                    schedule |-> {Schedule(start, NoOffset, rule)}]}
      BY <1>2, <1>10, <2>3, <3>2 DEF MinIntervalSeconds
    <3>4. i \in 1 .. MaxInterval
      <4>1. days > 0 \/ seconds > 0
        BY <1>1, <1>10
      <4>2. i \in Int /\ 0 < i /\ ~(i > MaxInterval)
        BY <1>4, <1>7, <2>3, <4>1
      <4> HIDE DEF i
      <4> QED BY <4>2, FitsInRule
    <3>5. IntervalUnit(seconds) \in {1, 60, Hour}
      BY DEF IntervalUnit
    <3>6. start \in Int /\ start > now
      <4>1. days * DayLength + seconds > 0
        BY <1>1, <1>10 DEF DayLength
      <4> QED BY <1>1, <4>1 DEF DayLength
    <3> HIDE DEF i
    <3>7. IsRule(rule)
      BY <3>4, <3>5, RuleForms
    <3>8. {} \subseteq NotesOfSeries /\ NoOffset \in Zone
      BY DEF NoOffset, Zone
    <3> HIDE DEF rule, start
    <3> QED BY <3>3, <3>6, <3>7, <3>8 DEF Made
  <2> QED BY <2>1, <2>2, <2>3, Recurs DEF Refused, found
<1> QED BY <1>8, <1>9, <1>10

LEMMA CreationType ==
    ASSUME zone \in Zone, now \in Int
    PROVE  CreationTime \in Int
<1>1. ClockOf(Wall(zone, now)) \in Int
  BY WallType, ClockParts
<1> DEFINE c == ClockOf(Wall(zone, now))
<1>2. c \in Int /\ CreationTime = c - (c % 60)
  BY <1>1 DEF CreationTime
<1> HIDE DEF c
<1> QED BY <1>2

\* A span with a clock, or without, is a series unless it is no interval.
LEMMA SpanSeries ==
    ASSUME zone \in Zone, now \in Int,
           NEW match, match.kind = "spec", match.spec \in [Unit -> Nat],
           NEW times, \A t \in times : t.clock \in Int,
           NEW clocks, times = {} <=> clocks = {}
    PROVE  /\ NoInterval(match.spec, clocks) => Refused(SeriesOf(match, times))
           /\ ~NoInterval(match.spec, clocks) =>
                Made(SeriesOf(match, times), TimeOr(times, CreationTime, match.next).next)
<1> DEFINE spec == match.spec
           time == TimeOr(times, CreationTime, match.next)
           found == SeriesOf(match, times)
           years == spec["Y"] > 0
           months == spec["M"] > 0
           rest == Days(spec) > 0 \/ HasSubDay(spec)
           n == spec["Y"] + spec["M"] + Days(spec) + Seconds(spec) \div DayLength
           all == Days(spec) * DayLength + Seconds(spec)
           unit == Max({u \in {1, 60, Hour} : all % u = 0})
<1>1. /\ spec["Y"] \in Nat /\ spec["M"] \in Nat /\ Days(spec) \in Nat /\ Seconds(spec) \in Nat
      /\ HasSubDay(spec) <=> Seconds(spec) > 0
  BY SpanParts
<1>2. found =
        IF Families(spec) > 1 THEN Refuse("InvalidRecurrenceSpec")
        ELSE IF times # {} /\ HasSubDay(spec) THEN Refuse("SubDayRelWithOverride")
        ELSE IF spec["Y"] > 0 THEN Yearly(spec, time.clock, time.next)
        ELSE IF spec["M"] > 0 THEN Monthly(spec, time.clock, time.next)
        ELSE ByDaysOrSeconds(spec, time.clock, time.next)
  <2>1. "none" # "spec" /\ "bad" # "spec"
    OBVIOUS
  <2> QED BY <2>1, Zenon DEF SeriesOf
<1>3. Families(spec) > 1 <=> (years /\ months) \/ ((years \/ months) /\ rest)
  BY FamiliesMixed
<1>4. NoInterval(spec, clocks) <=>
        \/ years /\ months
        \/ (years \/ months) /\ rest
        \/ n = 0 /\ Seconds(spec) < 1800
        \/ n > MaxInterval
        \/ HasSubDay(spec) /\ clocks # {}
        \/ Seconds(spec) % DayLength # 0 /\ all \div unit > MaxInterval
  BY DEF NoInterval
<1>11. time.clock \in Int
  <2>1. CreationTime \in Int
    BY CreationType
  <2>2. times # {} => The(times) \in times
    BY DEF The
  <2> QED BY <2>1, <2>2 DEF TimeOr
<1>5. ~rest => /\ Days(spec) = 0 /\ Seconds(spec) = 0
               /\ Seconds(spec) \div DayLength = 0 /\ Seconds(spec) % DayLength = 0
  BY <1>1 DEF DayLength
<1> HIDE DEF found, time, all, unit
<1>6. CASE Families(spec) > 1
  <2>1. found = Refuse("InvalidRecurrenceSpec")
    BY <1>2, <1>6
  <2>2. NoInterval(spec, clocks)
    BY <1>3, <1>4, <1>6
  <2> QED BY <2>1, <2>2, Recurs DEF Refused, found
<1>7. CASE ~(Families(spec) > 1) /\ times # {} /\ HasSubDay(spec)
  <2>1. found = Refuse("SubDayRelWithOverride")
    BY <1>2, <1>7
  <2>2. NoInterval(spec, clocks)
    BY <1>4, <1>7
  <2> QED BY <2>1, <2>2, Recurs DEF Refused, found
<1>8. CASE /\ ~(Families(spec) > 1) /\ ~(times # {} /\ HasSubDay(spec))
           /\ spec["Y"] > 0
  <2>1. found = Yearly(spec, time.clock, time.next)
    BY <1>2, <1>8
  <2>2. spec["M"] = 0 /\ ~rest
    BY <1>1, <1>3, <1>8
  <2>3. n = spec["Y"]
    BY <1>1, <1>5, <2>2
  <2>4. NoInterval(spec, clocks) <=> spec["Y"] > MaxInterval
    BY <1>1, <1>4, <1>5, <1>8, <2>2, <2>3
  <2> HIDE DEF spec
  <2> QED BY <1>1, <1>11, <1>8, <2>1, <2>4, YearlyMade DEF found, time, spec
<1>9. CASE /\ ~(Families(spec) > 1) /\ ~(times # {} /\ HasSubDay(spec))
           /\ spec["Y"] = 0 /\ spec["M"] > 0
  <2>1. found = Monthly(spec, time.clock, time.next)
    BY <1>2, <1>9
  <2>2. ~rest
    BY <1>1, <1>3, <1>9
  <2>3. n = spec["M"]
    BY <1>1, <1>5, <1>9, <2>2
  <2>4. NoInterval(spec, clocks) <=> spec["M"] > MaxInterval
    BY <1>1, <1>4, <1>5, <1>9, <2>2, <2>3
  <2> QED BY <1>1, <1>11, <1>9, <2>1, <2>4, MonthlyMade DEF found, time
<1>10. CASE /\ ~(Families(spec) > 1) /\ ~(times # {} /\ HasSubDay(spec))
            /\ spec["Y"] = 0 /\ spec["M"] = 0
  <2>1. found = ByDaysOrSeconds(spec, time.clock, time.next)
    BY <1>2, <1>10
  <2>2. ~(HasSubDay(spec) /\ clocks # {})
    BY <1>10
  <2>3. /\ NoInterval(spec, clocks) => Refused(found)
        /\ ~NoInterval(spec, clocks) => Made(found, time.next)
    BY <1>11, <1>10, <2>1, <2>2, DaysOrSecondsMade
  <2> QED BY <2>3 DEF found, time
<1> QED BY <1>1, <1>6, <1>7, <1>8, <1>9, <1>10

\* A command for a series: refused, or with a text and a rule that begins at an
\* instant to come.
SeriesAnswered(answer) ==
    /\ answer.error # None => answer.schedule = {} /\ answer.notes = {}
    /\ answer.error = None =>
         /\ answer.text # <<>> /\ answer.notes \subseteq NotesOfSeries
         /\ \E start, z, rule : /\ start \in Int /\ start > now /\ z \in Zone /\ IsRule(rule)
                                /\ answer.schedule = {Schedule(start, z, rule)}

LEMMA RefusedAnswer ==
    ASSUME NEW tokens, NEW found, Refused(found)
    PROVE  /\ found # {} /\ AnswerSeries(tokens, found).error # None
           /\ SeriesAnswered(AnswerSeries(tokens, found))
<1>1. PICK e : e # None /\ found = Refuse(e)
  BY DEF Refused
<1>2. found # {} /\ The(found).error = e
  <2> DEFINE it == [error |-> e, schedule |-> {}, notes |-> {}, next |-> 0]
  <2>1. found = {it} /\ it.error = e
    BY <1>1 DEF Refuse
  <2> HIDE DEF it
  <2>2. The(found) = it
    BY <2>1 DEF The
  <2> QED BY <2>1, <2>2
<1>3. AnswerSeries(tokens, found) = Refusal(e)
  BY <1>1, <1>2 DEF AnswerSeries
<1> QED BY <1>1, <1>2, <1>3 DEF Refusal, SeriesAnswered

LEMMA MadeAnswer ==
    ASSUME NEW tokens, NEW found, NEW next, Made(found, next)
    PROVE  /\ found # {} /\ SeriesAnswered(AnswerSeries(tokens, found))
           /\ AnswerSeries(tokens, found).error # None
                <=> SubSeq(tokens, next, Len(tokens)) = <<>>
<1> DEFINE text == SubSeq(tokens, next, Len(tokens))
<1>1. PICK start, z, rule, notes :
        /\ start \in Int /\ start > now /\ z \in Zone
        /\ IsRule(rule) /\ notes \subseteq NotesOfSeries
        /\ found = {[error |-> None, schedule |-> {Schedule(start, z, rule)},
                     notes |-> notes, next |-> next]}
  BY DEF Made
<1> DEFINE s == Schedule(start, z, rule)
           it == [error |-> None, schedule |-> {s}, notes |-> notes, next |-> next]
<1>2. found # {} /\ The(found) = it
  BY <1>1 DEF The
<1> HIDE DEF s
<1>3. /\ The(found).error = None /\ The(found).next = next /\ The(found).notes = notes
      /\ The(The(found).schedule) = s
  <2>1. it.error = None /\ it.next = next /\ it.notes = notes /\ it.schedule = {s}
    OBVIOUS
  <2>2. The({s}) = s
    BY DEF The
  <2> HIDE DEF it
  <2> QED BY <1>2, <2>1, <2>2
<1> HIDE DEF it
<1>4. AnswerSeries(tokens, found) = IF text = <<>> THEN Refusal("MissingText")
                                    ELSE Answer(s, notes, text)
  BY <1>2, <1>3 DEF AnswerSeries
<1>5. "MissingText" # None
  BY DEF None
<1> HIDE DEF text
<1>6. CASE text = <<>>
  <2>1. AnswerSeries(tokens, found) = Refusal("MissingText")
    BY <1>4, <1>6
  <2> QED BY <1>2, <1>5, <1>6, <2>1 DEF Refusal, SeriesAnswered, text
<1>7. CASE text # <<>>
  <2> DEFINE answer == Answer(s, notes, text)
  <2>1. AnswerSeries(tokens, found) = answer
    BY <1>4, <1>7
  <2>2. /\ answer.error = None /\ answer.text = text /\ answer.notes = notes
        /\ answer.schedule = {s}
    BY DEF Answer
  <2> HIDE DEF answer
  <2>3. SeriesAnswered(answer)
    BY <1>1, <1>7, <2>2 DEF SeriesAnswered, s
  <2> QED BY <1>2, <1>7, <2>1, <2>2, <2>3 DEF text
<1> QED BY <1>6, <1>7

\* A span, as it was scanned, is a series or is refused.
LEMMA RelativeMade ==
    ASSUME zone \in Zone, now \in Int, NEW tokens \in Seq(Token)
    PROVE  \/ RelativeSeries(tokens) = {} \/ Refused(RelativeSeries(tokens))
           \/ \E next : Made(RelativeSeries(tokens), next)
<1> DEFINE match == Relative(tokens)
           times == TimeAfterSpec(tokens, match.next, match.spec)
<1>1. RelativeSeries(tokens) = {} \/ RelativeSeries(tokens) = SeriesOf(match, times)
  BY DEF RelativeSeries
<1>2. match.kind \in {"none", "bad", "spec"}
  BY RelativeKinds
<1>3. CASE match.kind = "none"
  BY <1>1, <1>3 DEF SeriesOf
<1>4. CASE match.kind = "bad"
  <2>1. SeriesOf(match, times) = Refuse("InvalidRelSpec") /\ "InvalidRelSpec" # None
    BY <1>4 DEF SeriesOf, None
  <2> QED BY <1>1, <2>1 DEF Refused
<1>5. CASE match.kind = "spec"
  <2>1. match.spec \in [Unit -> Nat] /\ match.next \in Nat
    BY <1>5, SpanType
  <2>2. times \subseteq OptionalTime(tokens, match.next)
    BY DEF TimeAfterSpec
  <2> HIDE DEF match, times
  <2>3. \A t \in times : t.clock \in Int
    BY <2>1, <2>2, ClockAfter
  <2>4. Refused(SeriesOf(match, times)) \/ \E next : Made(SeriesOf(match, times), next)
    BY <1>5, <2>1, <2>3, SpanSeries
  <2> QED BY <1>1, <2>4
<1> QED BY <1>2, <1>3, <1>4, <1>5

\* A day that is named, of the week, the month or the year, is a series.
LEMMA NamedMade ==
    ASSUME zone \in Zone, now \in Int, NEW tokens \in Seq(Token), tokens # <<>>
    PROVE  NamedSeries(tokens) = {} \/ \E next : Made(NamedSeries(tokens), next)
<1> DEFINE clock == TimeAfterFirst(tokens).clock
           next == TimeAfterFirst(tokens).next
           days == tokens[1].days
           date == The(tokens[1].date)
           leap == [date EXCEPT !.y = 2024]
<1>1. clock \in Int
  BY TimeAfterFirstType
<1>2. \/ NamedSeries(tokens) = {}
      \/ NamedSeries(tokens) = Make(WeeklyAnchor(days, clock), Weekly(days, clock), {}, next)
      \/ NamedSeries(tokens) = Make(MonthlyLastDayAnchor(clock), MonthlyLastDay(clock),
                                    {"MonthlyLastDay"}, next)
      \/ /\ date.d \in 1 .. 30
         /\ NamedSeries(tokens) = Make(MonthlyAnchor(date.d, 1, clock),
                                       MonthlyEvery(1, date.d, clock), {}, next)
      \/ NamedSeries(tokens) = Make(YearlyAnchor(2, 31, 1, clock),
                                    YearlyEveryLastDayOfMonth(1, 2, clock),
                                    {"YearlyFeb29Fallback"}, next)
      \/ /\ tokens[1].date # {} /\ Exists(leap)
         /\ NamedSeries(tokens) = Make(YearlyAnchor(date.m, date.d, 1, clock),
                                       YearlyEvery(1, date.m, date.d, clock), {}, next)
  <2> DEFINE lastDay == Make(MonthlyLastDayAnchor(clock), MonthlyLastDay(clock),
                             {"MonthlyLastDay"}, next)
             oneDay == Make(MonthlyAnchor(date.d, 1, clock), MonthlyEvery(1, date.d, clock), {}, next)
             february == Make(YearlyAnchor(2, 31, 1, clock), YearlyEveryLastDayOfMonth(1, 2, clock),
                              {"YearlyFeb29Fallback"}, next)
             yearly == Make(YearlyAnchor(date.m, date.d, 1, clock),
                            YearlyEvery(1, date.m, date.d, clock), {}, next)
  <2>1. WeekdaySeries(tokens)
          \in {{}, Make(WeeklyAnchor(days, clock), Weekly(days, clock), {}, next)}
    BY Zenon DEF WeekdaySeries, days, clock, next
  <2>2. /\ DayOfMonthSeries(tokens) \in {{}, lastDay, oneDay}
        /\ DayOfMonthSeries(tokens) = {} \/ DayOfMonthSeries(tokens) = lastDay \/ date.d \in 1 .. 30
    <3>1. DayOfMonthSeries(tokens) \in {{}, lastDay, oneDay}
      BY Zenon DEF DayOfMonthSeries, lastDay, oneDay, date, clock, next
    <3>2. \/ DayOfMonthSeries(tokens) \in {{}, lastDay}
          \/ date.d \in 1 .. 31 /\ date.d # 31
      BY Zenon DEF DayOfMonthSeries, lastDay, date, clock, next
    <3> HIDE DEF lastDay, oneDay, date
    <3>3. date.d \in 1 .. 31 /\ date.d # 31 => date.d \in 1 .. 30
      OBVIOUS
    <3> QED BY <3>1, <3>2, <3>3
  <2>3. /\ MonthDaySeries(tokens) \in {{}, february, yearly}
        /\ MonthDaySeries(tokens) = {} \/ (tokens[1].date # {} /\ Exists(leap))
    <3>1. MonthDaySeries(tokens)
            = IF tokens[1].date = {} \/ tokens[1].dot \/ date.y # 0 \/ ~Exists(leap) THEN {}
              ELSE IF date.m = 2 /\ date.d = 29 THEN february ELSE yearly
      BY DEF MonthDaySeries
    <3> HIDE DEF february, yearly, date, leap
    <3> QED BY <3>1, Zenon
  <2>4. NamedSeries(tokens) \in {WeekdaySeries(tokens), DayOfMonthSeries(tokens),
                                 MonthDaySeries(tokens)}
    BY Zenon DEF NamedSeries, OrElse
  <2> HIDE DEF days, clock, next, date, leap
  <2> QED BY <2>1, <2>2, <2>3, <2>4, Zenon
<1>3. tokens[1].date \subseteq Date
  <2>1. tokens[1] \in Token
    OBVIOUS
  <2> QED BY <2>1 DEF Token
<1>4. tokens[1].date # {} => date \in Date
  BY <1>3 DEF The
<1>5. tokens[1].date # {} /\ Exists(leap) => date.m \in 1 .. 12 /\ date.d \in Int
  BY <1>4 DEF Date, Exists
<1>6. 1 \in Nat /\ 1 > 0 /\ TRUE \in BOOLEAN /\ FALSE \in BOOLEAN /\ 31 \in Int
      /\ 2 \in 1 .. 12 /\ 1 \in 1 .. MaxInterval
  BY DEF MaxInterval
<1>7. /\ {} \subseteq NotesOfSeries /\ {"MonthlyLastDay"} \subseteq NotesOfSeries
      /\ {"YearlyFeb29Fallback"} \subseteq NotesOfSeries
  BY DEF NotesOfSeries
<1> HIDE DEF clock, next, days, date, leap
<1>8. Made(Make(WeeklyAnchor(days, clock), Weekly(days, clock), {}, next), next)
  <2> DEFINE start == WeeklyAnchor(days, clock)
             rule == Weekly(days, clock)
  <2>1. start \in Int /\ start > now /\ IsRule(rule)
    BY <1>1, <1>6, Anchors, NamedRules
  <2> HIDE DEF start, rule
  <2>2. Made(Make(start, rule, {}, next), next)
    BY <1>7, <2>1, MakeMade
  <2> QED BY <2>2 DEF start, rule
<1>9. Made(Make(MonthlyLastDayAnchor(clock), MonthlyLastDay(clock), {"MonthlyLastDay"}, next),
           next)
  <2> DEFINE start == MonthlyLastDayAnchor(clock)
             rule == MonthlyLastDay(clock)
  <2>1. start \in Int /\ start > now
    BY <1>1, <1>6, Anchors DEF MonthlyLastDayAnchor
  <2>2. IsRule(rule)
    BY <1>1, NamedRules
  <2> HIDE DEF start, rule
  <2>3. Made(Make(start, rule, {"MonthlyLastDay"}, next), next)
    BY <1>7, <2>1, <2>2, MakeMade
  <2> QED BY <2>3 DEF start, rule
<1>10. ASSUME date.d \in 1 .. 30
       PROVE  Made(Make(MonthlyAnchor(date.d, 1, clock), MonthlyEvery(1, date.d, clock),
                        {}, next), next)
  <2> DEFINE d == date.d
             start == MonthlyAnchor(d, 1, clock)
             rule == MonthlyEvery(1, d, clock)
  <2>0. d \in Int
    <3>1. \A x \in 1 .. 30 : x \in Int
      OBVIOUS
    <3> QED BY <1>10, <3>1, Zenon
  <2> HIDE DEF d
  <2>1. start \in Int /\ start > now
    BY <1>1, <1>6, <2>0, Anchors DEF MonthlyAnchor
  <2>2. IsRule(rule)
    BY <1>1, NamedRules
  <2> HIDE DEF start, rule
  <2>3. Made(Make(start, rule, {}, next), next)
    BY <1>7, <2>1, <2>2, MakeMade
  <2> QED BY <2>3 DEF start, rule, d
<1>11. Made(Make(YearlyAnchor(2, 31, 1, clock), YearlyEveryLastDayOfMonth(1, 2, clock),
                 {"YearlyFeb29Fallback"}, next), next)
  <2> DEFINE start == YearlyAnchor(2, 31, 1, clock)
             rule == YearlyEveryLastDayOfMonth(1, 2, clock)
  <2>1. start \in Int /\ start > now
    BY <1>1, <1>6, Anchors
  <2>2. IsRule(rule)
    BY <1>1, <1>6, RuleForms
  <2> HIDE DEF start, rule
  <2>3. Made(Make(start, rule, {"YearlyFeb29Fallback"}, next), next)
    BY <1>7, <2>1, <2>2, MakeMade
  <2> QED BY <2>3 DEF start, rule
<1>12. ASSUME date.m \in 1 .. 12, date.d \in Int
       PROVE  Made(Make(YearlyAnchor(date.m, date.d, 1, clock),
                        YearlyEvery(1, date.m, date.d, clock), {}, next), next)
  <2> DEFINE d == date.d
             m == date.m
             start == YearlyAnchor(m, d, 1, clock)
             rule == YearlyEvery(1, m, d, clock)
  <2>0. d \in Int /\ m \in 1 .. 12
    BY <1>12
  <2> HIDE DEF d, m
  <2>1. start \in Int /\ start > now
    BY <1>1, <1>6, <2>0, Anchors
  <2>2. IsRule(rule)
    BY <1>1, <2>0, NamedRules
  <2> HIDE DEF start, rule
  <2>3. Made(Make(start, rule, {}, next), next)
    BY <1>7, <2>1, <2>2, MakeMade
  <2> QED BY <2>3 DEF start, rule, d, m
<1> QED BY <1>2, <1>5, <1>8, <1>9, <1>10, <1>11, <1>12

LEMMA SeriesType ==
    ASSUME zone \in Zone, now \in Int, NEW tokens \in Seq(Token)
    PROVE  SeriesAnswered(ParseRecurring(tokens))
<1>1. \A e \in {"Empty", "NoTimeExpression"} : SeriesAnswered(Refusal(e))
  BY DEF SeriesAnswered, Refusal, None
<1>2. CASE tokens = <<>>
  BY <1>1, <1>2 DEF ParseRecurring
<1>3. CASE tokens # <<>>
  <2> DEFINE found == OrElse(RelativeSeries(tokens), NamedSeries(tokens))
  <2>1. ParseRecurring(tokens) = AnswerSeries(tokens, found)
    BY <1>3 DEF ParseRecurring
  <2>2. found = {} \/ Refused(found) \/ \E next : Made(found, next)
    BY <1>3, RelativeMade, NamedMade DEF OrElse
  <2> HIDE DEF found
  <2>3. CASE found = {}
    BY <1>1, <2>1, <2>3 DEF AnswerSeries
  <2> QED BY <2>1, <2>2, <2>3, RefusedAnswer, MadeAnswer
<1> QED BY <1>2, <1>3

-----------------------------------------------------------------------------
(* The next occurrence of a series.                                        *)

IsSchedule(s) == s.start \in Int /\ s.zone \in Zone /\ IsRule(s.rule)

LEMMA RulesOfPeriods ==
    ASSUME NEW s, IsSchedule(s)
    PROVE  /\ s.rule.freq \in {"seconds", "daily", "weekly", "monthly", "yearly"}
           /\ s.rule.interval \in Int /\ 0 < s.rule.interval
           /\ s.rule.unit \in {1, 60, Hour} /\ s.rule.clock \in Int
           /\ s.rule.freq = "yearly" => s.rule.month \in 1 .. 12
           /\ StartDay(s) \in Int
<1>1. \A n \in 1 .. MaxInterval : n \in Int /\ 0 < n
  <2>1. MaxInterval \in Int
    BY DEF MaxInterval
  <2> QED BY <2>1
<1>2. StartDay(s) \in Int
  BY WallType, ClockParts DEF IsSchedule, StartDay
<1>3. IsRule(s.rule)
  BY DEF IsSchedule
<1> QED BY <1>1, <1>2, <1>3, Recurs, Zenon DEF IsRule

LEMMA MonthIndexType ==
    ASSUME NEW day \in Int
    PROVE  MonthIndex(day) \in Int /\ DateOf(day).y \in Int
<1>1. DateOf(day) \in Date
  BY DateOfDay
<1> DEFINE date == DateOf(day)
<1>2. date.y \in Int /\ date.m \in Int
  BY <1>1 DEF Date
<1> HIDE DEF date
<1>3. 12 * date.y + date.m - 1 \in Int
  BY <1>2
<1> QED BY <1>2, <1>3 DEF MonthIndex, date

\* The days of a month that a rule names.
LEMMA DaysOfMonthType ==
    ASSUME NEW rule, NEW y \in Int, NEW m \in 1 .. 12
    PROVE  DaysOfMonth(rule, y, m) \subseteq Int
<1> DEFINE last == LastDay(y, m)
           named == {d \in 1 .. last : d \in rule.days \/ d - last - 1 \in rule.days}
           days == IF rule.latest /\ named # {} THEN {Max(named)} ELSE named
<1>1. last \in Int
  <2>1. last \in 28 .. 31
    BY MonthLength
  <2> HIDE DEF last
  <2> QED BY <2>1
<1>2. named \subseteq Int /\ \A d \in named : d <= last
  BY <1>1
<1> HIDE DEF last, named
<1>3. ASSUME named # {} PROVE Max(named) \in Int
  <2> DEFINE T == {last - d : d \in named}
  <2>1. T \subseteq Nat /\ T # {}
    <3>1. \A d \in named : last - d \in Nat
      BY <1>1, <1>2
    <3> QED BY <1>3, <3>1
  <2>2. PICK t \in T : \A v \in T : t <= v
    BY <2>1, LeastNat
  <2>3. PICK x \in named : t = last - x
    BY <2>2
  <2>4. \A d \in named : x >= d
    <3> SUFFICES ASSUME NEW d \in named PROVE x >= d
      OBVIOUS
    <3>1. t <= last - d
      BY <2>2
    <3> QED BY <1>1, <1>2, <2>3, <3>1
  <2>5. Max(named) \in named
    BY <2>3, <2>4 DEF Max
  <2> QED BY <1>2, <2>5
<1>4. days \subseteq Int
  BY <1>2, <1>3
<1>5. DaysOfMonth(rule, y, m) = {DayNumber([y |-> y, m |-> m, d |-> d]) : d \in days}
  BY DEF DaysOfMonth, days, named, last
<1> HIDE DEF days
<1>6. ASSUME NEW d \in Int PROVE DayNumber([y |-> y, m |-> m, d |-> d]) \in Int
  <2> DEFINE date == [y |-> y, m |-> m, d |-> d]
  <2>1. date.y \in Int /\ date.m \in 1 .. 12 /\ date.d \in Int
    OBVIOUS
  <2> HIDE DEF date
  <2>2. DayNumber(date) \in Int
    BY <2>1, DayNumberType
  <2> QED BY <2>2 DEF date
<1> QED BY <1>4, <1>5, <1>6

LEMMA PeriodType ==
    ASSUME NEW s, IsSchedule(s), s.rule.freq # "seconds", NEW day \in Int
    PROVE  PeriodOf(s, day) \in Int
<1> DEFINE n == s.rule.interval
           f == s.rule.freq
           first == StartDay(s)
<1>1. n \in Int /\ 0 < n /\ first \in Int /\ f \in {"daily", "weekly", "monthly", "yearly"}
  BY RulesOfPeriods
<1>2. \A x \in Int : x \div n \in Int
  BY <1>1, Division
<1>3. \A x \in Int : x \div 7 \in Int
  OBVIOUS
<1> DEFINE months == MonthIndex(day) - MonthIndex(first)
           years == DateOf(day).y - DateOf(first).y
<1>4. months \in Int /\ years \in Int /\ day - first \in Int
  BY <1>1, MonthIndexType
<1>5. PeriodOf(s, day) =
        CASE f = "daily" -> (day - first) \div n
          [] f = "weekly" -> (day - first) \div 7
          [] f = "monthly" -> months \div n
          [] f = "yearly" -> years \div n
  BY DEF PeriodOf
<1> HIDE DEF n, f, first, months, years
<1>6. PeriodOf(s, day) \in {(day - first) \div n, (day - first) \div 7, months \div n, years \div n}
  BY <1>1, <1>5
<1> QED BY <1>2, <1>3, <1>4, <1>6

LEMMA DaysOfPeriodType ==
    ASSUME NEW s, IsSchedule(s), s.rule.freq # "seconds", NEW k \in Int
    PROVE  DaysOfPeriod(s, k) \subseteq Int
<1> DEFINE n == s.rule.interval
           f == s.rule.freq
           first == StartDay(s)
           i == MonthIndex(first) + k * n
           y == DateOf(first).y + k * n
<1>1. n \in Int /\ first \in Int /\ f \in {"daily", "weekly", "monthly", "yearly"}
      /\ (f = "yearly" => s.rule.month \in 1 .. 12)
  BY RulesOfPeriods
<1>2. k * n \in Int
  BY <1>1
<1>3. i \in Int /\ y \in Int /\ first + k * n \in Int
  BY <1>1, <1>2, MonthIndexType
<1>4. DaysOfPeriod(s, k) =
        CASE f = "daily" -> {first + k * n}
          [] f = "weekly" ->
               {d \in first + 7 * k .. first + 7 * k + 6 : Weekday(d) \in s.rule.weekdays}
          [] f = "monthly" -> DaysOfMonth(s.rule, i \div 12, (i % 12) + 1)
          [] f = "yearly" -> DaysOfMonth(s.rule, y, s.rule.month)
  BY DEF DaysOfPeriod
<1>5. {d \in first + 7 * k .. first + 7 * k + 6 : Weekday(d) \in s.rule.weekdays} \subseteq Int
  BY <1>1
<1> HIDE DEF n, f, first, i, y
<1>6. DaysOfMonth(s.rule, i \div 12, (i % 12) + 1) \subseteq Int
  <2>1. i \div 12 \in Int /\ (i % 12) + 1 \in 1 .. 12
    BY <1>3
  <2> QED BY <2>1, DaysOfMonthType
<1>7. f = "yearly" => DaysOfMonth(s.rule, y, s.rule.month) \subseteq Int
  BY <1>1, <1>3, DaysOfMonthType
<1>8. CASE f = "daily"
  BY <1>3, <1>4, <1>8
<1>9. CASE f = "weekly"
  BY <1>4, <1>5, <1>9
<1>10. CASE f = "monthly"
  BY <1>4, <1>6, <1>10
<1>11. CASE f = "yearly"
  BY <1>4, <1>7, <1>11
<1> QED BY <1>1, <1>8, <1>9, <1>10, <1>11

LEMMA SlotInstantsType ==
    ASSUME NEW z \in Zone, NEW wall \in Int, NEW policy
    PROVE  SlotInstants(policy, z, wall) \subseteq Int
<1>1. CASE Readings(z, wall) # {}
  <2>1. Min(Readings(z, wall)) \in Int
    BY <1>1, EarlierReading, ReadingsType
  <2> QED BY <1>1, <2>1 DEF SlotInstants
<1>2. CASE Readings(z, wall) = {}
  <2>1. wall - z.winter \in Int
    BY DEF Zone
  <2> QED BY <1>2, <2>1 DEF SlotInstants
<1> QED BY <1>1, <1>2

LEMMA SlotsType ==
    ASSUME NEW s, IsSchedule(s), NEW n \in Int, NEW policy
    PROVE  Slots(s, n, policy) \subseteq Int
<1>1. CASE s.rule.freq = "seconds"
  <2> DEFINE step == s.rule.interval * s.rule.unit
             k == IF n < s.start THEN 0 ELSE (n - s.start) \div step
             start == s.start
  <2>1. step \in Int /\ 0 < step /\ start \in Int
    <3> DEFINE i == s.rule.interval
               u == s.rule.unit
    <3>1. i \in Int /\ 0 < i /\ u \in {1, 60, 3600}
      BY RulesOfPeriods DEF Hour
    <3> HIDE DEF i, u
    <3>2. i * u \in Int /\ 0 < i * u
      BY <3>1
    <3> QED BY <3>2 DEF i, u, IsSchedule
  <2>2. Slots(s, n, policy) = {start + k * step, start + (k + 1) * step}
    BY <1>1 DEF Slots, SecondsAhead
  <2> HIDE DEF step
  <2>3. k \in Int
    <3>1. n - start \in Int
      BY <2>1
    <3>2. (n - start) \div step \in Int
      BY <2>1, <3>1, Division
    <3> QED BY <3>2
  <2> HIDE DEF k, start
  <2>4. k * step \in Int /\ (k + 1) * step \in Int
    BY <2>1, <2>3
  <2> DEFINE a == k * step
             b == (k + 1) * step
  <2>5. a \in Int /\ b \in Int /\ Slots(s, n, policy) = {start + a, start + b}
    BY <2>2, <2>4
  <2> HIDE DEF a, b
  <2> QED BY <2>1, <2>5
<1>2. CASE s.rule.freq # "seconds"
  <2> DEFINE clock == s.rule.clock + (s.start % 60)
             first == PeriodOf(s, DayOf(Wall(s.zone, n)))
             days == UNION {DaysOfPeriod(s, first + k) : k \in Ahead}
  <2>1. clock \in Int
    BY RulesOfPeriods DEF IsSchedule
  <2>2. first \in Int
    <3>1. DayOf(Wall(s.zone, n)) \in Int
      BY TodayType DEF IsSchedule
    <3> QED BY <1>2, <3>1, PeriodType
  <2>3. Slots(s, n, policy)
          \subseteq UNION {SlotInstants(policy, s.zone, At(d, clock)) : d \in days}
    BY <1>2 DEF Slots, SlotsAhead
  <2> HIDE DEF clock, first
  <2>4. days \subseteq Int
    <3> SUFFICES ASSUME NEW k \in Ahead PROVE DaysOfPeriod(s, first + k) \subseteq Int
      OBVIOUS
    <3>1. first + k \in Int
      BY <2>2 DEF Ahead
    <3> QED BY <1>2, <3>1, DaysOfPeriodType
  <2> HIDE DEF days
  <2>5. \A d \in days : SlotInstants(policy, s.zone, At(d, clock)) \subseteq Int
    BY <2>1, <2>4, ResolveType, SlotInstantsType DEF IsSchedule
  <2> QED BY <2>3, <2>5
<1> QED BY <1>1, <1>2

\* The next occurrence, if there is one, is later.
LEMMA NextAfterType ==
    ASSUME NEW s, IsSchedule(s), NEW n \in Int, NEW policy, NextAfter(s, n, policy) # {}
    PROVE  The(NextAfter(s, n, policy)) \in Int /\ The(NextAfter(s, n, policy)) > n
<1> DEFINE later == {u \in Slots(s, n, policy) : u > n}
<1>1. s.rule.freq # "once"
  BY RulesOfPeriods
<1>2. NextAfter(s, n, policy) = IF later = {} THEN {} ELSE {Min(later)}
  BY <1>1 DEF NextAfter, IsRecurring
<1>3. later \subseteq Int /\ \A u \in later : u > n
  BY SlotsType
<1> HIDE DEF later
<1>4. later # {} /\ NextAfter(s, n, policy) = {Min(later)}
  BY <1>2
<1>5. Min(later) \in later
  BY <1>3, <1>4, LeastAfter
<1>6. The(NextAfter(s, n, policy)) = Min(later)
  BY <1>4 DEF The
<1> QED BY <1>3, <1>5, <1>6

-----------------------------------------------------------------------------
(* A command from its text to its last occurrence: types.                  *)

\* An alert of a command: rung once, or by a rule that recurs.
IsAlert(s, recurring) ==
    IF recurring THEN IsSchedule(s) ELSE s.rule.freq = "once" /\ s.rule.interval = 1

AllNotes == {"LeapClampedToFeb28", "MonthDayClamped"} \cup NotesOfSeries

IsAnswer(answer, recurring) ==
    /\ answer.notes \subseteq AllNotes
    /\ answer.error = None => answer.text # <<>>
    /\ \A s \in answer.schedule : IsAlert(s, recurring)

\* What the parser makes of a command, and when it first rings.
LEMMA CommandType ==
    ASSUME zone \in Zone, now \in Int, NEW p, p.words \in Seq(Token)
    PROVE  LET answer == ParseCommand(p)
           IN  /\ IsAnswer(answer, p.recurring)
               /\ answer.schedule # {} =>
                    The(answer.schedule).start \in Int /\ The(answer.schedule).start > now
<1> DEFINE answer == ParseCommand(p)
           Fits(r) == /\ IsAnswer(r, p.recurring)
                      /\ r.schedule # {} =>
                           The(r.schedule).start \in Int /\ The(r.schedule).start > now
<1> SUFFICES Fits(answer)
  OBVIOUS
<1> HIDE DEF Fits
<1>1. ASSUME NEW s, s.start \in Int, s.start > now
      PROVE  The({s}).start \in Int /\ The({s}).start > now
  BY <1>1 DEF The
<1>2. CASE p.words = <<>>
  <2>1. answer = Refusal("Empty")
    BY <1>2 DEF ParseCommand
  <2> QED BY <2>1 DEF Refusal, IsAnswer, None, Fits
<1>3. CASE p.words # <<>> /\ p.recurring
  <2>1. answer = ParseRecurring(p.words)
    BY <1>3 DEF ParseCommand
  <2>2. SeriesAnswered(answer)
    BY <2>1, SeriesType
  <2> HIDE DEF answer
  <2>3. CASE answer.error # None
    BY <2>2, <2>3 DEF SeriesAnswered, IsAnswer, Fits
  <2>4. CASE answer.error = None
    <3>1. PICK start, z, rule : /\ start \in Int /\ start > now /\ z \in Zone /\ IsRule(rule)
                                /\ answer.schedule = {Schedule(start, z, rule)}
      BY <2>2, <2>4 DEF SeriesAnswered
    <3> DEFINE s == Schedule(start, z, rule)
    <3>2. s.start = start /\ s.zone = z /\ s.rule = rule
      BY DEF Schedule
    <3> HIDE DEF s
    <3>3. IsSchedule(s) /\ s.start \in Int /\ s.start > now
      BY <3>1, <3>2 DEF IsSchedule
    <3>4. answer.schedule = {s}
      BY <3>1 DEF s
    <3>5. IsAnswer(answer, p.recurring)
      BY <1>3, <2>2, <2>4, <3>3, <3>4 DEF SeriesAnswered, IsAnswer, IsAlert, AllNotes
    <3> QED BY <1>1, <3>3, <3>4, <3>5 DEF Fits
  <2> QED BY <2>3, <2>4
<1>4. CASE p.words # <<>> /\ ~p.recurring
  <2>1. answer = ParseOneShot(p.words)
    BY <1>4 DEF ParseCommand
  <2>2. OneAnswer(answer)
    BY <2>1, OneShotType
  <2> HIDE DEF answer
  <2>3. CASE answer.error # None
    BY <2>2, <2>3 DEF OneAnswer, IsAnswer, Fits
  <2>4. CASE answer.error = None
    <3>1. PICK u \in Int : u > now /\ answer.schedule = {OneShotSchedule(u, zone)}
      BY <2>2, <2>4 DEF OneAnswer
    <3> DEFINE s == OneShotSchedule(u, zone)
    <3>2. s.start = u /\ s.rule.freq = "once" /\ s.rule.interval = 1
      BY DEF OneShotSchedule, Schedule, AnyRule
    <3> HIDE DEF s
    <3>3. answer.schedule = {s} /\ s.start \in Int /\ s.start > now
      BY <3>1, <3>2 DEF s
    <3>4. IsAnswer(answer, p.recurring)
      BY <1>4, <2>2, <2>4, <3>2, <3>3 DEF OneAnswer, IsAnswer, IsAlert, AllNotes
    <3> QED BY <1>1, <3>3, <3>4 DEF Fits
  <2> QED BY <2>3, <2>4
<1> QED BY <1>2, <1>3, <1>4

TypeInv ==
    /\ now \in Int /\ zone \in Zones /\ created \in Moments
    /\ fire \in Int /\ fired \in 0 .. MaxFires
    /\ phrase = Nothing \/ phrase \in Phrases[zone]
    /\ IsAnswer(reply, phrase.recurring)
    /\ series \subseteq reply.schedule
    /\ series # {} => fire > now

LEMMA TypeInit == Init => TypeInv
<1> SUFFICES ASSUME Init PROVE TypeInv
  OBVIOUS
<1>1. IsAnswer(reply, phrase.recurring)
  BY DEF Init, Refusal, IsAnswer, None
<1> QED BY <1>1, CommandsAssumption DEF Init, TypeInv

LEMMA TypeStep == TypeInv /\ [Next]_vars => TypeInv'
<1> SUFFICES ASSUME TypeInv, [Next]_vars PROVE TypeInv'
  OBVIOUS
<1>1. ASSUME NEW p \in Phrases[zone], Create(p) PROVE TypeInv'
  <2>1. /\ phrase' = p /\ reply' = ParseCommand(p) /\ series' = reply'.schedule
        /\ fire' = IF series' = {} THEN now ELSE The(series').start
        /\ now' = now /\ zone' = zone /\ created' = created /\ fired' = fired
    BY <1>1 DEF Create
  <2>2. p.words \in Seq(Token) /\ zone \in Zone /\ now \in Int
    BY CommandsAssumption DEF TypeInv
  <2>3. /\ IsAnswer(reply', p.recurring)
        /\ series' # {} => The(series').start \in Int /\ The(series').start > now
    BY <2>1, <2>2, CommandType
  <2> QED BY <2>1, <2>3 DEF TypeInv
<1>2. ASSUME NEW late \in Delays, NEW policy \in GapPolicy, Deliver(late, policy)
      PROVE  TypeInv'
  <2> DEFINE s == The(series)
             next == IF IsRecurring(s) THEN NextAfter(s, now', policy) ELSE {}
  <2>1. /\ series # {} /\ fired < MaxFires /\ now' = fire + late /\ fired' = fired + 1
        /\ zone' = zone /\ phrase' = phrase /\ reply' = reply /\ created' = created
        /\ IF next = {} THEN series' = {} /\ fire' = fire
           ELSE fire' = The(next) /\ series' = series
    BY <1>2 DEF Deliver
  <2>2. now' \in Int /\ fired' \in 0 .. MaxFires
    BY <2>1, CommandsAssumption DEF TypeInv
  <2>3. IsAlert(s, phrase.recurring)
    <3>1. s \in series
      BY <2>1 DEF The
    <3> HIDE DEF s
    <3> QED BY <3>1 DEF TypeInv, IsAnswer
  <2> HIDE DEF s
  <2>4. next # {} => The(next) \in Int /\ The(next) > now'
    <3> SUFFICES ASSUME next # {}
                 PROVE  The(next) \in Int /\ The(next) > now'
      OBVIOUS
    <3>1. IsRecurring(s) /\ next = NextAfter(s, now', policy)
      OBVIOUS
    <3>2. IsSchedule(s)
      BY <2>3, <3>1 DEF IsAlert, IsRecurring
    <3> HIDE DEF next
    <3> DEFINE n == now'
    <3>3. n \in Int /\ next = NextAfter(s, n, policy)
      BY <2>2, <3>1
    <3> HIDE DEF n
    <3>4. The(next) \in Int /\ The(next) > n
      BY <3>2, <3>3, NextAfterType
    <3> QED BY <3>4 DEF n
  <2> HIDE DEF next
  <2>5. CASE next = {}
    BY <2>1, <2>2, <2>5 DEF TypeInv
  <2>6. CASE next # {}
    BY <2>1, <2>2, <2>4, <2>6 DEF TypeInv
  <2> QED BY <2>5, <2>6
<1>3. CASE UNCHANGED vars
  BY <1>3 DEF vars, TypeInv
<1> QED BY <1>1, <1>2, <1>3 DEF Next

\* The types of a command and of its alert, in every zone, at every moment and
\* for all tokens: an accepted command has a text and notes of the parser, and
\* its alert a rule that the library can count by, which recurs exactly if the
\* command asked for it (parse_command, create_alert, finalise_after_send).
THEOREM CommandTypes == Spec => []TypeOK
<1>1. TypeInv => TypeOK
  <2> SUFFICES ASSUME TypeInv PROVE TypeOK
    OBVIOUS
  <2>1. phrase.recurring \in BOOLEAN
    <3>1. CASE phrase = Nothing
      BY <3>1, Zenon DEF Nothing
    <3>2. CASE phrase \in Phrases[zone]
      <4>1. zone \in Zones
        BY DEF TypeInv
      <4> QED BY <3>2, <4>1, CommandsAssumption
    <3> QED BY <3>1, <3>2 DEF TypeInv
  <2>2. 1 \in 1 .. MaxInterval /\ "once" \in Frequency
    BY DEF MaxInterval, Frequency
  <2>3. ASSUME NEW s \in reply.schedule
        PROVE  /\ s.rule.freq \in Frequency /\ s.rule.interval \in 1 .. MaxInterval
               /\ IsRecurring(s) = phrase.recurring
    <3>1. IsAlert(s, phrase.recurring)
      BY DEF TypeInv, IsAnswer
    <3>2. CASE phrase.recurring
      <4>1. IsRule(s.rule)
        BY <3>1, <3>2 DEF IsAlert, IsSchedule
      <4>2. /\ s.rule.freq \in Frequency /\ s.rule.interval \in 1 .. MaxInterval
            /\ s.rule.freq # "once"
        BY <4>1 DEF IsRule
      <4> QED BY <2>1, <3>2, <4>2 DEF IsRecurring
    <3>3. CASE ~phrase.recurring
      <4>1. s.rule.freq = "once" /\ s.rule.interval = 1
        BY <3>1, <3>3 DEF IsAlert
      <4> QED BY <2>1, <2>2, <3>3, <4>1 DEF IsRecurring
    <3> QED BY <3>2, <3>3
  <2>4. reply.notes \subseteq {"LeapClampedToFeb28", "MonthDayClamped", "MonthlyLastDay",
                               "MonthlyLastDayFrom", "YearlyFeb29Fallback"}
    BY DEF TypeInv, IsAnswer, AllNotes, NotesOfSeries
  <2> QED BY <2>3, <2>4, Zenon DEF TypeInv, TypeOK, IsAnswer, Accepted
<1> QED BY <1>1, TypeInit, TypeStep, PTL DEF Spec

\* However late a delivery ends, the next occurrence of an alert is ahead of the
\* moment at which it was computed: no alert is due again as soon as it has
\* been rescheduled (Schedule::next_after, finalise_after_send).
THEOREM AlwaysAhead == Spec => [](series # {} => fire > now)
<1>1. TypeInv => (series # {} => fire > now)
  BY DEF TypeInv
<1> QED BY <1>1, TypeInit, TypeStep, PTL DEF Spec

-----------------------------------------------------------------------------
(* Commands for one alert after a span.                                    *)

\* Every phrase for a span is read as it is meant.
ReadAsMeant ==
    \A z \in Zones : \A p \in Phrases[z] : p.means.kind = "relative" => SpanIsRead(p)

LEMMA ReadType ==
    ASSUME NEW p, p.words \in Seq(Token), SpanIsRead(p)
    PROVE  /\ p.words # <<>> /\ p.words[1].key # "today"
           /\ p.means.spec \in [Unit -> Nat] /\ IsClock(p.means.clock)
<1> DEFINE match == Relative(p.words)
           times == TimeAfterSpec(p.words, match.next, match.spec)
<1>1. /\ match.kind = "spec" /\ match.spec = p.means.spec
      /\ {t.clock : t \in times} = p.means.clock
      /\ p.words[1].key # "today"
  BY DEF SpanIsRead
<1>2. p.words # <<>> /\ match.spec \in [Unit -> Nat] /\ match.next \in Nat
  BY <1>1, SpanType
<1>3. times \subseteq OptionalTime(p.words, match.next)
  BY DEF TimeAfterSpec
<1>4. \A t \in times : t.clock \in Int /\ 0 <= t.clock /\ t.clock < DayLength
  BY <1>2, <1>3, ClockAfter
<1> HIDE DEF times
<1>5. IsClock(p.means.clock)
  BY <1>1, <1>4 DEF IsClock
<1> QED BY <1>1, <1>2, <1>5

\* An accepted command rings once, when the span has passed, and its reply has
\* the notes of the calendar.
LEMMA SpanOnce ==
    ASSUME NEW p, p.words \in Seq(Token), SpanIsRead(p), ParseOneShot(p.words).error = None
    PROVE  LET r == Apply(p.means.spec, now, zone, p.means.clock)
               answer == ParseOneShot(p.words)
           IN  /\ r.error = None /\ ~(r.at <= now)
               /\ answer.schedule = {OneShotSchedule(r.at, zone)}
               /\ answer.notes = r.notes
<1> DEFINE match == Relative(p.words)
           times == TimeAfterSpec(p.words, match.next, match.spec)
           r == Apply(p.means.spec, now, zone, p.means.clock)
           next == Max({match.next} \cup {t.next : t \in times})
           text == SubSeq(p.words, next, Len(p.words))
<1>1. /\ match.kind = "spec" /\ match.spec = p.means.spec
      /\ {t.clock : t \in times} = p.means.clock
  BY DEF SpanIsRead
<1>2. p.words # <<>> /\ p.words[1].key # "today"
  BY ReadType
<1>3. RelativeStrategy(p.words) = Found(r, next)
  <2>1. RelativeStrategy(p.words) = Relatively(match, times)
    BY DEF RelativeStrategy
  <2> HIDE DEF match, times
  <2>2. Relatively(match, times)
          = Found(Apply(match.spec, now, zone, {t.clock : t \in times}), next)
    BY <1>1 DEF Relatively
  <2> QED BY <1>1, <2>1, <2>2
<1> HIDE DEF match, times, r, next
<1>4. Strategies(p.words) = {[result |-> r, next |-> next]}
  BY <1>3 DEF Strategies, OrElse, Found
<1>5. The(Strategies(p.words)) = [result |-> r, next |-> next]
  BY <1>4 DEF The
<1>6. ParseOneShot(p.words) = AnswerOneShot(p.words, Strategies(p.words))
  BY <1>2 DEF ParseOneShot
<1>7. AnswerOneShot(p.words, Strategies(p.words))
        = IF r.error # None THEN Refusal(r.error)
          ELSE IF text = <<>> THEN Refusal("MissingText")
          ELSE IF r.at <= now THEN Refusal("InPast")
          ELSE Answer(OneShotSchedule(r.at, zone), r.notes, text)
  <2> DEFINE found == Strategies(p.words)
  <2>1. found # {} /\ The(found).result = r /\ The(found).next = next
    BY <1>4, <1>5
  <2> HIDE DEF found
  <2>2. AnswerOneShot(p.words, found)
          = IF r.error # None THEN Refusal(r.error)
            ELSE IF text = <<>> THEN Refusal("MissingText")
            ELSE IF r.at <= now THEN Refusal("InPast")
            ELSE Answer(OneShotSchedule(r.at, zone), r.notes, text)
    BY <2>1, Zenon DEF AnswerOneShot, text
  <2> QED BY <2>2 DEF found
<1>8. \A e : Refusal(e).error = e
  BY DEF Refusal
<1>9. "MissingText" # None /\ "InPast" # None
  BY DEF None
<1> HIDE DEF text
<1>10. /\ r.error = None /\ ~(r.at <= now)
       /\ ParseOneShot(p.words) = Answer(OneShotSchedule(r.at, zone), r.notes, text)
  BY <1>6, <1>7, <1>8, <1>9
<1> QED BY <1>10 DEF Answer, r

\* Until it first rings, a command is as it was when it was sent, and what the
\* reply says is what the span came to.
SpanAnswer(p, n, z, answer) ==
    LET r == Apply(p.means.spec, n, z, p.means.clock)
    IN  answer.error = None =>
          /\ r.error = None /\ ~(r.at <= n)
          /\ answer.schedule = {OneShotSchedule(r.at, z)}
          /\ answer.notes = r.notes

Sent ==
    /\ zone \in Zones /\ created \in Moments /\ fired \in Nat
    /\ phrase # Nothing => phrase \in Phrases[zone]
    /\ fired = 0 => now = created

SpanSent == Sent /\ (Once({"relative"}) => SpanAnswer(phrase, now, zone, reply))

LEMMA SentInit == Init => SpanSent
<1> SUFFICES ASSUME Init PROVE SpanSent
  OBVIOUS
<1> QED BY DEF Init, SpanSent, Sent, Once

LEMMA SentStep == Sent /\ [Next]_vars => Sent'
<1> SUFFICES ASSUME Sent, [Next]_vars PROVE Sent'
  OBVIOUS
<1> USE DEF Sent
<1>1. ASSUME NEW p \in Phrases[zone], Create(p) PROVE Sent'
  BY <1>1 DEF Create
<1>2. ASSUME NEW late \in Delays, NEW policy \in GapPolicy, Deliver(late, policy) PROVE Sent'
  BY <1>2 DEF Deliver
<1>3. CASE UNCHANGED vars
  BY <1>3 DEF vars
<1> QED BY <1>1, <1>2, <1>3 DEF Next

LEMMA SpanSentStep == ReadAsMeant => (SpanSent /\ [Next]_vars => SpanSent')
<1> SUFFICES ASSUME ReadAsMeant, SpanSent, [Next]_vars PROVE SpanSent'
  OBVIOUS
<1>1. Sent /\ Sent'
  BY SentStep DEF SpanSent
<1> SUFFICES ASSUME Once({"relative"})' PROVE SpanAnswer(phrase', now', zone', reply')
  BY <1>1 DEF SpanSent
<1>2. phrase' # Nothing /\ fired' = 0 /\ ~phrase'.recurring /\ phrase'.means.kind = "relative"
  BY DEF Once, means
<1>3. ASSUME NEW p \in Phrases[zone], Create(p)
      PROVE  SpanAnswer(phrase', now', zone', reply')
  <2>1. phrase' = p /\ now' = now /\ zone' = zone /\ reply' = ParseCommand(p)
    BY <1>3 DEF Create
  <2>2. p.words \in Seq(Token) /\ SpanIsRead(p) /\ ~p.recurring
    BY <1>1, <1>2, <2>1, CommandsAssumption DEF Sent, ReadAsMeant
  <2>3. p.words # <<>>
    BY <2>2, ReadType
  <2>4. reply' = ParseOneShot(p.words)
    BY <2>1, <2>2, <2>3 DEF ParseCommand
  <2>5. SpanAnswer(p, now, zone, ParseOneShot(p.words))
    BY <2>2, SpanOnce DEF SpanAnswer
  <2> QED BY <2>1, <2>4, <2>5
<1>4. ASSUME NEW late \in Delays, NEW policy \in GapPolicy, Deliver(late, policy)
      PROVE  FALSE
  BY <1>1, <1>2, <1>4 DEF Deliver, Sent
<1>5. CASE UNCHANGED vars
  <2>1. phrase' = phrase /\ now' = now /\ zone' = zone /\ reply' = reply /\ fired' = fired
    BY <1>5 DEF vars
  <2>2. Once({"relative"})
    BY <1>2, <2>1 DEF Once, means
  <2> QED BY <2>1, <2>2 DEF SpanSent
<1> QED BY <1>3, <1>4, <1>5 DEF Next

LEMMA SpanSentKept == ReadAsMeant /\ SpanSent => SpanIsAsSaid
<1> SUFFICES ASSUME ReadAsMeant, SpanSent, Once({"relative"}), Accepted
             PROVE  SpanIsAsSaid
  BY DEF SpanIsAsSaid, SpansAreExact, CalendarIsKept
<1> DEFINE spec == means.spec
           clock == means.clock
           r == Apply(spec, now, zone, clock)
<1>1. zone \in Zone /\ now \in Int /\ created = now /\ phrase \in Phrases[zone]
  BY CommandsAssumption DEF SpanSent, Sent, Once
<1>2. phrase.words \in Seq(Token) /\ SpanIsRead(phrase)
  BY CommandsAssumption DEF SpanSent, Sent, Once, ReadAsMeant, means
<1>3. spec \in [Unit -> Nat] /\ IsClock(clock)
  BY <1>2, ReadType DEF means
<1>4. /\ r.error = None /\ reply.notes = r.notes
      /\ reply.schedule = {OneShotSchedule(r.at, zone)}
  BY DEF SpanSent, SpanAnswer, Accepted, means
<1>5. at = r.at
  <2>1. The(reply.schedule) = OneShotSchedule(r.at, zone)
    BY <1>4 DEF The
  <2> HIDE DEF r
  <2>2. OneShotSchedule(r.at, zone).start = r.at
    BY DEF OneShotSchedule, Schedule
  <2> QED BY <2>1, <2>2 DEF at
<1>6. spec["Y"] \in Nat /\ spec["M"] \in Nat /\ Days(spec) \in Nat /\ Seconds(spec) \in Nat
      /\ (HasSubDay(spec) <=> Seconds(spec) > 0)
  BY <1>3, SpanParts
<1>7. SpansAreExact
  <2> SUFFICES ASSUME clock = {}, spec["Y"] = 0, spec["M"] = 0
               PROVE  at - now = Days(spec) * DayLength + Seconds(spec)
    BY DEF SpansAreExact
  <2>1. at = now + Days(spec) * DayLength + Seconds(spec)
    BY <1>1, <1>3, <1>4, <1>5, SpanIsExact
  <2> HIDE DEF spec
  <2> QED BY <1>1, <1>6, <2>1 DEF DayLength
<1>8. CalendarIsKept
  <2> SUFFICES ASSUME clock # {} \/ spec["Y"] + spec["M"] > 0
               PROVE  CalendarIsKept
    BY DEF CalendarIsKept
  <2> DEFINE base == Wall(zone, now)
             there == Wall(zone, at - Seconds(spec))
             date == DateOf(DayOf(base))
             later == CalendarDate(date, spec)
             day == DayNumber(later) + Days(spec)
             time == IF clock = {} THEN ClockOf(base) ELSE The(clock)
             u == r.at - Seconds(spec)
  <2>1. /\ r.at \in Int /\ date \in Date /\ Exists(date)
        /\ day \in Int
        /\ DayOf(Wall(zone, u)) = day
        /\ \/ ClockOf(Wall(zone, u)) = time
           \/ ClockOf(Wall(zone, u)) = time + Hour /\ Readings(zone, At(day, time)) = {}
        /\ r.notes = Notes(date, spec)
    <3>1. clock # {} \/ spec["Y"] + spec["M"] > 0
      OBVIOUS
    <3> HIDE DEF spec, clock
    <3>2. r.error = None /\ IsClock(clock) /\ spec \in [Unit -> Nat]
      BY <1>3, <1>4
    <3>3. r.at \in Int /\ date \in Date /\ Exists(date) /\ day \in Int
      BY <1>1, <3>1, <3>2, SpanIsOnCalendar
    <3>4. DayOf(Wall(zone, u)) = day
      BY <1>1, <3>1, <3>2, SpanIsOnCalendar
    <3>5. \/ ClockOf(Wall(zone, u)) = time
          \/ ClockOf(Wall(zone, u)) = time + Hour /\ Readings(zone, At(day, time)) = {}
      BY <1>1, <3>1, <3>2, SpanIsOnCalendar
    <3>6. r.notes = Notes(date, spec)
      BY <1>1, <3>1, <3>2, SpanIsOnCalendar
    <3> HIDE DEF day, time, u, r, date
    <3> QED BY <3>3, <3>4, <3>5, <3>6
  <2>2. u = at - Seconds(spec)
    BY <1>5
  <2>3. /\ later \in Date /\ Exists(later)
        /\ MonthOf(later) = MonthOf(date) + 12 * spec["Y"] + spec["M"]
        /\ later.d = date.d <=> Notes(date, spec) = {}
        /\ Notes(date, spec) # {} => later.d \in 28 .. LastDay(later.y, later.m)
    BY <1>3, <2>1, CalendarDateType
  <2>4. DayNumber(later) \in Int /\ DateOf(DayNumber(later)) = later
    BY <2>3, DayOfDate
  <2>5. day - Days(spec) = DayNumber(later)
    BY <1>6, <2>4
  <2>6. DateOf(DayOf(there) - Days(spec)) = later
    BY <2>1, <2>2, <2>4, <2>5
  <2>7. time = IF clock = {} THEN ClockOf(base) ELSE ClockMeant
    BY DEF ClockMeant
  <2>8. \/ ClockOf(there) = time
        \/ ClockOf(there) = time + Hour /\ Readings(zone, At(DayOf(there), time)) = {}
    BY <2>1, <2>2
  <2>9. reply.notes = Notes(date, spec)
    BY <1>4, <2>1
  <2> HIDE DEF base, there, date, later, day, time, u, r
  <2> QED BY <2>3, <2>6, <2>7, <2>8, <2>9 DEF CalendarIsKept, base, there, date
<1> QED BY <1>7, <1>8 DEF SpanIsAsSaid

\* A command for one alert that is read as it is meant rings when its span has
\* passed, to the second or by the calendar, with a note wherever the calendar
\* takes another day, in every zone and at every moment (RelSpec::apply).
THEOREM SpansKept == ReadAsMeant => (Spec => []SpanIsAsSaid)
<1> SUFFICES ASSUME ReadAsMeant PROVE Spec => []SpanIsAsSaid
  OBVIOUS
<1>1. Init => SpanSent
  BY SentInit
<1>2. SpanSent /\ [Next]_vars => SpanSent'
  BY SpanSentStep
<1>3. SpanSent => SpanIsAsSaid
  BY SpanSentKept
<1> QED BY <1>1, <1>2, <1>3, PTL DEF Spec

-----------------------------------------------------------------------------
(* Commands for a series of spans.                                         *)

\* A command for a series is refused only for a cause, and then always.
SeriesAnswer(p, answer) ==
    answer.error # None <=> NoInterval(p.means.spec, p.means.clock) \/ p.means.text = <<>>

LEMMA SeriesOnce ==
    ASSUME zone \in Zone, now \in Int,
           NEW p, p.words \in Seq(Token), SpanIsRead(p), p.recurring
    PROVE  SeriesAnswer(p, ParseRecurring(p.words))
<1> DEFINE match == Relative(p.words)
           times == TimeAfterSpec(p.words, match.next, match.spec)
           next == TimeOr(times, CreationTime, match.next).next
           text == SubSeq(p.words, next, Len(p.words))
           found == SeriesOf(match, times)
           bad == NoInterval(p.means.spec, p.means.clock)
<1>1. /\ match.kind = "spec" /\ match.spec = p.means.spec
      /\ {t.clock : t \in times} = p.means.clock
      /\ SubSeq(p.words, Max({match.next} \cup {t.next : t \in times}), Len(p.words)) = p.means.text
      /\ ~IsKey(p.words, 1, "in")
  BY DEF SpanIsRead
<1>2. p.words # <<>> /\ match.spec \in [Unit -> Nat] /\ match.next \in Nat
  BY <1>1, SpanType
<1>3. next = Max({match.next} \cup {t.next : t \in times})
  <2> DEFINE from == match.next
             spec == match.spec
  <2> HIDE DEF match
  <2>1. from \in Nat
    BY <1>2
  <2> HIDE DEF from, spec
  <2>2. TimeOr(TimeAfterSpec(p.words, from, spec), CreationTime, from).next
          = Max({from} \cup {t.next : t \in TimeAfterSpec(p.words, from, spec)})
    BY <2>1, TextFollows
  <2> QED BY <2>2 DEF from, spec, match
<1>4. \A t \in times : t.clock \in Int
  <2>1. times \subseteq OptionalTime(p.words, match.next)
    BY DEF TimeAfterSpec
  <2> HIDE DEF match, times
  <2> QED BY <1>2, <2>1, ClockAfter
<1> HIDE DEF match, times, next
<1>5. text = p.means.text
  BY <1>1, <1>3
<1>6. /\ bad => Refused(found)
      /\ ~bad => Made(found, next)
  <2>1. times = {} <=> p.means.clock = {}
    BY <1>1
  <2> QED BY <1>1, <1>2, <1>4, <2>1, SpanSeries DEF next
<1>7. RelativeSeries(p.words) = found
  BY <1>1 DEF RelativeSeries, match, times
<1> HIDE DEF found, bad
<1>8. found # {} => ParseRecurring(p.words) = AnswerSeries(p.words, found)
  BY <1>2, <1>7 DEF ParseRecurring, OrElse
<1>9. CASE bad
  <2>1. found # {} /\ AnswerSeries(p.words, found).error # None
    BY <1>6, <1>9, RefusedAnswer
  <2> QED BY <1>8, <1>9, <2>1 DEF SeriesAnswer, bad
<1>10. CASE ~bad
  <2>1. found # {} /\ (AnswerSeries(p.words, found).error # None <=> text = <<>>)
    BY <1>6, <1>10, MadeAnswer
  <2> HIDE DEF text
  <2> QED BY <1>5, <1>8, <1>10, <2>1 DEF SeriesAnswer, bad
<1> QED BY <1>9, <1>10

SeriesSent ==
    /\ TypeInv
    /\ phrase # Nothing /\ phrase.recurring /\ means.kind = "relative" =>
         SeriesAnswer(phrase, reply)

LEMMA SeriesSentInit == Init => SeriesSent
<1> SUFFICES ASSUME Init PROVE SeriesSent
  OBVIOUS
<1>1. TypeInv
  BY TypeInit
<1> QED BY <1>1 DEF Init, SeriesSent

LEMMA SeriesSentStep == ReadAsMeant => (SeriesSent /\ [Next]_vars => SeriesSent')
<1> SUFFICES ASSUME ReadAsMeant, SeriesSent, [Next]_vars PROVE SeriesSent'
  OBVIOUS
<1>1. TypeInv /\ TypeInv'
  BY TypeStep DEF SeriesSent
<1> SUFFICES ASSUME phrase' # Nothing, phrase'.recurring, phrase'.means.kind = "relative"
             PROVE  SeriesAnswer(phrase', reply')
  BY <1>1 DEF SeriesSent, means
<1>2. ASSUME NEW p \in Phrases[zone], Create(p) PROVE SeriesAnswer(phrase', reply')
  <2>1. phrase' = p /\ reply' = ParseCommand(p)
    BY <1>2 DEF Create
  <2>2. /\ p.words \in Seq(Token) /\ SpanIsRead(p) /\ p.recurring
        /\ zone \in Zone /\ now \in Int
    BY <1>1, <2>1, CommandsAssumption DEF TypeInv, ReadAsMeant
  <2>3. p.words # <<>>
    BY <2>2, ReadType
  <2>4. ParseCommand(p) = ParseRecurring(p.words)
    BY <2>2, <2>3 DEF ParseCommand
  <2>5. SeriesAnswer(p, ParseRecurring(p.words))
    BY <2>2, SeriesOnce
  <2> QED BY <2>1, <2>4, <2>5
<1>3. CASE phrase' = phrase /\ reply' = reply
  BY <1>3 DEF SeriesSent, means
<1>4. ASSUME NEW late \in Delays, NEW policy \in GapPolicy, Deliver(late, policy)
      PROVE  phrase' = phrase /\ reply' = reply
  BY <1>4 DEF Deliver
<1>5. UNCHANGED vars => phrase' = phrase /\ reply' = reply
  BY DEF vars
<1> QED BY <1>2, <1>3, <1>4, <1>5 DEF Next

\* A command for a series of spans that is read as it is meant is refused if it
\* mixes units, is shorter than half an hour, does not fit in the rules,
\* contradicts itself or has no text, and for no other reason, at any moment and
\* in any zone (try_recurring_relative, interval_seconds).
THEOREM RefusalsHaveCause == ReadAsMeant => (Spec => []RefusedOnlyForCause)
<1> SUFFICES ASSUME ReadAsMeant PROVE Spec => []RefusedOnlyForCause
  OBVIOUS
<1>1. Init => SeriesSent
  BY SeriesSentInit
<1>2. SeriesSent /\ [Next]_vars => SeriesSent'
  BY SeriesSentStep
<1>3. SeriesSent => RefusedOnlyForCause
  <2> SUFFICES ASSUME phrase # Nothing, phrase.recurring, means.kind = "relative",
                      SeriesAnswer(phrase, reply)
               PROVE  RefusedOnlyForCause
    BY DEF SeriesSent, RefusedOnlyForCause
  <2>1. ~Accepted <=> NoInterval(means.spec, means.clock) \/ means.text = <<>>
    BY DEF SeriesAnswer, Accepted, means
  <2> DEFINE spec == means.spec
             n == spec["Y"] + spec["M"] + Days(spec) + Seconds(spec) \div DayLength
             years == spec["Y"] > 0
             months == spec["M"] > 0
             rest == Days(spec) > 0 \/ HasSubDay(spec)
  <2>2. BySeconds <=> Seconds(spec) % DayLength # 0
    BY DEF BySeconds
  <2>3. UnitMeant = Max({u \in {1, 60, Hour} : IntervalMeant % u = 0})
    BY DEF UnitMeant
  <2>4. IntervalMeant = Days(spec) * DayLength + Seconds(spec)
    BY DEF IntervalMeant, IntervalOf
  <2>5. NoInterval(spec, means.clock) <=>
          \/ years /\ months
          \/ (years \/ months) /\ rest
          \/ n = 0 /\ Seconds(spec) < 1800
          \/ n > MaxInterval
          \/ HasSubDay(spec) /\ means.clock # {}
          \/ BySeconds /\ IntervalMeant \div UnitMeant > MaxInterval
    <3> DEFINE all == Days(spec) * DayLength + Seconds(spec)
               unit == Max({u \in {1, 60, Hour} : all % u = 0})
    <3>1. NoInterval(spec, means.clock) <=>
            \/ years /\ months
            \/ (years \/ months) /\ rest
            \/ n = 0 /\ Seconds(spec) < 1800
            \/ n > MaxInterval
            \/ HasSubDay(spec) /\ means.clock # {}
            \/ Seconds(spec) % DayLength # 0 /\ all \div unit > MaxInterval
      BY DEF NoInterval
    <3>2. IntervalMeant = all /\ UnitMeant = unit
      BY <2>3, <2>4
    <3> HIDE DEF all, unit, spec
    <3> QED BY <2>2, <3>1, <3>2
  <2>6. ~Accepted <=>
          \/ years /\ months
          \/ (years \/ months) /\ rest
          \/ n = 0 /\ Seconds(spec) < 1800
          \/ n > MaxInterval
          \/ HasSubDay(spec) /\ means.clock # {}
          \/ BySeconds /\ IntervalMeant \div UnitMeant > MaxInterval
          \/ means.text = <<>>
    BY <2>1, <2>5
  <2> QED BY <2>6, Zenon DEF RefusedOnlyForCause
<1> QED BY <1>1, <1>2, <1>3, PTL DEF Spec

-----------------------------------------------------------------------------
(* The changes of clocks, and the order of days and instants.              *)

\* The last Sunday of a month is in its last week.
InLastWeek(y, m, day) ==
    LET last == FirstDayOf(y) + DaysBeforeMonth(y, m) + LastDay(y, m) - 1
    IN  day \in Int /\ last - 6 <= day /\ day <= last

LEMMA SundayType ==
    ASSUME NEW y \in Int, NEW m \in 1 .. 12
    PROVE  InLastWeek(y, m, LastSunday(y, m))
<1> DEFINE date == [y |-> y, m |-> m, d |-> LastDay(y, m)]
           last == FirstDayOf(y) + DaysBeforeMonth(y, m) + LastDay(y, m) - 1
<1>1. last \in Int
  <2>1. MonthFits(y, m) /\ FirstDayOf(y) \in Int
    BY MonthsFit, YearLength
  <2> QED BY <2>1 DEF MonthFits
<1>2. DayNumber(date) = last
  BY DEF DayNumber
<1>3. LastSunday(y, m) = last - ((Weekday(last) + 1) % 7)
  BY <1>2 DEF LastSunday
<1> HIDE DEF last
<1>4. (Weekday(last) + 1) % 7 \in 0 .. 6
  BY <1>1 DEF Weekday
<1> QED BY <1>1, <1>3, <1>4 DEF InLastWeek, last

\* Summer begins and ends within its year, and lasts longer than two days.
LEMMA Summers ==
    ASSUME NEW y \in Int
    PROVE  /\ LastSunday(y, 3) \in Int /\ LastSunday(y, 10) \in Int
           /\ FirstDayOf(y) \in Int /\ FirstDayOf(y + 1) \in Int
           /\ FirstDayOf(y) + 2 < LastSunday(y, 3)
           /\ LastSunday(y, 3) + 2 < LastSunday(y, 10)
           /\ LastSunday(y, 10) + 2 < FirstDayOf(y + 1)
<1> DEFINE a == LastSunday(y, 3)
           b == LastSunday(y, 10)
<1>1. /\ DaysBeforeMonth(y, 3) \in {59, 60} /\ LastDay(y, 3) = 31
      /\ DaysBeforeMonth(y, 10) \in {273, 274} /\ LastDay(y, 10) = 31
  BY DEF DaysBeforeMonth, LastDay
<1>2. InLastWeek(y, 3, a)
  BY SundayType
<1>3. InLastWeek(y, 10, b)
  BY SundayType
<1>4. /\ FirstDayOf(y) \in Int /\ FirstDayOf(y + 1) \in Int
      /\ FirstDayOf(y + 1) >= FirstDayOf(y) + 365
  BY YearLength
<1> HIDE DEF a, b
<1>5. /\ a \in Int /\ b \in Int
      /\ FirstDayOf(y) + 2 < a /\ a + 2 < b /\ b + 2 < FirstDayOf(y + 1)
  BY <1>1, <1>2, <1>3, <1>4 DEF InLastWeek
<1> QED BY <1>4, <1>5 DEF a, b

LEMMA DayBounds ==
    ASSUME NEW t \in Int, NEW d \in Int, NEW c \in Int, 0 <= c, c < DayLength
    PROVE  /\ At(d, c) <= t => d <= DayOf(t)
           /\ t < At(d, c) => DayOf(t) <= d
           /\ At(d, c) \in Int
<1> DEFINE e == DayOf(t)
           k == ClockOf(t)
<1>1. e \in Int /\ k \in Int /\ 0 <= k /\ k < 86400 /\ e * 86400 + k = t
  BY ClockParts DEF DayLength, At
<1>2. c < 86400 /\ At(d, c) = d * 86400 + c
  BY DEF DayLength, At
<1> HIDE DEF e, k
<1>3. d * 86400 + c <= t => d <= e
  BY <1>1, <1>2
<1>4. t < d * 86400 + c => e <= d
  BY <1>1, <1>2
<1> QED BY <1>2, <1>3, <1>4 DEF e

\* A summer that is over has ended at an hour past midnight, UTC.
LEMMA SummerEnds ==
    ASSUME NEW u \in Int, NEW n \in Int, u <= n, n - u < DayLength, IsSummer(u), ~IsSummer(n)
    PROVE  \E day \in Int : u < At(day, Hour) /\ At(day, Hour) <= n
<1> DEFINE y == YearOf(DayOf(u))
           b == LastSunday(y, 3)
           e == LastSunday(y, 10)
<1>1. DayOf(u) \in Int /\ DayOf(n) \in Int
  BY ClockParts
<1>2. y \in Int
  BY <1>1, YearFound
<1>3. At(b, Hour) <= u /\ u < At(e, Hour)
  BY DEF IsSummer, InSummerOf
<1> HIDE DEF y
<1>4. /\ b \in Int /\ e \in Int /\ FirstDayOf(y) \in Int /\ FirstDayOf(y + 1) \in Int
      /\ FirstDayOf(y) + 2 < b /\ b + 2 < e /\ e + 2 < FirstDayOf(y + 1)
  BY <1>2, Summers
<1> HIDE DEF b, e
<1>5. Hour \in Int /\ 0 <= Hour /\ Hour < DayLength
  BY DEF Hour, DayLength
<1>6. At(b, Hour) <= n /\ n < At(e + 1, Hour) /\ At(e, Hour) \in Int /\ At(b, Hour) \in Int
  BY <1>3, <1>4 DEF At, Hour, DayLength
<1>7. b <= DayOf(n) /\ DayOf(n) <= e + 1
  BY <1>4, <1>5, <1>6, DayBounds
<1>8. FirstDayOf(y) <= DayOf(n) /\ DayOf(n) < FirstDayOf(y + 1)
  BY <1>1, <1>4, <1>7
<1>9. YearOf(DayOf(n)) = y
  BY <1>1, <1>2, <1>8, YearUnique
<1>10. ~(At(b, Hour) <= n /\ n < At(e, Hour))
  BY <1>9 DEF IsSummer, InSummerOf, b, e
<1>11. At(e, Hour) <= n
  BY <1>6, <1>10
<1> QED BY <1>3, <1>4, <1>11

\* An instant on a later day is later.
LEMMA Chronology ==
    ASSUME NEW z \in Zone, BackWithinDay(z), NEW u \in Int, NEW n \in Int,
           DayOf(Wall(z, n)) < DayOf(Wall(z, u))
    PROVE  n < u
<1> SUFFICES ASSUME u <= n PROVE FALSE
  OBVIOUS
<1> DEFINE winter == z.winter
           saving == z.summer - z.winter
           wn == Wall(z, n)
           wu == Wall(z, u)
<1>1. /\ winter \in Int /\ saving \in Int /\ 0 <= saving /\ saving <= 86400
      /\ ((3600 + winter) % 86400) + saving <= 86400
      /\ z.summer = winter + saving
  BY WallType DEF BackWithinDay, Hour, DayLength
<1>2. /\ wn \in Int /\ wu \in Int /\ DayOf(wn) \in Int /\ DayOf(wu) \in Int
      /\ DayOf(wn) < DayOf(wu)
  BY WallType, ClockParts
<1>3. /\ wn = n + (IF IsSummer(n) THEN winter + saving ELSE winter)
      /\ wu = u + (IF IsSummer(u) THEN winter + saving ELSE winter)
  BY <1>1 DEF Wall, Offset
<1> HIDE DEF winter, saving, wn, wu
<1>4. wn < wu
  <2>1. ASSUME wu <= wn PROVE FALSE
    <3>1. At(DayOf(wu), ClockOf(wu)) = wu /\ ClockOf(wu) \in Int
          /\ 0 <= ClockOf(wu) /\ ClockOf(wu) < DayLength
      BY <1>2, ClockParts
    <3>2. DayOf(wu) <= DayOf(wn)
      BY <1>2, <2>1, <3>1, DayBounds
    <3> QED BY <1>2, <3>2
  <2> QED BY <1>2, <2>1
<1>5. IsSummer(u) /\ ~IsSummer(n) /\ n - u < saving
  BY <1>1, <1>2, <1>3, <1>4
<1>6. PICK day \in Int : u < At(day, Hour) /\ At(day, Hour) <= n
  <2>1. n - u < DayLength
    BY <1>1, <1>5 DEF DayLength
  <2> QED BY <1>5, <2>1, SummerEnds
<1> DEFINE x == day * 86400 + (3600 + winter)
<1>7. x <= wn /\ wu < x + saving
  BY <1>1, <1>3, <1>5, <1>6 DEF At, Hour, DayLength
<1> DEFINE g == (3600 + winter) % 86400
           q == (3600 + winter) \div 86400
<1>8. g \in Int /\ q \in Int /\ 0 <= g /\ g < 86400 /\ 3600 + winter = 86400 * q + g
      /\ g + saving <= 86400
  BY <1>1
<1> HIDE DEF g, q
<1>9. x = At(day + q, g) /\ x + saving <= At(day + q + 1, 0)
  BY <1>1, <1>8 DEF At, DayLength
<1>10. day + q \in Int /\ day + q + 1 \in Int /\ g < DayLength /\ 0 < DayLength
  BY <1>8 DEF DayLength
<1> HIDE DEF x
<1>11. day + q <= DayOf(wn)
  BY <1>2, <1>7, <1>8, <1>9, <1>10, DayBounds
<1>12. DayOf(wu) < day + q + 1
  <2>1. wu < At(day + q + 1, 0)
    BY <1>1, <1>2, <1>7, <1>9, <1>10 DEF At, DayLength, x
  <2> DEFINE d == DayOf(wu)
             k == ClockOf(wu)
  <2>2. d \in Int /\ k \in Int /\ 0 <= k /\ d * 86400 + k = wu
    BY <1>2, ClockParts DEF At, DayLength
  <2> HIDE DEF d, k
  <2>3. d < day + q + 1
    BY <1>8, <2>1, <2>2 DEF At, DayLength
  <2> QED BY <2>3 DEF d
<1> QED BY <1>2, <1>8, <1>11, <1>12

-----------------------------------------------------------------------------
(* A named time: the days it may mean and the first instant on them.        *)

LEMMA OnItsDay ==
    ASSUME NEW z \in Zone, NEW day \in Int, NEW clock \in Int, 0 <= clock, clock < DayLength,
           NEW u \in Resolve(z, At(day, clock))
    PROVE  /\ u \in Int /\ Resolve(z, At(day, clock)) = {u}
           /\ The(Resolve(z, At(day, clock))) = u /\ DayOf(Wall(z, u)) = day
<1> DEFINE wall == At(day, clock)
<1>1. wall \in Int /\ DayOf(wall) = day /\ ClockOf(wall) = clock
  BY PartsOfAt
<1> HIDE DEF wall
<1>2. /\ u \in Int /\ Resolve(z, wall) = {u} /\ The(Resolve(z, wall)) = u
      /\ \/ Wall(z, u) = wall
         \/ Wall(z, u) = wall + Hour /\ ClockOf(wall) < 23 * Hour
  <2>1. u \in Resolve(z, wall)
    BY DEF wall
  <2> QED BY <1>1, <2>1, Resolved
<1>3. CASE Wall(z, u) = wall
  BY <1>1, <1>2, <1>3 DEF wall
<1>4. CASE Wall(z, u) = wall + Hour /\ ClockOf(wall) < 23 * Hour
  <2> DEFINE c == clock + Hour
  <2>1. c \in Int /\ 0 <= c /\ c < DayLength
    BY <1>1, <1>4 DEF Hour, DayLength
  <2>2. wall + Hour = At(day, c)
    BY DEF wall, At, Hour, DayLength
  <2> HIDE DEF c
  <2>3. DayOf(At(day, c)) = day
    BY <2>1, PartsOfAt
  <2> QED BY <1>2, <1>4, <2>2, <2>3 DEF wall
<1> QED BY <1>2, <1>3, <1>4

\* The clock of a later day shows a later instant.
LEMMA LaterDay ==
    ASSUME NEW z \in Zone, BackWithinDay(z), NEW n \in Int, NEW day \in Int,
           NEW clock \in Int, 0 <= clock, clock < DayLength,
           NEW u \in Resolve(z, At(day, clock)), DayOf(Wall(z, n)) < day
    PROVE  n < u
<1>1. u \in Int /\ DayOf(Wall(z, u)) = day
  BY OnItsDay
<1> QED BY <1>1, Chronology

\* All instants at which the clocks of z show a time on one of the days, after n.
NextOn(days, clock, n, z) ==
    {u \in UNION {Resolve(z, At(day, clock)) : day \in days} : u > n}

\* day is the one to take of those that are meant: none before it has an instant
\* ahead, and none after it if it has one that has passed.
Chosen(days, clock, day) ==
    /\ day \in days
    /\ \A d \in days : d < day => AheadOn(d, clock) = {}
    /\ AheadOn(day, clock) = {} =>
         \/ Resolve(zone, At(day, clock)) = {}
         \/ \A d \in days : AheadOn(d, clock) = {}

LEMMA FirstAhead ==
    ASSUME zone \in Zone, now \in Int, BackWithinDay(zone),
           NEW days, days \subseteq Int, NEW clock \in Int, 0 <= clock, clock < DayLength,
           NEW day, Chosen(days, clock, day), NEW u \in Resolve(zone, At(day, clock)), u > now
    PROVE  u \in NextOn(days, clock, now, zone) /\ u = Min(NextOn(days, clock, now, zone))
<1> DEFINE S == NextOn(days, clock, now, zone)
<1>1. day \in days /\ day \in Int
  BY DEF Chosen
<1>2. u \in Int /\ Resolve(zone, At(day, clock)) = {u} /\ DayOf(Wall(zone, u)) = day
  BY <1>1, OnItsDay
<1>3. u \in S
  BY <1>1 DEF NextOn
<1>4. ASSUME NEW v \in S PROVE v \in Int /\ u <= v
  <2>1. PICK d \in days : v \in Resolve(zone, At(d, clock)) /\ v > now
    BY <1>4 DEF NextOn
  <2>2. d \in Int /\ v \in Int
    BY <2>1, OnItsDay
  <2>3. CASE d < day
    BY <2>1, <2>3 DEF Chosen, AheadOn
  <2>4. CASE d = day
    BY <1>2, <2>1, <2>4
  <2>5. CASE day < d
    <3>1. u < v
      BY <1>2, <2>1, <2>2, <2>5, LaterDay
    <3> QED BY <1>2, <2>2, <3>1
  <2> QED BY <1>1, <2>2, <2>3, <2>4, <2>5
<1> HIDE DEF S
<1>5. u = Min(S)
  <2>1. \A x \in S : (\A y \in S : x <= y) => x = u
    BY <1>2, <1>3, <1>4
  <2> QED BY <1>3, <1>4, <2>1 DEF Min
<1> QED BY <1>3, <1>5 DEF S

\* What a command of these days, clock and text is answered at the instant n.
NamesNext(days, clock, text, n, z, answer) ==
    LET ahead == NextOn(days, clock, n, z)
    IN  IF answer.error = None
        THEN /\ text # <<>>
             /\ \E u : /\ u \in ahead /\ u = Min(ahead)
                       /\ answer.schedule = {OneShotSchedule(u, z)}
        ELSE \/ text = <<>> /\ answer.error = "MissingText"
             \/ answer.error = "InPast" /\ ahead = {}
             \/ /\ answer.error = "InvalidTime"
                /\ \E day \in days :
                     /\ Resolve(z, At(day, clock)) = {}
                     /\ \A d \in days : d < day => \A u \in Resolve(z, At(d, clock)) : ~(u > n)

LEMMA ChosenAnswered ==
    ASSUME zone \in Zone, now \in Int, BackWithinDay(zone),
           NEW days, days \subseteq Int, NEW clock \in Int, 0 <= clock, clock < DayLength,
           NEW day, Chosen(days, clock, day), NEW tokens, NEW next
    PROVE  NamesNext(days, clock, SubSeq(tokens, next, Len(tokens)), now, zone,
                     AnswerOneShot(tokens, Found(OnDay(day, clock), next)))
<1> DEFINE here == Resolve(zone, At(day, clock))
           r == OnDay(day, clock)
           found == Found(r, next)
           text == SubSeq(tokens, next, Len(tokens))
           answer == AnswerOneShot(tokens, found)
           ahead == NextOn(days, clock, now, zone)
<1>1. day \in days /\ day \in Int
  BY DEF Chosen
<1>2. r = IF here = {} THEN Fail("InvalidTime") ELSE Succeed(The(here), {})
  BY DEF OnDay, Landing
<1> HIDE DEF r, here
<1>3. found # {} /\ The(found).result = r /\ The(found).next = next
  <2> DEFINE it == [result |-> r, next |-> next]
  <2>1. found = {it} /\ it.result = r /\ it.next = next
    BY DEF Found
  <2> HIDE DEF it, found
  <2>2. The(found) = it
    BY <2>1 DEF The
  <2> QED BY <2>1, <2>2
<1> HIDE DEF found
<1>4. answer = IF r.error # None THEN Refusal(r.error)
               ELSE IF text = <<>> THEN Refusal("MissingText")
               ELSE IF r.at <= now THEN Refusal("InPast")
               ELSE Answer(OneShotSchedule(r.at, zone), r.notes, text)
  BY <1>3 DEF AnswerOneShot
<1>5. \A e : Refusal(e).error = e
  BY DEF Refusal
<1>6. "MissingText" # None /\ "InPast" # None /\ "InvalidTime" # None
  BY DEF None
<1> HIDE DEF text, answer, ahead
<1>7. CASE here = {}
  <2>1. r.error = "InvalidTime"
    BY <1>2, <1>7 DEF Fail
  <2>2. answer.error = "InvalidTime"
    BY <1>4, <1>5, <1>6, <2>1
  <2>3. \A d \in days : d < day => \A u \in Resolve(zone, At(d, clock)) : ~(u > now)
    BY DEF Chosen, AheadOn
  <2>4. NamesNext(days, clock, text, now, zone, answer)
    BY <1>1, <1>6, <1>7, <2>2, <2>3 DEF NamesNext, here
  <2> QED BY <2>4 DEF text, answer, found, r
<1>8. CASE here # {}
  <2>1. PICK u : u \in here
    BY <1>8
  <2>2. u \in Int /\ here = {u} /\ The(here) = u
    BY <1>1, <2>1, OnItsDay DEF here
  <2>3. r.error = None /\ r.at = u /\ r.notes = {}
    BY <1>2, <1>8, <2>2 DEF Succeed
  <2>4. CASE text = <<>>
    <3>1. answer.error = "MissingText"
      BY <1>4, <1>5, <1>6, <2>3, <2>4
    <3>2. NamesNext(days, clock, text, now, zone, answer)
      BY <1>6, <2>4, <3>1 DEF NamesNext
    <3> QED BY <3>2 DEF text, answer, found, r
  <2>5. CASE text # <<>> /\ u > now
    <3>1. answer = Answer(OneShotSchedule(u, zone), r.notes, text)
      BY <1>4, <2>2, <2>3, <2>5
    <3>2. answer.error = None /\ answer.schedule = {OneShotSchedule(u, zone)}
      BY <3>1 DEF Answer
    <3>3. u \in ahead /\ u = Min(ahead)
      BY <2>1, <2>5, FirstAhead DEF ahead, here
    <3>4. NamesNext(days, clock, text, now, zone, answer)
      BY <2>5, <3>2, <3>3 DEF NamesNext, ahead
    <3> QED BY <3>4 DEF text, answer, found, r
  <2>6. CASE text # <<>> /\ ~(u > now)
    <3>1. answer.error = "InPast"
      BY <1>4, <1>5, <1>6, <2>2, <2>3, <2>6
    <3>2. AheadOn(day, clock) = {}
      BY <2>2, <2>6 DEF AheadOn, here
    <3>3. \A d \in days : AheadOn(d, clock) = {}
      BY <1>8, <3>2 DEF Chosen, here
    <3>4. ahead = {}
      BY <3>3 DEF ahead, NextOn, AheadOn
    <3>5. NamesNext(days, clock, text, now, zone, answer)
      BY <1>6, <3>1, <3>4 DEF NamesNext, ahead
    <3> QED BY <3>5 DEF text, answer, found, r
  <2> QED BY <2>4, <2>5, <2>6
<1> QED BY <1>7, <1>8

-----------------------------------------------------------------------------
(* The day that each strategy takes.                                       *)

LEMMA AheadLater ==
    ASSUME zone \in Zone, now \in Int, BackWithinDay(zone), NEW day \in Int, Today < day,
           NEW clock \in Int, 0 <= clock, clock < DayLength
    PROVE  AheadOn(day, clock) = Resolve(zone, At(day, clock))
<1>1. ASSUME NEW u \in Resolve(zone, At(day, clock)) PROVE u > now
  <2>1. u \in Int /\ now < u
    BY OnItsDay, LaterDay DEF Today
  <2> QED BY <2>1
<1> QED BY <1>1 DEF AheadOn

\* A day after today is the one to take, if none before it has an instant ahead.
LEMMA ChosenLater ==
    ASSUME zone \in Zone, now \in Int, BackWithinDay(zone), NEW days, NEW day \in days, day \in Int,
           Today < day, NEW clock \in Int, 0 <= clock, clock < DayLength,
           \A d \in days : d < day => AheadOn(d, clock) = {}
    PROVE  Chosen(days, clock, day)
  BY AheadLater DEF Chosen

LEMMA ChosenClock ==
    ASSUME zone \in Zone, now \in Int, BackWithinDay(zone), NEW m, m.kind = "clock",
           NEW clock \in Int, 0 <= clock, clock < DayLength
    PROVE  LET days == DaysNamed(m, Today)
           IN  days \subseteq Int /\ Chosen(days, clock, DayOfClock(clock))
<1> DEFINE days == DaysNamed(m, Today)
           t == Today
<1>1. t \in Int
  BY TodayType DEF Today
<1>2. days = t .. t + 14
  BY DEF DaysNamed
<1> HIDE DEF t, days
<1>3. CASE Resolve(zone, At(t, clock)) = {} \/ AheadOn(t, clock) # {}
  <2>1. DayOfClock(clock) = t
    BY <1>3 DEF DayOfClock, t
  <2>2. t \in days /\ \A d \in days : ~(d < t)
    BY <1>1, <1>2
  <2>3. Chosen(days, clock, t)
    BY <1>3, <2>2 DEF Chosen
  <2> QED BY <1>1, <1>2, <2>1, <2>3 DEF days
<1>4. CASE ~(Resolve(zone, At(t, clock)) = {} \/ AheadOn(t, clock) # {})
  <2>1. DayOfClock(clock) = t + 1
    BY <1>4 DEF DayOfClock, t
  <2>2. t + 1 \in days /\ \A d \in days : d < t + 1 => d = t
    BY <1>1, <1>2
  <2>3. Today < t + 1 /\ t + 1 \in Int
    BY <1>1 DEF t
  <2>4. Chosen(days, clock, t + 1)
    BY <1>4, <2>2, <2>3, ChosenLater
  <2> QED BY <1>1, <1>2, <2>1, <2>4 DEF days
<1> QED BY <1>3, <1>4

LEMMA WeekdaysApart ==
    ASSUME NEW t \in Int, NEW w \in 0 .. 6, NEW d \in Int, t <= d, Weekday(d) = w
    PROVE  LET first == t + ((w + 7 - Weekday(t)) % 7)
           IN  first \in Int /\ t <= first /\ first < t + 7 /\ Weekday(first) = w
               /\ Weekday(first + 7) = w /\ (d < first + 7 => d = first)
<1> QED BY DEF Weekday

LEMMA ChosenWeekday ==
    ASSUME zone \in Zone, now \in Int, BackWithinDay(zone),
           NEW m, m.kind = "weekday", NEW w \in 0 .. 6, m.days = {w},
           NEW clock \in Int, 0 <= clock, clock < DayLength
    PROVE  LET days == DaysNamed(m, Today)
           IN  days \subseteq Int /\ Chosen(days, clock, FirstWeekday(w, clock))
<1> DEFINE days == DaysNamed(m, Today)
           t == Today
           first == t + ((w + 7 - Weekday(t)) % 7)
<1>1. t \in Int
  BY TodayType DEF Today
<1>2. days = {d \in t .. t + 21 : Weekday(d) = w}
  BY DEF DaysNamed
<1>3. FirstWeekday(w, clock) = IF AheadOn(first, clock) # {} THEN first ELSE first + 7
  BY DEF FirstWeekday
<1>4. /\ first \in Int /\ t <= first /\ first < t + 7
      /\ Weekday(first) = w /\ Weekday(first + 7) = w
  BY <1>1 DEF Weekday
<1>5. \A d \in days : d < first + 7 => d = first
  BY <1>1, <1>2, WeekdaysApart
<1> HIDE DEF t, days, first
<1>6. days \subseteq Int /\ first \in days /\ first + 7 \in days
  BY <1>1, <1>2, <1>4
<1>7. CASE AheadOn(first, clock) # {}
  <2>1. \A d \in days : ~(d < first)
    BY <1>4, <1>5, <1>6
  <2>2. Chosen(days, clock, first)
    BY <1>6, <1>7, <2>1 DEF Chosen
  <2> QED BY <1>3, <1>6, <1>7, <2>2 DEF days
<1>8. CASE AheadOn(first, clock) = {}
  <2>1. \A d \in days : d < first + 7 => AheadOn(d, clock) = {}
    BY <1>5, <1>8
  <2>2. first + 7 \in Int /\ Today < first + 7
    BY <1>1, <1>4 DEF t
  <2>3. Chosen(days, clock, first + 7)
    BY <1>6, <2>1, <2>2, ChosenLater
  <2> QED BY <1>3, <1>6, <1>8, <2>3 DEF days
<1> QED BY <1>7, <1>8

LEMMA ChosenAhead ==
    ASSUME zone \in Zone, now \in Int, BackWithinDay(zone),
           NEW m, m.kind = "ahead", m.ahead \in {1, 2},
           NEW clock \in Int, 0 <= clock, clock < DayLength
    PROVE  LET days == DaysNamed(m, Today)
           IN  days \subseteq Int /\ Chosen(days, clock, Today + m.ahead)
<1> DEFINE days == DaysNamed(m, Today)
           day == Today + m.ahead
<1>1. Today \in Int
  BY TodayType DEF Today
<1>2. days = {day}
  BY DEF DaysNamed
<1>3. day \in Int /\ Today < day
  BY <1>1
<1> HIDE DEF days, day
<1>4. Chosen(days, clock, day)
  BY <1>2, <1>3, ChosenLater
<1> QED BY <1>2, <1>3, <1>4 DEF days, day

LEMMA DateInItsYear ==
    ASSUME NEW date \in Date, Exists(date)
    PROVE  /\ DayNumber(date) \in Int /\ date.y \in Int
           /\ FirstDayOf(date.y) \in Int /\ FirstDayOf(date.y + 1) \in Int
           /\ FirstDayOf(date.y) <= DayNumber(date)
           /\ DayNumber(date) < FirstDayOf(date.y + 1)
<1> DEFINE n == DayNumber(date)
<1>1. n \in Int /\ DateOf(n) = date
  BY DayOfDate
<1>2. date.y \in Int
  BY DEF Date
<1> HIDE DEF n
<1>3. YearOf(n) = date.y
  BY <1>1 DEF DateOf, DateIn
<1>4. FirstDayOf(date.y) <= n /\ n < FirstDayOf(date.y + 1)
  BY <1>1, <1>3, YearFound
<1>5. FirstDayOf(date.y) \in Int /\ FirstDayOf(date.y + 1) \in Int
  BY <1>2, YearLength
<1> QED BY <1>1, <1>2, <1>4, <1>5 DEF n

LEMMA DatesInOrder ==
    ASSUME NEW date \in Date, NEW other \in Date, Exists(date), Exists(other), date.y < other.y
    PROVE  DayNumber(date) < DayNumber(other)
<1>1. date.y \in Int /\ other.y \in Int
  BY DEF Date
<1>2. FirstDayOf(date.y + 1) <= FirstDayOf(other.y)
  BY <1>1, YearsInOrder
<1>3. DayNumber(date) \in Int /\ FirstDayOf(date.y + 1) \in Int /\ DayNumber(date) < FirstDayOf(date.y + 1)
  BY DateInItsYear
<1>4. DayNumber(other) \in Int /\ FirstDayOf(other.y) \in Int /\ FirstDayOf(other.y) <= DayNumber(other)
  BY DateInItsYear
<1> QED BY <1>2, <1>3, <1>4

\* There is no such date, or, without a year, none that is ahead in this year
\* and none in the next.
IsNotNear(date, clock) ==
    LET this == WithYear(date, DateOf(Today).y)
    IN  IF date.y # 0 THEN ~Exists(date)
        ELSE /\ ~(Exists(this) /\ AheadOn(DayNumber(this), clock) # {})
             /\ ~Exists(WithYear(date, DateOf(Today).y + 1))

LEMMA ChosenDate ==
    ASSUME zone \in Zone, now \in Int, BackWithinDay(zone),
           NEW m, m.kind = "date", NEW date \in Date, m.date = {date},
           NEW clock \in Int, 0 <= clock, clock < DayLength
    PROVE  LET days == DaysNamed(m, Today)
               d == WithYear(date, YearOfDate(date, YearOf(Today), clock))
           IN  /\ days \subseteq Int
               /\ Exists(d) => Chosen(days, clock, DayNumber(d))
               /\ ~Exists(d) => IsNotNear(date, clock)
<1> DEFINE days == DaysNamed(m, Today)
           this == YearOf(Today)
           On(y) == WithYear(date, y)
           d == On(YearOfDate(date, this, clock))
           years == IF date.y # 0 THEN {date.y} ELSE this .. this + 8
           none == IF date.y # 0 THEN date ELSE On(this + 1)
<1>1. /\ Today \in Int /\ this \in Int
      /\ Today < FirstDayOf(this + 1) /\ FirstDayOf(this + 1) \in Int
  <2>1. Today \in Int /\ this \in Int
    BY TodayType DEF Today
  <2>2. this + 1 \in Int
    BY <2>1
  <2> QED BY <2>1, <2>2, YearFound, YearLength
<1>2. DateOf(Today).y = this
  BY DEF DateOf, DateIn
<1>3. The(m.date) = date
  BY DEF The
<1>4. days = {DayNumber(e) : e \in {e \in {On(y) : y \in years} : Exists(e)}}
  BY <1>2, <1>3 DEF DaysNamed
<1>5. \A y \in Int : On(y) \in Date /\ On(y).y = y
  BY DEF WithYear, Date
<1>6. date.y \in Int /\ On(date.y) = date
  BY DEF WithYear, Date
<1>7. days \subseteq Int
  <2>1. years \subseteq Int
    BY <1>1, <1>6
  <2> HIDE DEF years, On
  <2>2. \A e \in {e \in {On(y) : y \in years} : Exists(e)} : DayNumber(e) \in Int
    BY <1>5, <2>1, DateInItsYear
  <2> QED BY <1>4, <2>2
<1> HIDE DEF days, this, On
<1>8. CASE date.y # 0
  <2>1. d = date /\ years = {date.y} /\ none = date
    BY <1>6, <1>8 DEF YearOfDate, On
  <2> HIDE DEF d, years
  <2>2. Exists(date) => days = {DayNumber(date)}
    BY <1>4, <1>6, <2>1
  <2>3. Exists(date) => Chosen(days, clock, DayNumber(date))
    <3> SUFFICES ASSUME Exists(date) PROVE Chosen(days, clock, DayNumber(date))
      OBVIOUS
    <3> DEFINE n == DayNumber(date)
    <3>1. n \in Int /\ days = {n}
      BY <2>2, DateInItsYear
    <3> HIDE DEF n
    <3>2. \A e \in days : e = n /\ ~(e < n)
      BY <3>1
    <3>3. Chosen(days, clock, n)
      BY <3>1, <3>2 DEF Chosen
    <3> QED BY <3>3 DEF n
  <2>4. ~Exists(d) => IsNotNear(date, clock)
    BY <1>8, <2>1 DEF IsNotNear
  <2> QED BY <1>7, <2>1, <2>3, <2>4 DEF days, d, this, On
<1>9. CASE date.y = 0
  <2> DEFINE n == DayNumber(On(this))
  <2>1. years = this .. this + 8 /\ none = On(this + 1)
    BY <1>9
  <2>2. d = IF Exists(On(this)) /\ AheadOn(n, clock) # {} THEN On(this) ELSE On(this + 1)
    BY <1>9 DEF YearOfDate, On
  <2> HIDE DEF d, years, none
  <2>3. ASSUME NEW e \in days
        PROVE  \E y \in this .. this + 8 : Exists(On(y)) /\ e = DayNumber(On(y))
    BY <1>4, <2>1, <2>3
  <2>4. ASSUME NEW y \in this .. this + 8, Exists(On(y)) PROVE DayNumber(On(y)) \in days
    BY <1>4, <2>1, <2>4
  <2>5. CASE Exists(On(this)) /\ AheadOn(n, clock) # {}
    <3>1. n \in days
      BY <1>1, <2>4, <2>5
    <3>2. \A e \in days : ~(e < n)
      <4> SUFFICES ASSUME NEW e \in days PROVE ~(e < n)
        OBVIOUS
      <4>1. PICK y \in this .. this + 8 : Exists(On(y)) /\ e = DayNumber(On(y))
        BY <2>3
      <4>2. CASE y = this
        BY <1>7, <3>1, <4>1, <4>2
      <4>3. CASE y # this
        <5>1. On(this).y < On(y).y /\ On(this) \in Date /\ On(y) \in Date
          BY <1>1, <1>5, <4>3
        <5>2. n < e
          BY <2>5, <4>1, <5>1, DatesInOrder
        <5>3. n \in Int /\ e \in Int
          BY <1>7, <3>1
        <5> HIDE DEF n
        <5> QED BY <5>2, <5>3
      <4> QED BY <4>2, <4>3
    <3>3. Chosen(days, clock, n)
      BY <2>5, <3>1, <3>2 DEF Chosen
    <3> QED BY <1>7, <2>2, <2>5, <3>3 DEF days, d, this, On
  <2>6. CASE ~(Exists(On(this)) /\ AheadOn(n, clock) # {})
    <3> DEFINE k == DayNumber(On(this + 1))
    <3>1. d = On(this + 1)
      BY <2>2, <2>6
    <3>2. CASE Exists(On(this + 1))
      <4>1. k \in days /\ k \in Int
        <5>1. this + 1 \in this .. this + 8
          BY <1>1
        <5>2. k \in days
          BY <2>4, <3>2, <5>1
        <5> QED BY <1>7, <5>2
      <4>2. Today < k
        <5>1. this + 1 \in Int /\ On(this + 1) \in Date /\ On(this + 1).y = this + 1
          BY <1>1, <1>5
        <5>2. FirstDayOf(this + 1) <= k
          BY <3>2, <5>1, DateInItsYear
        <5> QED BY <1>1, <4>1, <5>2
      <4>3. \A e \in days : e < k => AheadOn(e, clock) = {}
        <5> SUFFICES ASSUME NEW e \in days, e < k PROVE AheadOn(e, clock) = {}
          OBVIOUS
        <5>1. PICK y \in this .. this + 8 : Exists(On(y)) /\ e = DayNumber(On(y))
          BY <2>3
        <5>2. CASE y = this
          BY <2>6, <5>1, <5>2
        <5>3. CASE y = this + 1
          BY <4>1, <5>1, <5>3
        <5>4. CASE y # this /\ y # this + 1
          <6>1. this + 1 \in Int /\ y \in Int /\ this + 1 < y
            BY <1>1, <5>4
          <6>2. On(this + 1).y < On(y).y /\ On(this + 1) \in Date /\ On(y) \in Date
            BY <1>5, <6>1
          <6>3. k < e
            BY <3>2, <5>1, <6>2, DatesInOrder
          <6> QED BY <1>7, <4>1, <6>3
        <5> QED BY <5>2, <5>3, <5>4
      <4> HIDE DEF k
      <4>4. Chosen(days, clock, k)
        BY <4>1, <4>2, <4>3, ChosenLater
      <4> QED BY <1>7, <3>1, <3>2, <4>4 DEF days, d, k, this, On
    <3>3. CASE ~Exists(On(this + 1))
      <4>1. IsNotNear(date, clock)
        BY <1>2, <1>9, <2>6, <3>3 DEF IsNotNear, this, On
      <4> QED BY <1>7, <3>1, <3>3, <4>1 DEF days, d, this, On
    <3> QED BY <3>2, <3>3
  <2> QED BY <2>5, <2>6
<1> QED BY <1>6, <1>8, <1>9

-----------------------------------------------------------------------------
(* What the strategies find for a named time.                              *)

ClockNamed(m) == IF m.clock # {} THEN The(m.clock) ELSE DefaultTime

\* A token spells at most one clock.
LEMMA OneClock ==
    ASSUME NEW tokens \in Seq(Token), NEW from \in Nat,
           NEW t \in OptionalTime(tokens, from), NEW v \in OptionalTime(tokens, from)
    PROVE  t = v
<1> DEFINE i == IF IsKey(tokens, from, "at") THEN from + 1 ELSE from
           next == IF IsKey(tokens, i + 1, "uhr") THEN i + 2 ELSE i + 1
           spelled == IF i \in DOMAIN tokens THEN tokens[i].clock ELSE {}
<1>1. OptionalTime(tokens, from)
        = {[clock |-> c, next |-> next] : c \in UNION {Clocks(e) : e \in spelled}}
  BY DEF OptionalTime
<1>2. \A e, other \in spelled : e = other
  <2>1. i \in DOMAIN tokens => tokens[i] \in Token
    OBVIOUS
  <2> HIDE DEF i
  <2>2. \A token \in Token : \A e, other \in token.clock : e = other
    BY DEF Token
  <2> QED BY <2>1, <2>2
<1>3. \A e : \A c, other \in Clocks(e) : c = other
  BY DEF Clocks
<1> HIDE DEF i, next, spelled
<1>4. PICK e \in spelled : \E c \in Clocks(e) : t = [clock |-> c, next |-> next]
  BY <1>1
<1>5. PICK f \in spelled : \E c \in Clocks(f) : v = [clock |-> c, next |-> next]
  BY <1>1
<1>6. e = f
  BY <1>2, <1>4, <1>5
<1> QED BY <1>3, <1>4, <1>5, <1>6

\* The time that is taken, with a clock that is given or without.
TimeTaken(times, from, m) ==
    LET time == TimeOr(times, DefaultTime, from)
    IN  /\ time.clock = ClockNamed(m)
        /\ time.clock \in Int /\ 0 <= time.clock /\ time.clock < DayLength
        /\ time.next = Max({from} \cup {t.next : t \in times})
        /\ times = IF m.clock = {} THEN {} ELSE {time}

LEMMA TimeRead ==
    ASSUME NEW tokens \in Seq(Token), NEW from \in Nat, NEW m,
           {t.clock : t \in OptionalTime(tokens, from)} = m.clock
    PROVE  TimeTaken(OptionalTime(tokens, from), from, m)
<1> DEFINE times == OptionalTime(tokens, from)
           time == TimeOr(times, DefaultTime, from)
<1>1. time.next = Max({from} \cup {t.next : t \in times})
  <2>1. TimeAfterSpec(tokens, from, NoSpec) = times
    <3>1. ~HasSubDay(NoSpec)
      BY UnitNames DEF HasSubDay, NoSpec, Units
    <3> QED BY <3>1 DEF TimeAfterSpec
  <2> HIDE DEF times
  <2> QED BY <2>1, TextFollows
<1>2. \A t, v \in times : t = v
  BY OneClock
<1>3. \A t \in times : t.clock \in Int /\ 0 <= t.clock /\ t.clock < DayLength
  BY ClockAfter
<1>4. {t.clock : t \in times} = m.clock
  OBVIOUS
<1> HIDE DEF times
<1>5. CASE times = {}
  <2>1. m.clock = {}
    BY <1>4, <1>5
  <2>2. time.clock = DefaultTime
    BY <1>5 DEF TimeOr
  <2>3. DefaultTime \in Int /\ 0 <= DefaultTime /\ DefaultTime < DayLength
    BY DEF DefaultTime, Clock, Hour, DayLength
  <2> QED BY <1>1, <1>5, <2>1, <2>2, <2>3 DEF ClockNamed, TimeTaken, times
<1>6. CASE times # {}
  <2>1. time \in times
    BY <1>6 DEF TimeOr, The
  <2> HIDE DEF time
  <2>2. times = {time}
    BY <1>2, <2>1
  <2>3. m.clock = {time.clock}
    BY <1>4, <2>2
  <2>4. ClockNamed(m) = time.clock
    BY <2>3 DEF ClockNamed, The
  <2> QED BY <1>1, <1>3, <2>1, <2>2, <2>3, <2>4 DEF TimeTaken, times, time
<1> QED BY <1>5, <1>6

\* The strategies find the instant of the clock on the day that is to be taken.
FoundOn(m, words, next) ==
    LET days == DaysNamed(m, Today)
    IN  /\ days \subseteq Int
        /\ \E day : /\ Chosen(days, ClockNamed(m), day)
                    /\ Strategies(words) = Found(OnDay(day, ClockNamed(m)), next)

\* There is no such date near, and nobody has found anything else.
NoSuchDate(m, n, z) ==
    /\ m.kind = "date" /\ DaysNamed(m, DayOf(Wall(z, n))) \subseteq Int
    /\ \E date \in Date :
         /\ m.date = {date}
         /\ LET this == WithYear(date, DateOf(DayOf(Wall(z, n))).y)
            IN  IF date.y # 0 THEN ~Exists(date)
                ELSE /\ ~(/\ Exists(this)
                         /\ \E u \in Resolve(z, At(DayNumber(this), ClockNamed(m))) : u > n)
                     /\ ~Exists(WithYear(date, DateOf(DayOf(Wall(z, n))).y + 1))

\* NameIsRead, of the token where the clock may begin.
TimeIsRead(p, from) ==
    /\ p.words # <<>> /\ Relative(p.words).kind = "none"
    /\ {t.clock : t \in OptionalTime(p.words, from)} = p.means.clock
    /\ SubSeq(p.words, Max({from} \cup {t.next : t \in OptionalTime(p.words, from)}),
              Len(p.words)) = p.means.text
    /\ p.words[1].date = p.means.date

LEMMA NameParts ==
    ASSUME NEW p, NameIsRead(p)
    PROVE  /\ p.means.kind = "clock" => TimeIsRead(p, 1) /\ OptionalTime(p.words, 1) # {}
           /\ p.means.kind # "clock" => TimeIsRead(p, 2) /\ OptionalTime(p.words, 1) = {}
<1> USE DEF NameIsRead
<1>1. p.words # <<>> /\ Relative(p.words).kind = "none" /\ p.words[1].date = p.means.date
  OBVIOUS
<1>2. p.means.kind = "clock" <=> OptionalTime(p.words, 1) # {}
  OBVIOUS
<1> DEFINE Clocked(from) ==
             {t.clock : t \in OptionalTime(p.words, from)} = p.means.clock
           Followed(from) ==
             SubSeq(p.words, Max({from} \cup {t.next : t \in OptionalTime(p.words, from)}),
                    Len(p.words)) = p.means.text
<1>3. ASSUME p.means.kind = "clock" PROVE Clocked(1) /\ Followed(1)
  BY <1>3
<1>4. ASSUME p.means.kind # "clock" PROVE Clocked(2) /\ Followed(2)
  BY <1>4
<1> QED BY <1>1, <1>2, <1>3, <1>4 DEF TimeIsRead

LEMMA NotRelative ==
    ASSUME NEW tokens, Relative(tokens).kind = "none"
    PROVE  RelativeStrategy(tokens) = {}
<1> DEFINE match == Relative(tokens)
<1>1. RelativeStrategy(tokens) = Relatively(match, TimeAfterSpec(tokens, match.next, match.spec))
  BY DEF RelativeStrategy
<1> HIDE DEF match
<1>2. \A time : Relatively(match, time) = {}
  BY DEF Relatively, match
<1> QED BY <1>1, <1>2

LEMMA ClockTaken ==
    ASSUME zone \in Zone, now \in Int, BackWithinDay(zone),
           NEW p, p.words \in Seq(Token), NameIsRead(p), p.means.kind = "clock"
    PROVE  FoundOn(p.means, p.words, TimeOr(OptionalTime(p.words, 1), DefaultTime, 1).next)
<1> DEFINE times == OptionalTime(p.words, 1)
           time == TimeOr(times, DefaultTime, 1)
           clock == ClockNamed(p.means)
<1>1. /\ Relative(p.words).kind = "none" /\ {t.clock : t \in times} = p.means.clock
      /\ times # {} /\ p.words[1].date = {}
  <2>1. p.words[1].date = {}
    BY Zenon DEF NameIsRead
  <2>2. TimeIsRead(p, 1) /\ times # {}
    BY NameParts
  <2> QED BY <2>1, <2>2 DEF TimeIsRead
<1>2. /\ time.clock = clock /\ clock \in Int /\ 0 <= clock /\ clock < DayLength
      /\ times = IF p.means.clock = {} THEN {} ELSE {time}
  <2>1. TimeTaken(times, 1, p.means)
    BY <1>1, TimeRead
  <2> HIDE DEF times
  <2> QED BY <2>1 DEF TimeTaken
<1>3. RelativeStrategy(p.words) = {}
  BY <1>1, NotRelative
<1>4. DateStrategy(p.words) = {}
  BY <1>1 DEF DateStrategy, OnOneOf
<1>5. ClockStrategy(p.words) = Found(OnDay(DayOfClock(clock), clock), time.next)
  <2>1. times = {time}
    BY <1>1, <1>2
  <2>2. ClockStrategy(p.words) = UNION {OnOneOf({DayOfClock(t.clock)}, t) : t \in times}
    BY DEF ClockStrategy
  <2> HIDE DEF times, time, clock
  <2>3. ClockStrategy(p.words) = OnOneOf({DayOfClock(time.clock)}, time)
    BY <2>1, <2>2
  <2> QED BY <1>2, <2>3 DEF OnOneOf, The
<1> HIDE DEF times, time, clock
<1>6. Strategies(p.words) = Found(OnDay(DayOfClock(clock), clock), time.next)
  BY <1>3, <1>4, <1>5 DEF Strategies, OrElse, Found
<1>7. LET days == DaysNamed(p.means, Today)
      IN  days \subseteq Int /\ Chosen(days, clock, DayOfClock(clock))
  BY <1>2, ChosenClock
<1> QED BY <1>6, <1>7 DEF FoundOn, clock, time, times

LEMMA NamedTaken ==
    ASSUME zone \in Zone, now \in Int, BackWithinDay(zone),
           NEW p, p.words \in Seq(Token), NameIsRead(p), p.means.kind \in {"weekday", "ahead"}
    PROVE  FoundOn(p.means, p.words, TimeOr(OptionalTime(p.words, 2), DefaultTime, 2).next)
<1> DEFINE times == OptionalTime(p.words, 2)
           time == TimeOr(times, DefaultTime, 2)
           clock == ClockNamed(p.means)
           first == p.words[1]
           day == NamedDay(first, clock)
<1>1. /\ Relative(p.words).kind = "none" /\ {t.clock : t \in times} = p.means.clock
      /\ OptionalTime(p.words, 1) = {} /\ first.date = {} /\ p.words # <<>>
  <2>1. p.means.kind # "clock"
    OBVIOUS
  <2>2. first.date = {}
    BY DEF NameIsRead
  <2>3. TimeIsRead(p, 2) /\ OptionalTime(p.words, 1) = {}
    BY <2>1, NameParts
  <2> QED BY <2>2, <2>3 DEF TimeIsRead
<1>2. time.clock = clock /\ clock \in Int /\ 0 <= clock /\ clock < DayLength
  <2>1. TimeTaken(times, 2, p.means)
    BY <1>1, TimeRead
  <2> HIDE DEF times
  <2> QED BY <2>1 DEF TimeTaken
<1>3. RelativeStrategy(p.words) = {}
  BY <1>1, NotRelative
<1>4. DateStrategy(p.words) = {}
  BY <1>1 DEF DateStrategy, OnOneOf
<1>5. ClockStrategy(p.words) = {}
  BY <1>1 DEF ClockStrategy
<1>6. /\ first.key \in {"tomorrow", "day after tomorrow"} \/ Cardinality(first.days) = 1
      /\ LET days == DaysNamed(p.means, Today)
         IN  days \subseteq Int /\ Chosen(days, clock, day)
  <2>1. CASE p.means.kind = "weekday"
    <3>1. first.key = "weekdays" /\ first.days = p.means.days /\ \E w \in 0 .. 6 : first.days = {w}
      BY <2>1 DEF NameIsRead
    <3> HIDE DEF first
    <3>2. PICK w \in 0 .. 6 : first.days = {w}
      BY <3>1
    <3>3. Cardinality(first.days) = 1
      BY <3>2, FS_Singleton
    <3>4. p.means.days = {w} /\ The(first.days) = w
      BY <3>1, <3>2 DEF The
    <3>5. day = FirstWeekday(w, clock)
      BY <3>1, <3>4 DEF NamedDay
    <3> HIDE DEF day, clock
    <3>6. LET days == DaysNamed(p.means, Today)
          IN  days \subseteq Int /\ Chosen(days, clock, FirstWeekday(w, clock))
      BY <1>2, <2>1, <3>4, ChosenWeekday
    <3> QED BY <3>3, <3>5, <3>6
  <2>2. CASE p.means.kind = "ahead"
    <3>1. /\ p.means.ahead \in {1, 2}
          /\ first.key = IF p.means.ahead = 1 THEN "tomorrow"
                         ELSE "day after tomorrow"
      BY <2>2 DEF NameIsRead
    <3> HIDE DEF first
    <3>2. /\ first.key \in {"tomorrow", "day after tomorrow"}
          /\ day = Today + p.means.ahead
      <4>1. CASE p.means.ahead = 1
        BY <3>1, <4>1, Zenon DEF NamedDay
      <4>2. CASE p.means.ahead = 2
        <5>1. p.means.ahead # 1
          BY <4>2
        <5>2. first.key = "day after tomorrow" /\ first.key # "tomorrow"
          BY <3>1, <5>1, Zenon
        <5> QED BY <4>2, <5>2, Zenon DEF NamedDay
      <4> QED BY <3>1, <4>1, <4>2
    <3> HIDE DEF day, clock
    <3>3. LET days == DaysNamed(p.means, Today)
          IN  days \subseteq Int /\ Chosen(days, clock, Today + p.means.ahead)
      BY <1>2, <2>2, <3>1, ChosenAhead
    <3> QED BY <3>2, <3>3
  <2> QED BY <2>1, <2>2
<1>7. NamedStrategy(p.words) = OnOneOf({NamedDay(p.words[1], time.clock)}, time)
  BY <1>6 DEF NamedStrategy, TimeAfterFirst
<1> HIDE DEF times, time, clock
<1>8. NamedStrategy(p.words) = Found(OnDay(day, clock), time.next)
  BY <1>2, <1>7 DEF OnOneOf, The
<1> HIDE DEF day
<1>9. Strategies(p.words) = Found(OnDay(day, clock), time.next)
  BY <1>3, <1>4, <1>5, <1>8 DEF Strategies, OrElse, Found
<1> QED BY <1>6, <1>9 DEF FoundOn, clock, time, times

LEMMA DateTaken ==
    ASSUME zone \in Zone, now \in Int, BackWithinDay(zone),
           NEW p, p.words \in Seq(Token), NameIsRead(p), p.means.kind = "date"
    PROVE  \/ FoundOn(p.means, p.words, TimeOr(OptionalTime(p.words, 2), DefaultTime, 2).next)
           \/ Strategies(p.words) = {} /\ NoSuchDate(p.means, now, zone)
<1> DEFINE times == OptionalTime(p.words, 2)
           time == TimeOr(times, DefaultTime, 2)
           clock == ClockNamed(p.means)
           first == p.words[1]
<1>1. /\ Relative(p.words).kind = "none" /\ {t.clock : t \in times} = p.means.clock
      /\ OptionalTime(p.words, 1) = {} /\ p.words # <<>>
      /\ first.date # {} /\ first.date = p.means.date /\ first.key = None /\ first.days = {}
  <2>1. p.means.kind # "clock"
    OBVIOUS
  <2>2. first.date # {} /\ first.key = None /\ first.days = {}
    BY DEF NameIsRead
  <2>3. TimeIsRead(p, 2) /\ OptionalTime(p.words, 1) = {}
    BY <2>1, NameParts
  <2> QED BY <2>2, <2>3 DEF TimeIsRead
<1>2. time.clock = clock /\ clock \in Int /\ 0 <= clock /\ clock < DayLength
  <2>1. TimeTaken(times, 2, p.means)
    BY <1>1, TimeRead
  <2> HIDE DEF times
  <2> QED BY <2>1 DEF TimeTaken
<1>3. RelativeStrategy(p.words) = {}
  BY <1>1, NotRelative
<1>4. ClockStrategy(p.words) = {}
  BY <1>1 DEF ClockStrategy
<1>5. NamedStrategy(p.words) = {}
  <2>1. ~(first.key \in {"tomorrow", "day after tomorrow"})
    BY <1>1 DEF None
  <2>2. ~(Cardinality(first.days) = 1)
    BY <1>1, FS_EmptySet
  <2> QED BY <2>1, <2>2 DEF NamedStrategy
<1>6. PICK date \in Date : first.date = {date}
  <2>1. first \in Token
    BY <1>1
  <2>2. \A token \in Token : token.date \subseteq Date
                             /\ \A d, other \in token.date : d = other
    BY DEF Token
  <2> HIDE DEF first
  <2> QED BY <1>1, <2>1, <2>2
<1> DEFINE d == WithYear(date, YearOfDate(date, YearOf(Today), clock))
           days == DaysNamed(p.means, Today)
<1>7. Dates(date, clock) = IF Exists(d) THEN {d} ELSE {}
  BY DEF Dates
<1>8. DateStrategy(p.words) = IF Exists(d) THEN Found(OnDay(DayNumber(d), clock), time.next)
                              ELSE {}
  <2>1. DateStrategy(p.words)
          = OnOneOf({DayNumber(e) : e \in UNION {Dates(f, time.clock) : f \in first.date}}, time)
    BY DEF DateStrategy, TimeAfterFirst
  <2> HIDE DEF times, time, clock, first
  <2>2. UNION {Dates(f, time.clock) : f \in first.date} = Dates(date, clock)
    BY <1>2, <1>6
  <2> HIDE DEF d
  <2>3. CASE Exists(d)
    <3>1. {DayNumber(e) : e \in Dates(date, clock)} = {DayNumber(d)}
      BY <1>7, <2>3
    <3>2. DateStrategy(p.words) = OnOneOf({DayNumber(d)}, time)
      BY <2>1, <2>2, <3>1
    <3> QED BY <1>2, <2>3, <3>2 DEF OnOneOf, The
  <2>4. CASE ~Exists(d)
    <3>1. {DayNumber(e) : e \in Dates(date, clock)} = {}
      BY <1>7, <2>4
    <3>2. DateStrategy(p.words) = OnOneOf({}, time)
      BY <2>1, <2>2, <3>1
    <3> QED BY <2>4, <3>2 DEF OnOneOf
  <2> QED BY <2>3, <2>4
<1>9. /\ days \subseteq Int
      /\ Exists(d) => Chosen(days, clock, DayNumber(d))
      /\ ~Exists(d) => IsNotNear(date, clock)
  <2>1. p.means.date = {date}
    BY <1>1, <1>6
  <2> HIDE DEF clock, first, times, time
  <2> QED BY <1>2, <2>1, ChosenDate
<1>10. p.means.date = {date}
  BY <1>1, <1>6
<1> HIDE DEF times, time, clock, first, d, days
<1>11. CASE Exists(d)
  <2>1. Strategies(p.words) = Found(OnDay(DayNumber(d), clock), time.next)
    BY <1>3, <1>8, <1>11 DEF Strategies, OrElse, Found
  <2> QED BY <1>9, <1>11, <2>1 DEF FoundOn, days, clock, time, times
<1>12. CASE ~Exists(d)
  <2>1. Strategies(p.words) = {}
    BY <1>3, <1>4, <1>5, <1>8, <1>12 DEF Strategies, OrElse
  <2>2. IsNotNear(date, clock) /\ days \subseteq Int
    BY <1>9, <1>12
  <2>3. NoSuchDate(p.means, now, zone)
    BY <1>10, <2>2 DEF NoSuchDate, IsNotNear, AheadOn, Today, days, clock
  <2> QED BY <2>1, <2>3
<1> QED BY <1>11, <1>12

\* NamedTimeIsTheNext, of what a phrase means and the answer it gets.
NameAnswer(p, n, z, answer) ==
    LET days == DaysNamed(p.means, DayOf(Wall(z, n)))
        clock == ClockNamed(p.means)
    IN  /\ days \subseteq Int /\ clock \in Int /\ 0 <= clock /\ clock < DayLength
        /\ \/ NamesNext(days, clock, p.means.text, n, z, answer)
           \/ answer.error = "NoTimeExpression" /\ NoSuchDate(p.means, n, z)

LEMMA TextRead ==
    ASSUME NEW p, p.words \in Seq(Token), NEW from \in {1, 2}, TimeIsRead(p, from)
    PROVE  LET time == TimeOr(OptionalTime(p.words, from), DefaultTime, from)
               clock == ClockNamed(p.means)
           IN  /\ clock \in Int /\ 0 <= clock /\ clock < DayLength
               /\ SubSeq(p.words, time.next, Len(p.words)) = p.means.text
<1> DEFINE times == OptionalTime(p.words, from)
           time == TimeOr(times, DefaultTime, from)
           text == p.means.text
<1>1. TimeTaken(times, from, p.means)
  BY TimeRead DEF TimeIsRead
<1>2. SubSeq(p.words, Max({from} \cup {t.next : t \in times}), Len(p.words)) = text
  BY DEF TimeIsRead
<1> HIDE DEF times
<1> QED BY <1>1, <1>2 DEF TimeTaken, times

LEMMA FoundAnswered ==
    ASSUME zone \in Zone, now \in Int, BackWithinDay(zone),
           NEW p, p.words \in Seq(Token), NEW from \in {1, 2}, TimeIsRead(p, from),
           FoundOn(p.means, p.words, TimeOr(OptionalTime(p.words, from), DefaultTime, from).next)
    PROVE  NameAnswer(p, now, zone, AnswerOneShot(p.words, Strategies(p.words)))
<1> DEFINE next == TimeOr(OptionalTime(p.words, from), DefaultTime, from).next
           clock == ClockNamed(p.means)
           days == DaysNamed(p.means, Today)
<1>1. /\ clock \in Int /\ 0 <= clock /\ clock < DayLength
      /\ SubSeq(p.words, next, Len(p.words)) = p.means.text
  BY TextRead
<1>2. FoundOn(p.means, p.words, next)
  OBVIOUS
<1> HIDE DEF next, clock, days
<1>3. PICK day : Chosen(days, clock, day) /\ Strategies(p.words) = Found(OnDay(day, clock), next)
  BY <1>2 DEF FoundOn, days, clock
<1>4. days \subseteq Int
  BY <1>2 DEF FoundOn, days
<1>5. NamesNext(days, clock, SubSeq(p.words, next, Len(p.words)), now, zone,
                AnswerOneShot(p.words, Found(OnDay(day, clock), next)))
  BY <1>1, <1>3, <1>4, ChosenAnswered
<1>6. NamesNext(days, clock, p.means.text, now, zone, AnswerOneShot(p.words, Strategies(p.words)))
  BY <1>1, <1>3, <1>5
<1> QED BY <1>1, <1>4, <1>6 DEF NameAnswer, Today, days, clock

LEMMA NameAnswered ==
    ASSUME zone \in Zone, now \in Int, BackWithinDay(zone),
           NEW p, p.words \in Seq(Token), NameIsRead(p), p.means.kind \in NamesDays
    PROVE  p.words # <<>> /\ NameAnswer(p, now, zone, ParseOneShot(p.words))
<1> DEFINE answer == AnswerOneShot(p.words, Strategies(p.words))
<1>1. p.means.kind \in {"clock", "weekday", "ahead", "date"}
  BY DEF NamesDays
<1>2. p.words # <<>>
  <2>1. TimeIsRead(p, 1) \/ TimeIsRead(p, 2)
    BY NameParts
  <2> QED BY <2>1 DEF TimeIsRead
<1>3. p.words[1].key # "today"
  <2>1. CASE p.means.kind = "clock"
    BY <2>1, Zenon DEF NameIsRead
  <2>2. CASE p.means.kind = "weekday"
    <3>1. p.words[1].key = "weekdays"
      BY <2>2 DEF NameIsRead
    <3> QED BY <3>1
  <2>3. CASE p.means.kind = "ahead"
    <3>1. p.words[1].key = IF p.means.ahead = 1 THEN "tomorrow" ELSE "day after tomorrow"
      BY <2>3 DEF NameIsRead
    <3> QED BY <3>1, Zenon
  <2>4. CASE p.means.kind = "date"
    <3>1. p.words[1].key = None
      BY <2>4 DEF NameIsRead
    <3> QED BY <3>1 DEF None
  <2> QED BY <1>1, <2>1, <2>2, <2>3, <2>4
<1>4. ParseOneShot(p.words) = answer
  BY <1>2, <1>3 DEF ParseOneShot
<1>5. CASE p.means.kind = "clock"
  <2>1. TimeIsRead(p, 1)
    BY <1>5, NameParts
  <2>2. FoundOn(p.means, p.words, TimeOr(OptionalTime(p.words, 1), DefaultTime, 1).next)
    BY <1>5, ClockTaken
  <2>3. NameAnswer(p, now, zone, answer)
    BY <2>1, <2>2, FoundAnswered
  <2> QED BY <1>2, <1>4, <2>3
<1>6. CASE p.means.kind # "clock"
  <2>1. TimeIsRead(p, 2)
    BY <1>6, NameParts
  <2>2. ASSUME FoundOn(p.means, p.words, TimeOr(OptionalTime(p.words, 2), DefaultTime, 2).next)
        PROVE  NameAnswer(p, now, zone, answer)
    BY <2>1, <2>2, FoundAnswered
  <2>3. ASSUME Strategies(p.words) = {}, NoSuchDate(p.means, now, zone)
        PROVE  NameAnswer(p, now, zone, answer)
    <3> DEFINE clock == ClockNamed(p.means)
    <3>1. answer.error = "NoTimeExpression"
      BY <2>3 DEF AnswerOneShot, Refusal
    <3>2. clock \in Int /\ 0 <= clock /\ clock < DayLength
      BY <2>1, TextRead
    <3>3. DaysNamed(p.means, DayOf(Wall(zone, now))) \subseteq Int
      BY <2>3 DEF NoSuchDate
    <3> HIDE DEF clock, answer
    <3> QED BY <2>3, <3>1, <3>2, <3>3 DEF NameAnswer, clock
  <2>4. CASE p.means.kind \in {"weekday", "ahead"}
    <3>1. FoundOn(p.means, p.words, TimeOr(OptionalTime(p.words, 2), DefaultTime, 2).next)
      BY <2>4, NamedTaken
    <3> QED BY <1>2, <1>4, <2>2, <3>1
  <2>5. CASE p.means.kind = "date"
    <3>1. \/ FoundOn(p.means, p.words, TimeOr(OptionalTime(p.words, 2), DefaultTime, 2).next)
          \/ Strategies(p.words) = {} /\ NoSuchDate(p.means, now, zone)
      BY <2>5, DateTaken
    <3> QED BY <1>2, <1>4, <2>2, <2>3, <3>1
  <2> QED BY <1>1, <1>6, <2>4, <2>5
<1> QED BY <1>5, <1>6

-----------------------------------------------------------------------------
(* Commands for one alert at a named time.                                 *)

\* Every phrase that names a day or a clock is read as it is meant.
NamesAreRead ==
    \A z \in Zones : \A p \in Phrases[z] :
        p.means.kind \in NamesDays /\ ~p.recurring => NameIsRead(p)

NameSent == Sent /\ (Once(NamesDays) => NameAnswer(phrase, now, zone, reply))

LEMMA NameSentInit == Init => NameSent
<1> SUFFICES ASSUME Init PROVE NameSent
  OBVIOUS
<1> QED BY DEF Init, NameSent, Sent, Once

LEMMA NameSentStep ==
    NamesAreRead /\ (\A z \in Zones : BackWithinDay(z)) =>
        (NameSent /\ [Next]_vars => NameSent')
<1> SUFFICES ASSUME NamesAreRead, \A z \in Zones : BackWithinDay(z), NameSent, [Next]_vars
             PROVE  NameSent'
  OBVIOUS
<1>1. Sent /\ Sent'
  BY SentStep DEF NameSent
<1> SUFFICES ASSUME Once(NamesDays)' PROVE NameAnswer(phrase', now', zone', reply')
  BY <1>1 DEF NameSent
<1>2. phrase' # Nothing /\ fired' = 0 /\ ~phrase'.recurring /\ phrase'.means.kind \in NamesDays
  BY DEF Once, means
<1>3. ASSUME NEW p \in Phrases[zone], Create(p)
      PROVE  NameAnswer(phrase', now', zone', reply')
  <2>1. phrase = Nothing /\ phrase' = p /\ now' = now /\ zone' = zone /\ reply' = ParseCommand(p)
        /\ fired' = fired
    BY <1>3 DEF Create
  <2>2. p.words \in Seq(Token) /\ NameIsRead(p) /\ ~p.recurring /\ p.means.kind \in NamesDays
    BY <1>1, <1>2, <2>1, CommandsAssumption DEF Sent, NamesAreRead
  <2>3. zone \in Zone /\ now \in Int /\ BackWithinDay(zone)
    BY <1>1, <1>2, <2>1, CommandsAssumption DEF Sent
  <2>4. p.words # <<>> /\ NameAnswer(p, now, zone, ParseOneShot(p.words))
    BY <2>2, <2>3, NameAnswered
  <2>5. reply' = ParseOneShot(p.words)
    BY <2>1, <2>2, <2>4 DEF ParseCommand
  <2> QED BY <2>1, <2>4, <2>5
<1>4. ASSUME NEW late \in Delays, NEW policy \in GapPolicy, Deliver(late, policy)
      PROVE  FALSE
  BY <1>1, <1>2, <1>4 DEF Deliver, Sent
<1>5. CASE UNCHANGED vars
  <2>1. phrase' = phrase /\ now' = now /\ zone' = zone /\ reply' = reply /\ fired' = fired
    BY <1>5 DEF vars
  <2>2. Once(NamesDays)
    BY <1>2, <2>1 DEF Once, means
  <2> QED BY <2>1, <2>2 DEF NameSent
<1> QED BY <1>3, <1>4, <1>5 DEF Next

\* What the rules mean on a day is what the wall clock is resolved to.
LEMMA MeantResolved ==
    ASSUME zone \in Zone, NEW day \in Int, ClockMeant \in Int, 0 <= ClockMeant,
           ClockMeant < DayLength
    PROVE  MeantOn(day) = Resolve(zone, At(day, ClockMeant))
<1> DEFINE clock == ClockMeant
           wall == At(day, clock)
           told == Readings(zone, wall)
           next == Readings(zone, wall + Hour)
           bumped == {u \in next : DayOf(Wall(zone, u)) = day}
           later == {u \in next : ClockOf(wall) < 23 * Hour}
<1>1. ClockOf(wall) = clock
  BY PartsOfAt
<1>2. DayOf(wall + Hour) = day <=> clock < 23 * Hour
  <2>1. CASE clock < 23 * Hour
    <3>1. clock + Hour \in Int /\ 0 <= clock + Hour /\ clock + Hour < DayLength
      BY <2>1 DEF Hour, DayLength
    <3>2. wall + Hour = At(day, clock + Hour)
      BY DEF At, Hour, DayLength
    <3> HIDE DEF clock, wall
    <3> QED BY <2>1, <3>1, <3>2, PartsOfAt
  <2>2. CASE ~(clock < 23 * Hour)
    <3> DEFINE c == clock - 23 * Hour
    <3>1. c \in Int /\ 0 <= c /\ c < DayLength
      BY <2>2 DEF Hour, DayLength
    <3>2. wall + Hour = At(day + 1, c)
      BY DEF At, Hour, DayLength
    <3> HIDE DEF clock, wall, c
    <3>3. DayOf(wall + Hour) = day + 1
      BY <3>1, <3>2, PartsOfAt
    <3> QED BY <2>2, <3>3
  <2> QED BY <2>1, <2>2
<1>3. \A u \in next : Wall(zone, u) = wall + Hour
  BY DEF Readings
<1>4. bumped = later
  <2> HIDE DEF next, wall, clock
  <2> QED BY <1>1, <1>2, <1>3
<1>5. IsFiniteSet(later)
  <2>1. wall + Hour \in Int
    BY DEF At, Hour, DayLength
  <2> HIDE DEF wall
  <2>2. IsFiniteSet(next)
    BY <2>1, ReadingsType DEF next
  <2>3. later \in SUBSET next
    OBVIOUS
  <2> HIDE DEF later, next
  <2> QED BY <2>2, <2>3, FS_Subset
<1>6. MeantOn(day) = IF told # {} THEN {Min(told)} ELSE {u \in bumped : bumped = {u}}
  BY Zenon DEF MeantOn
<1>7. Resolve(zone, wall) = IF told # {} THEN {Min(told)}
                            ELSE IF Cardinality(later) = 1 THEN later ELSE {}
  BY Zenon DEF Resolve, FirstOf
<1> HIDE DEF told, bumped, later, next, wall, clock
<1>8. {u \in later : later = {u}} = IF Cardinality(later) = 1 THEN later ELSE {}
  <2>1. CASE Cardinality(later) = 1
    <3>1. PICK u : later = {u}
      BY <1>5, <2>1, FS_Singleton
    <3> QED BY <2>1, <3>1
  <2>2. CASE Cardinality(later) # 1
    <3>1. \A u : later # {u}
      BY <2>2, FS_Singleton
    <3> QED BY <2>2, <3>1
  <2> QED BY <2>1, <2>2
<1>9. MeantOn(day) = Resolve(zone, wall)
  BY <1>4, <1>6, <1>7, <1>8
<1> QED BY <1>9 DEF wall, clock

\* A date that is not near is no date.
LEMMA NotNearIsNone ==
    ASSUME zone \in Zone, now \in Int, means.kind = "date", NoSuchDate(means, now, zone), DateIsNear,
           ClockMeant = ClockNamed(means), ClockMeant \in Int, 0 <= ClockMeant,
           ClockMeant < DayLength
    PROVE  DaysMeant = {}
<1> DEFINE clock == ClockMeant
           y == DateOf(Today).y
<1>1. PICK date \in Date :
        /\ means.date = {date}
        /\ IF date.y # 0 THEN ~Exists(date)
           ELSE /\ ~(/\ Exists(WithYear(date, y))
                    /\ \E u \in Resolve(zone, At(DayNumber(WithYear(date, y)), clock)) : u > now)
                /\ ~Exists(WithYear(date, y + 1))
  BY DEF NoSuchDate, Today
<1>2. The(means.date) = date
  BY <1>1 DEF The
<1>3. CASE date.y # 0
  <2> DEFINE years == IF date.y # 0 THEN {date.y} ELSE y .. y + 8
             dates == {d \in {WithYear(date, n) : n \in years} : Exists(d)}
  <2>1. DaysMeant = {DayNumber(d) : d \in dates}
    BY <1>2, Zenon DEF DaysMeant, DaysNamed
  <2>2. years = {date.y} /\ WithYear(date, date.y) = date
    BY <1>3 DEF WithYear, Date
  <2> HIDE DEF years
  <2>3. dates = {}
    BY <1>1, <1>3, <2>2
  <2> HIDE DEF dates
  <2> QED BY <2>1, <2>3
<1>4. CASE date.y = 0
  <2> DEFINE this == WithYear(date, y)
  <2>1. ASSUME Exists(this), AheadOf(DayNumber(this)) # {} PROVE FALSE
    <3>1. DayNumber(this) \in Int
      <4>1. YearOf(Today) \in Int /\ y = YearOf(Today)
        BY TodayType DEF Today, DateOf, DateIn
      <4>2. this \in Date
        BY <4>1 DEF WithYear, Date
      <4> HIDE DEF this
      <4> QED BY <2>1, <4>2, DateInItsYear
    <3>2. MeantOn(DayNumber(this)) = Resolve(zone, At(DayNumber(this), clock))
      BY <3>1, MeantResolved
    <3> HIDE DEF this, clock
    <3> QED BY <1>1, <1>4, <2>1, <3>2 DEF AheadOf, this
  <2>2. DaysMeant # {} => \/ Exists(this) /\ AheadOf(DayNumber(this)) # {}
                          \/ Exists(WithYear(date, y + 1))
    BY <1>1, <1>4, Zenon DEF DateIsNear
  <2> QED BY <1>1, <1>4, <2>1, <2>2
<1> QED BY <1>3, <1>4

LEMMA NameSentKept == NameSent => NamedTimeIsTheNext
<1> SUFFICES ASSUME NameSent, Once(NamesDays), EachDayTells, DateIsNear
             PROVE  NamedTimeIsTheNext
  BY DEF NamedTimeIsTheNext
<1> DEFINE days == DaysNamed(phrase.means, DayOf(Wall(zone, now)))
           clock == ClockNamed(phrase.means)
           ahead == NextOn(days, clock, now, zone)
           seen == UNION {AheadOf(day) : day \in DaysMeant}
<1>1. /\ days \subseteq Int /\ clock \in Int /\ 0 <= clock /\ clock < DayLength
      /\ \/ NamesNext(days, clock, means.text, now, zone, reply)
         \/ reply.error = "NoTimeExpression" /\ NoSuchDate(means, now, zone)
  BY DEF NameSent, NameAnswer, means
<1>2. clock = ClockMeant /\ ClockMeant = ClockNamed(means)
  BY DEF ClockNamed, ClockMeant, Once, NamesDays, means
<1>3. days = DaysMeant
  BY DEF DaysMeant, Today, means
<1>4. zone \in Zone /\ now \in Int
  BY CommandsAssumption DEF NameSent, Sent, Once
<1> HIDE DEF days, clock, ahead
<1>5. \A day \in days : MeantOn(day) = Resolve(zone, At(day, clock))
  BY <1>1, <1>2, <1>4, MeantResolved
<1>6. ahead = seen
  BY <1>3, <1>5 DEF ahead, NextOn, AheadOf
<1> HIDE DEF seen
<1>7. ASSUME Accepted PROVE means.text # <<>> /\ at \in seen /\ at = Min(seen)
  <2>1. reply.error = None /\ "NoTimeExpression" # None
    BY <1>7 DEF Accepted, None
  <2>2. /\ means.text # <<>>
        /\ \E u : u \in ahead /\ u = Min(ahead) /\ reply.schedule = {OneShotSchedule(u, zone)}
    BY <1>1, <2>1 DEF NamesNext, ahead
  <2>3. PICK u : u \in ahead /\ u = Min(ahead) /\ reply.schedule = {OneShotSchedule(u, zone)}
    BY <2>2
  <2>4. at = u
    <3>1. The(reply.schedule) = OneShotSchedule(u, zone)
      BY <2>3 DEF The
    <3>2. OneShotSchedule(u, zone).start = u
      BY DEF OneShotSchedule, Schedule
    <3> QED BY <3>1, <3>2 DEF at
  <2> QED BY <1>6, <2>2, <2>3, <2>4
<1>8. ASSUME ~Accepted
      PROVE  \/ reply.error = "MissingText" /\ means.text = <<>>
             \/ reply.error = "InPast" /\ seen = {}
             \/ reply.error = "NoTimeExpression" /\ DaysMeant = {}
  <2>1. reply.error # None
    BY <1>8 DEF Accepted
  <2>2. \/ means.text = <<>> /\ reply.error = "MissingText"
        \/ reply.error = "InPast" /\ ahead = {}
        \/ \E day \in days :
             /\ Resolve(zone, At(day, clock)) = {}
             /\ \A d \in days : d < day => \A u \in Resolve(zone, At(d, clock)) : ~(u > now)
        \/ reply.error = "NoTimeExpression" /\ NoSuchDate(means, now, zone)
    BY <1>1, <2>1 DEF NamesNext, ahead
  <2>3. ASSUME NEW day \in days, Resolve(zone, At(day, clock)) = {},
               \A d \in days : d < day => \A u \in Resolve(zone, At(d, clock)) : ~(u > now)
        PROVE  FALSE
    <3>1. MeantOn(day) = {}
      BY <1>5, <2>3
    <3>2. PICK earlier \in days : earlier < day /\ AheadOf(earlier) # {}
      BY <1>3, <3>1 DEF EachDayTells
    <3>3. \A u \in MeantOn(earlier) : ~(u > now)
      BY <1>5, <2>3, <3>2
    <3> QED BY <3>2, <3>3 DEF AheadOf
  <2>4. ASSUME NoSuchDate(means, now, zone) PROVE DaysMeant = {}
    <3>1. means.kind = "date"
      BY <2>4 DEF NoSuchDate
    <3> QED BY <1>1, <1>2, <1>4, <2>4, <3>1, NotNearIsNone
  <2> QED BY <1>6, <2>2, <2>3, <2>4
<1> QED BY <1>7, <1>8, Zenon DEF NamedTimeIsTheNext, seen

\* A clock, a weekday, a date or a day ahead is the first of its instants after the
\* command, at every moment, in every zone whose clocks go back within a day; a
\* command is refused exactly if it has no text, no instant ahead or no such date
\* (parse_one_shot and its strategies, local_to_utc).
THEOREM NamedTimes ==
    NamesAreRead /\ (\A z \in Zones : BackWithinDay(z)) => (Spec => []NamedTimeIsTheNext)
<1> SUFFICES ASSUME NamesAreRead, \A z \in Zones : BackWithinDay(z)
             PROVE  Spec => []NamedTimeIsTheNext
  OBVIOUS
<1>1. Init => NameSent
  BY NameSentInit
<1>2. NameSent /\ [Next]_vars => NameSent'
  BY NameSentStep
<1>3. NameSent => NamedTimeIsTheNext
  BY NameSentKept
<1> QED BY <1>1, <1>2, <1>3, PTL DEF Spec
=============================================================================
