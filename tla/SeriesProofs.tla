---------------------------- MODULE SeriesProofs ----------------------------
(***************************************************************************)
(* Series: the days and the time at which they ring, from the command to   *)
(* its last delivery.                                                      *)
(***************************************************************************)
EXTENDS CommandsProofs

-----------------------------------------------------------------------------
(* The hour that is left out when summer begins.                           *)

\* A summer that has begun has done so at an hour past midnight, UTC, and goes on
\* for more than a day.
LEMMA SummerBegins ==
    ASSUME NEW n \in Int, NEW u \in Int, n <= u, u - n < DayLength, ~IsSummer(n), IsSummer(u)
    PROVE  \E day \in Int : /\ n < At(day, Hour) /\ At(day, Hour) <= u
                            /\ \A v \in Int : u <= v /\ v - u < DayLength => IsSummer(v)
<1> DEFINE y == YearOf(DayOf(u))
           b == LastSunday(y, 3)
           e == LastSunday(y, 10)
<1>1. DayOf(u) \in Int /\ y \in Int
  BY ClockParts, YearFound
<1>2. At(b, Hour) <= u /\ u < At(e, Hour)
  BY DEF IsSummer, InSummerOf
<1>3. \A v \in Int : YearOf(DayOf(v)) = y /\ At(b, Hour) <= v /\ v < At(e, Hour) => IsSummer(v)
  BY DEF IsSummer, InSummerOf
<1> HIDE DEF y
<1>4. /\ b \in Int /\ e \in Int /\ FirstDayOf(y) \in Int /\ FirstDayOf(y + 1) \in Int
      /\ FirstDayOf(y) + 2 < b /\ b + 2 < e /\ e + 2 < FirstDayOf(y + 1)
  BY <1>1, Summers
<1> HIDE DEF b, e
<1>5. Hour \in Int /\ 0 <= Hour /\ Hour < DayLength
  BY DEF Hour, DayLength
<1>6. ASSUME NEW v \in Int, At(b, Hour) <= v, v < At(e, Hour) PROVE IsSummer(v)
  <2>1. DayOf(v) \in Int /\ b <= DayOf(v) /\ DayOf(v) <= e
    BY <1>4, <1>5, <1>6, ClockParts, DayBounds
  <2>2. FirstDayOf(y) <= DayOf(v) /\ DayOf(v) < FirstDayOf(y + 1)
    BY <1>4, <2>1
  <2>3. YearOf(DayOf(v)) = y
    BY <1>1, <2>1, <2>2, YearUnique
  <2> QED BY <1>3, <1>6, <2>3
<1>7. n < At(b, Hour)
  <2>1. At(b, Hour) \in Int /\ At(e, Hour) \in Int
    BY <1>4, <1>5 DEF At, DayLength
  <2> QED BY <1>2, <1>6, <2>1
<1>8. ASSUME NEW v \in Int, u <= v, v - u < DayLength PROVE IsSummer(v)
  <2>1. At(b, Hour) <= v /\ v < At(e, Hour)
    BY <1>2, <1>4, <1>7, <1>8 DEF At, DayLength, Hour
  <2> QED BY <1>6, <2>1
<1> QED BY <1>2, <1>4, <1>7, <1>8

LEMMA LeftOut ==
    ASSUME NEW z \in Zone, LeftOutHourFollows(z), NEW wall \in Int, Readings(z, wall) = {}
    PROVE  /\ ClockOf(wall) < 23 * Hour /\ wall - z.winter \in Int
           /\ Readings(z, wall + Hour) = {wall - z.winter}
<1> DEFINE winter == z.winter
           saving == z.summer - z.winter
           b == wall - winter
           a == b - 3600
<1>1. /\ winter \in Int /\ saving \in {0, 3600} /\ (3600 + winter) % 86400 <= 22 * 3600
      /\ z.summer = winter + saving /\ a \in Int /\ b \in Int
  <2>1. z.summer \in Int /\ winter \in Int
    BY DEF Zone
  <2>2. saving \in {0, 3600} /\ (3600 + winter) % 86400 <= 22 * 3600
    BY DEF LeftOutHourFollows, Hour, DayLength
  <2> QED BY <2>1, <2>2
<1>2. \A u \in Int : Wall(z, u) = u + (IF IsSummer(u) THEN winter + saving ELSE winter)
  BY <1>1 DEF Wall, Offset
<1>3. \A u \in Int : Wall(z, u) # wall
  BY ReadingsType
<1> HIDE DEF winter, saving
<1>4. saving = 3600 /\ IsSummer(b) /\ ~IsSummer(a)
  BY <1>1, <1>2, <1>3
<1>5. PICK day \in Int : /\ a < At(day, Hour) /\ At(day, Hour) <= b
                         /\ \A v \in Int : b <= v /\ v - b < DayLength => IsSummer(v)
  <2>1. a <= b /\ b - a < DayLength
    BY <1>1 DEF DayLength
  <2> QED BY <1>1, <1>4, <2>1, SummerBegins
<1>6. Wall(z, b) = wall + Hour
  BY <1>1, <1>2, <1>4 DEF Hour
<1>7. Readings(z, wall + Hour) = {b}
  <2>1. z.summer \in Int /\ z.winter = winter /\ (wall + Hour) - z.summer = b
    BY <1>1, <1>4 DEF Hour, winter
  <2>2. (wall + Hour) - z.winter = b + Hour /\ b + Hour \in Int /\ IsSummer(b + Hour)
    BY <1>1, <1>5, <2>1 DEF Hour, DayLength
  <2>3. Wall(z, b + Hour) # wall + Hour
    BY <1>1, <1>2, <1>4, <2>2 DEF Hour
  <2>4. \A w, u : u \in Readings(z, w) <=> u \in {w - z.summer, w - z.winter} /\ Wall(z, u) = w
    BY DEF Readings
  <2>5. (wall + Hour) - z.summer = b /\ (wall + Hour) - z.winter = b + Hour
    BY <2>1, <2>2
  <2> DEFINE w == wall + Hour
  <2>6. /\ w - z.summer = b /\ w - z.winter = b + Hour
        /\ Wall(z, b) = w /\ Wall(z, b + Hour) # w
    BY <1>6, <2>3, <2>5
  <2> HIDE DEF b, w
  <2>7. \A u : u \in Readings(z, w) <=> u = b
    BY <2>4, <2>6
  <2> QED BY <2>7 DEF w
<1>8. ClockOf(wall) < 23 * Hour
  <2> DEFINE q == (3600 + winter) \div 86400
             g == (3600 + winter) % 86400
             c == g + (b - At(day, Hour))
  <2>1. /\ q \in Int /\ g \in Int /\ 0 <= g /\ g <= 22 * 3600
        /\ 3600 + winter = 86400 * q + g
    BY <1>1
  <2>2. At(day, Hour) = day * 86400 + 3600 /\ At(day, Hour) \in Int
    BY DEF At, DayLength, Hour
  <2> HIDE DEF q, g
  <2>3. c \in Int /\ 0 <= c /\ c < 23 * 3600 /\ c < 86400
    BY <1>1, <1>5, <2>1, <2>2
  <2>4. wall = (day + q) * 86400 + c /\ day + q \in Int
    BY <1>1, <2>1, <2>2
  <2> HIDE DEF c
  <2>5. ClockOf(At(day + q, c)) = c
    BY <2>3, <2>4, PartsOfAt DEF DayLength
  <2> QED BY <2>3, <2>4, <2>5 DEF At, DayLength, Hour
<1> QED BY <1>1, <1>7, <1>8 DEF winter

\* Where the left out hour follows, every wall clock is resolved ...
LEMMA AlwaysResolved ==
    ASSUME NEW z \in Zone, LeftOutHourFollows(z), NEW wall \in Int
    PROVE  /\ Resolve(z, wall) # {}
           /\ Readings(z, wall) = {} => Resolve(z, wall) = {wall - z.winter}
           /\ Readings(z, wall) # {} => Resolve(z, wall) = {Min(Readings(z, wall))}
<1>1. CASE Readings(z, wall) # {}
  BY <1>1 DEF Resolve, FirstOf
<1>2. CASE Readings(z, wall) = {}
  <2> DEFINE later == {u \in Readings(z, wall + Hour) : ClockOf(wall) < 23 * Hour}
  <2>1. later = {wall - z.winter}
    BY <1>2, LeftOut
  <2>2. Cardinality(later) = 1
    BY <2>1, FS_Singleton
  <2>3. Resolve(z, wall) = later
    BY <1>2, <2>2 DEF Resolve, FirstOf
  <2> QED BY <1>2, <2>1, <2>3
<1> QED BY <1>1, <1>2

\* ... and a slot of the library is what it is resolved to, if it has any.
LEMMA SlotsResolved ==
    ASSUME NEW z \in Zone, LeftOutHourFollows(z), NEW wall \in Int, NEW policy
    PROVE  /\ SlotInstants(policy, z, wall) \subseteq Resolve(z, wall)
           /\ Readings(z, wall) # {} => SlotInstants(policy, z, wall) = Resolve(z, wall)
  BY AlwaysResolved DEF SlotInstants

\* The clocks show this time, or an hour later because this time is left out.
OnClock(z, u, clock) ==
    \/ ClockOf(Wall(z, u)) = clock
    \/ ClockOf(Wall(z, u)) = clock + Hour /\ Readings(z, At(DayOf(Wall(z, u)), clock)) = {}

IsMinute(clock) == clock \in Int /\ 0 <= clock /\ clock < DayLength /\ clock % 60 = 0

LEMMA ResolvedOnClock ==
    ASSUME NEW z \in Zone, LeftOutHourFollows(z), NEW day \in Int, NEW clock, IsMinute(clock),
           NEW u \in Resolve(z, At(day, clock))
    PROVE  /\ u \in Int /\ u % 60 = 0 /\ DayOf(Wall(z, u)) = day
           /\ OnClock(z, u, clock)
<1> DEFINE wall == At(day, clock)
           there == Wall(z, u)
<1>1. /\ clock \in Int /\ 0 <= clock /\ clock < DayLength /\ clock % 60 = 0
  BY DEF IsMinute
<1>2. wall \in Int /\ DayOf(wall) = day /\ ClockOf(wall) = clock
  BY <1>1, PartsOfAt
<1>3. u \in Int /\ DayOf(there) = day
  BY <1>1, OnItsDay
<1> HIDE DEF wall
<1>4. \/ there = wall
      \/ there = wall + Hour /\ clock < 23 * Hour /\ Readings(z, wall) = {}
  <2>1. u \in Resolve(z, wall)
    BY DEF wall
  <2> QED BY <1>2, <2>1, Resolved
<1>5. OnClock(z, u, clock)
  <2>1. CASE there = wall
    BY <1>2, <2>1 DEF OnClock
  <2>2. CASE there = wall + Hour /\ clock < 23 * Hour /\ Readings(z, wall) = {}
    <3>1. clock + Hour \in Int /\ 0 <= clock + Hour /\ clock + Hour < DayLength
      BY <1>1, <2>2 DEF Hour, DayLength
    <3>2. wall + Hour = At(day, clock + Hour)
      BY <1>1 DEF wall, At, Hour, DayLength
    <3>3. ClockOf(At(day, clock + Hour)) = clock + Hour
      BY <3>1, PartsOfAt
    <3> QED BY <1>3, <2>2, <3>2, <3>3 DEF OnClock, wall
  <2> QED BY <1>4, <2>1, <2>2
<1>6. u % 60 = 0
  <2>1. z.winter \in Int /\ z.winter % 60 = 0 /\ z.summer - z.winter \in {0, 3600} /\ z.summer \in Int
    BY WallType DEF LeftOutHourFollows, Hour
  <2>2. there = u + z.winter \/ there = u + z.summer
    BY <1>3 DEF Wall, Offset
  <2>3. wall = day * 86400 + clock
    BY DEF wall, At, DayLength
  <2>4. there = wall \/ there = wall + 3600
    BY <1>4 DEF Hour
  <2> DEFINE w == z.winter
             s == z.summer
  <2> HIDE DEF there, w, s
  <2>5. u = wall - w \/ u = wall - w - 3600 \/ u = wall - w + 3600
    BY <1>2, <1>3, <2>1, <2>2, <2>4 DEF w, s
  <2>6. w \in Int /\ w % 60 = 0
    BY <2>1 DEF w
  <2> QED BY <1>1, <1>3, <2>3, <2>5, <2>6
<1> QED BY <1>3, <1>5, <1>6

-----------------------------------------------------------------------------
(* Days of a month.                                                        *)

LEMMA MonthParts ==
    ASSUME NEW i \in Int
    PROVE  /\ i \div 12 \in Int /\ (i % 12) + 1 \in 1 .. 12
           /\ 12 * (i \div 12) + ((i % 12) + 1) - 1 = i
  OBVIOUS

LEMMA MonthIndexParts ==
    ASSUME NEW y \in Int, NEW m \in 1 .. 12
    PROVE  /\ 12 * y + m - 1 \in Int
           /\ (12 * y + m - 1) \div 12 = y /\ ((12 * y + m - 1) % 12) + 1 = m
  OBVIOUS

LEMMA LastDayType ==
    ASSUME NEW i \in Int
    PROVE  LastDay(i \div 12, (i % 12) + 1) \in 28 .. 31
<1> DEFINE y == i \div 12
           m == (i % 12) + 1
<1>1. y \in Int /\ m \in 1 .. 12
  BY MonthParts
<1> HIDE DEF y, m
<1>2. LastDay(y, m) \in 28 .. 31
  BY <1>1, MonthLength
<1> QED BY <1>2 DEF y, m

\* day of the month i, or its last if it is shorter, or nothing.
IsInMonth(day, clamped, i, d) ==
    /\ Exists(DayOfMonth(day, i, clamped))
    /\ d = DayNumber(DayOfMonth(day, i, clamped))

LEMMA MonthIndexOfDate ==
    ASSUME NEW date \in Date, Exists(date)
    PROVE  /\ DayNumber(date) \in Int /\ DateOf(DayNumber(date)) = date
           /\ MonthIndex(DayNumber(date)) = 12 * date.y + date.m - 1
  BY DayOfDate DEF MonthIndex

LEMMA DayOfMonthType ==
    ASSUME NEW day \in 1 .. 31, NEW i \in Int, NEW clamped \in BOOLEAN
    PROVE  LET date == DayOfMonth(day, i, clamped)
           IN  /\ date \in Date /\ date.y = i \div 12 /\ date.m = (i % 12) + 1
               /\ date.d = IF clamped THEN AtMost(day, date.y, date.m) ELSE day
               /\ LastDay(date.y, date.m) \in 28 .. 31
               /\ clamped \/ day <= LastDay(date.y, date.m) <=> Exists(date)
<1> DEFINE y == i \div 12
           m == (i % 12) + 1
           last == LastDay(y, m)
           d == IF clamped THEN AtMost(day, y, m) ELSE day
           date == [y |-> y, m |-> m, d |-> d]
<1>1. y \in Int /\ m \in 1 .. 12
  BY MonthParts
<1>2. DayOfMonth(day, i, clamped) = date
  BY DEF DayOfMonth
<1> HIDE DEF y, m
<1>3. last \in 28 .. 31
  BY <1>1, MonthLength
<1>4. d \in Int /\ 1 <= d /\ (clamped => d <= last) /\ (~clamped => d = day)
  BY <1>3 DEF AtMost
<1>5. date.y = y /\ date.m = m /\ date.d = d /\ date \in Date
  BY <1>1, <1>4 DEF Date
<1> HIDE DEF date
<1>6. Exists(date) <=> d <= last
  BY <1>1, <1>3, <1>4, <1>5 DEF Exists
<1> HIDE DEF last
<1>7. clamped \/ day <= last <=> Exists(date)
  BY <1>4, <1>6
<1> QED BY <1>2, <1>3, <1>5, <1>7 DEF last, y, m

FallsOn(day, clamped, d) ==
    IF clamped THEN AtDay(DateOf(d), day) ELSE DateOf(d).d = day

LEMMA InMonth ==
    ASSUME NEW day \in 1 .. 31, NEW i \in Int, NEW clamped \in BOOLEAN, NEW d
    PROVE  IsInMonth(day, clamped, i, d)
             <=> d \in Int /\ MonthIndex(d) = i /\ FallsOn(day, clamped, d)
<1> USE DEF FallsOn
<1> DEFINE date == DayOfMonth(day, i, clamped)
<1>1. /\ date \in Date /\ date.y = i \div 12 /\ date.m = (i % 12) + 1
      /\ date.d = IF clamped THEN AtMost(day, date.y, date.m) ELSE day
  BY DayOfMonthType
<1>2. 12 * date.y + date.m - 1 = i
  BY <1>1, MonthParts
<1> HIDE DEF date
<1>3. ASSUME Exists(date), d = DayNumber(date)
      PROVE  /\ d \in Int /\ MonthIndex(d) = i
             /\ IF clamped THEN AtDay(DateOf(d), day) ELSE DateOf(d).d = day
  <2>1. d \in Int /\ DateOf(d) = date /\ MonthIndex(d) = i
    BY <1>1, <1>2, <1>3, MonthIndexOfDate
  <2> QED BY <1>1, <2>1 DEF AtDay
<1>4. ASSUME d \in Int, MonthIndex(d) = i,
             IF clamped THEN AtDay(DateOf(d), day) ELSE DateOf(d).d = day
      PROVE  Exists(date) /\ d = DayNumber(date)
  <2> DEFINE e == DateOf(d)
  <2>1. e \in Date /\ Exists(e) /\ DayNumber(e) = d
    BY <1>4, DateOfDay
  <2>2. 12 * e.y + e.m - 1 = i
    BY <1>4 DEF MonthIndex
  <2>3. IF clamped THEN AtDay(e, day) ELSE e.d = day
    BY <1>4
  <2> HIDE DEF e
  <2>4. e.y \in Int /\ e.m \in 1 .. 12
    BY <2>1 DEF Date, Exists
  <2>5. e.y = i \div 12 /\ e.m = (i % 12) + 1
    BY <2>2, <2>4, MonthIndexParts
  <2>6. e.y = date.y /\ e.m = date.m /\ e.d = date.d
    BY <1>1, <2>3, <2>5 DEF AtDay
  <2>7. e = date
    BY <1>1, <2>1, <2>6 DEF Date
  <2> QED BY <2>1, <2>7
<1> QED BY <1>3, <1>4 DEF IsInMonth, date

\* Days are in the order of their months.
LEMMA MonthsOfDays ==
    ASSUME NEW d \in Int, NEW e \in Int, d <= e
    PROVE  MonthIndex(d) <= MonthIndex(e) /\ DateOf(d).y <= DateOf(e).y
<1> DEFINE a == DateOf(d)
           b == DateOf(e)
<1>1. /\ a \in Date /\ Exists(a) /\ DayNumber(a) = d
      /\ b \in Date /\ Exists(b) /\ DayNumber(b) = e
  BY DateOfDay
<1>2. MonthIndex(d) = 12 * a.y + a.m - 1 /\ MonthIndex(e) = 12 * b.y + b.m - 1
  BY DEF MonthIndex
<1> HIDE DEF a, b
<1>3. /\ a.y \in Int /\ a.m \in 1 .. 12 /\ b.y \in Int /\ b.m \in 1 .. 12
      /\ 1 <= a.d /\ 1 <= b.d /\ a.d \in Int /\ b.d \in Int /\ b.d <= LastDay(b.y, b.m)
  BY <1>1 DEF Date, Exists
<1>4. ~(b.y < a.y)
  BY <1>1, DatesInOrder
<1>5. ~(b.y = a.y /\ b.m < a.m)
  <2> SUFFICES ASSUME b.y = a.y, b.m < a.m PROVE FALSE
    OBVIOUS
  <2>1. DaysBeforeMonth(a.y, b.m) + LastDay(a.y, b.m) <= DaysBeforeMonth(a.y, a.m)
    BY <1>3, MonthsInOrder
  <2>2. /\ FirstDayOf(a.y) \in Int /\ DaysBeforeMonth(a.y, b.m) \in Nat
        /\ DaysBeforeMonth(a.y, a.m) \in Nat /\ LastDay(a.y, b.m) \in 28 .. 31
    <3> DEFINE y == a.y
    <3>1. y \in Int
      BY <1>3
    <3> HIDE DEF y
    <3>2. \A m \in 1 .. 12 : DaysBeforeMonth(y, m) \in Nat /\ LastDay(y, m) \in 28 .. 31
      BY <3>1, MonthLength
    <3>3. FirstDayOf(y) \in Int
      BY <3>1, YearLength
    <3> QED BY <1>3, <3>2, <3>3 DEF y
  <2>3. \A x : DayNumber(x) = FirstDayOf(x.y) + DaysBeforeMonth(x.y, x.m) + x.d - 1
    BY DEF DayNumber
  <2>4. /\ d = FirstDayOf(a.y) + DaysBeforeMonth(a.y, a.m) + a.d - 1
        /\ e = FirstDayOf(b.y) + DaysBeforeMonth(b.y, b.m) + b.d - 1
    BY <1>1, <2>3
  <2> QED BY <1>3, <2>1, <2>2, <2>4
<1>6. 12 * a.y + a.m <= 12 * b.y + b.m /\ a.y <= b.y
  BY <1>3, <1>4, <1>5
<1> QED BY <1>2, <1>3, <1>6 DEF a, b

-----------------------------------------------------------------------------
(* The day that a rule names in a month.                                   *)

NamesDay(rule, day, clamped, i) ==
    \A d : d \in DaysOfMonth(rule, i \div 12, (i % 12) + 1) <=> IsInMonth(day, clamped, i, d)

\* From the number of the day to the day.
LEMMA DayNamed ==
    ASSUME NEW rule, NEW day \in 1 .. 31, NEW clamped \in BOOLEAN, NEW i \in Int,
           NEW days,
           LET last == LastDay(i \div 12, (i % 12) + 1)
               named == {d \in 1 .. last : d \in rule.days \/ d - last - 1 \in rule.days}
           IN  /\ days = IF rule.latest /\ named # {} THEN {Max(named)} ELSE named
               /\ \A d : d \in days <=> /\ clamped \/ day <= last
                                        /\ d = IF clamped /\ last < day THEN last ELSE day
    PROVE  NamesDay(rule, day, clamped, i)
<1> DEFINE y == i \div 12
           m == (i % 12) + 1
           last == LastDay(y, m)
           date == DayOfMonth(day, i, clamped)
           e == IF clamped /\ last < day THEN last ELSE day
<1>1. y \in Int /\ m \in 1 .. 12
  BY MonthParts
<1>2. last \in 28 .. 31
  BY LastDayType
<1>3. /\ date = [y |-> y, m |-> m, d |-> IF clamped THEN AtMost(day, y, m) ELSE day]
      /\ Exists(date) <=> clamped \/ day <= last
  <2>1. date = [y |-> y, m |-> m, d |-> IF clamped THEN AtMost(day, y, m) ELSE day]
    BY DEF DayOfMonth
  <2>2. /\ date.y = y /\ date.m = m
        /\ clamped \/ day <= LastDay(date.y, date.m) <=> Exists(date)
    BY DayOfMonthType
  <2> HIDE DEF date
  <2>3. Exists(date) <=> clamped \/ day <= LastDay(y, m)
    BY <2>2
  <2> QED BY <2>1, <2>3
<1>4. e = IF clamped THEN AtMost(day, y, m) ELSE day
  BY <1>2 DEF AtMost
<1>5. \A d : d \in days <=> (clamped \/ day <= last) /\ d = e
  OBVIOUS
<1>6. DaysOfMonth(rule, y, m) = {DayNumber([y |-> y, m |-> m, d |-> d]) : d \in days}
  BY DEF DaysOfMonth
<1>7. date = [y |-> y, m |-> m, d |-> e]
  BY <1>3, <1>4
<1> HIDE DEF y, m, last, e, date
<1>8. \A d : d \in DaysOfMonth(rule, y, m)
               <=> (clamped \/ day <= last) /\ d = DayNumber([y |-> y, m |-> m, d |-> e])
  BY <1>5, <1>6
<1>9. \A d : d \in DaysOfMonth(rule, y, m) <=> Exists(date) /\ d = DayNumber(date)
  BY <1>3, <1>7, <1>8
<1> QED BY <1>9 DEF NamesDay, IsInMonth, date, y, m

LEMMA NamesOneDay ==
    ASSUME NEW rule, NEW day \in 1 .. 31, rule.days = {day}, rule.latest = FALSE, NEW i \in Int
    PROVE  /\ NamesDay(rule, day, FALSE, i)
           /\ day <= LastDay(i \div 12, (i % 12) + 1) => NamesDay(rule, day, TRUE, i)
<1> DEFINE last == LastDay(i \div 12, (i % 12) + 1)
           named == {d \in 1 .. last : d \in rule.days \/ d - last - 1 \in rule.days}
           days == IF rule.latest /\ named # {} THEN {Max(named)} ELSE named
<1>1. last \in 28 .. 31
  BY LastDayType
<1>2. days = named
  OBVIOUS
<1>3. \A d : d \in named <=> day <= last /\ d = day
  <2> HIDE DEF last
  <2> QED BY <1>1
<1> HIDE DEF last, named, days
<1>4. \A d : d \in days <=> (FALSE \/ day <= last) /\ d = IF FALSE /\ last < day THEN last ELSE day
  BY <1>2, <1>3
<1>5. NamesDay(rule, day, FALSE, i)
  <2>1. /\ days = IF rule.latest /\ named # {} THEN {Max(named)} ELSE named
        /\ named = {d \in 1 .. last : d \in rule.days \/ d - last - 1 \in rule.days}
    BY DEF days, named
  <2>2. FALSE \in BOOLEAN
    OBVIOUS
  <2> QED BY <1>4, <2>1, <2>2, DayNamed DEF last
<1>6. ASSUME day <= last
      PROVE  NamesDay(rule, day, TRUE, i)
  <2>1. /\ days = IF rule.latest /\ named # {} THEN {Max(named)} ELSE named
        /\ named = {d \in 1 .. last : d \in rule.days \/ d - last - 1 \in rule.days}
    BY DEF days, named
  <2>2. ~(last < day)
    BY <1>1, <1>6
  <2>3. \A d : d \in days <=> (TRUE \/ day <= last) /\ d = IF TRUE /\ last < day THEN last ELSE day
    BY <1>2, <1>3, <1>6, <2>2
  <2>4. TRUE \in BOOLEAN
    OBVIOUS
  <2> QED BY <2>1, <2>3, <2>4, DayNamed DEF last
<1> QED BY <1>5, <1>6 DEF last

LEMMA NamesLast ==
    ASSUME NEW rule, NEW day \in 1 .. 31, rule.days = {-1}, rule.latest = FALSE, NEW i \in Int,
           LastDay(i \div 12, (i % 12) + 1) <= day
    PROVE  NamesDay(rule, day, TRUE, i)
<1> DEFINE last == LastDay(i \div 12, (i % 12) + 1)
           named == {d \in 1 .. last : d \in rule.days \/ d - last - 1 \in rule.days}
           days == IF rule.latest /\ named # {} THEN {Max(named)} ELSE named
<1>1. last \in 28 .. 31 /\ last <= day
  BY LastDayType
<1>2. days = named
  OBVIOUS
<1>3. \A d : d \in named <=> d = last
  <2> HIDE DEF last
  <2> QED BY <1>1
<1> HIDE DEF last, named, days
<1>4. \A d : d \in days <=> (TRUE \/ day <= last) /\ d = IF TRUE /\ last < day THEN last ELSE day
  BY <1>1, <1>2, <1>3
<1>5. /\ days = IF rule.latest /\ named # {} THEN {Max(named)} ELSE named
      /\ named = {d \in 1 .. last : d \in rule.days \/ d - last - 1 \in rule.days}
  BY DEF days, named
<1>6. TRUE \in BOOLEAN
  OBVIOUS
<1> QED BY <1>4, <1>5, <1>6, DayNamed DEF last

LEMMA NamesLatest ==
    ASSUME NEW rule, NEW day \in 29 .. 31, rule.days = 28 .. day, rule.latest = TRUE, NEW i \in Int
    PROVE  NamesDay(rule, day, TRUE, i)
<1> DEFINE last == LastDay(i \div 12, (i % 12) + 1)
           named == {d \in 1 .. last : d \in rule.days \/ d - last - 1 \in rule.days}
           days == IF rule.latest /\ named # {} THEN {Max(named)} ELSE named
           latest == IF last < day THEN last ELSE day
<1>1. last \in 28 .. 31
  BY LastDayType
<1>2. named = 28 .. latest
  <2> HIDE DEF last
  <2> QED BY <1>1
<1>3. latest \in Int /\ 28 <= latest
  BY <1>1
<1>4. named # {} /\ Max(named) = latest
  <2> HIDE DEF last, named, latest
  <2>1. latest \in named /\ \A d \in named : latest >= d
    BY <1>2, <1>3
  <2>2. \A d \in named : (\A x \in named : d >= x) => d = latest
    BY <1>2, <1>3, <2>1
  <2> QED BY <2>1, <2>2 DEF Max
<1>5. days = {latest}
  BY <1>4
<1>6. /\ days = IF rule.latest /\ named # {} THEN {Max(named)} ELSE named
      /\ named = {d \in 1 .. last : d \in rule.days \/ d - last - 1 \in rule.days}
  BY DEF days, named
<1> HIDE DEF named, days
<1>7. \A d : d \in days <=> (TRUE \/ day <= last) /\ d = IF TRUE /\ last < day THEN last ELSE day
  BY <1>5
<1>8. TRUE \in BOOLEAN /\ day \in 1 .. 31
  OBVIOUS
<1> HIDE DEF last
<1> QED BY <1>6, <1>7, <1>8, DayNamed DEF last

-----------------------------------------------------------------------------
(* The days of a schedule, and their order.                                *)

Congruent(a, b, p) == (a - b) % p = 0

LEMMA Multiples ==
    ASSUME NEW p \in Int, 0 < p, NEW a \in Int, NEW b \in Int, NEW c \in Int, Congruent(b, c, p)
    PROVE  Congruent(a, c, p) <=> \E k \in Int : a = b + k * p
<1> USE DEF Congruent
<1> DEFINE q == (b - c) \div p
<1>1. q \in Int /\ b - c = p * q
  <2>1. b - c \in Int
    OBVIOUS
  <2> QED BY <2>1, Division
<1> HIDE DEF q
<1>2. ASSUME (a - c) % p = 0 PROVE \E k \in Int : a = b + k * p
  <2> DEFINE r == (a - c) \div p
  <2>1. r \in Int /\ a - c = p * r
    <3>1. a - c \in Int
      OBVIOUS
    <3> QED BY <1>2, <3>1, Division
  <2> HIDE DEF r
  <2>2. p * r \in Int /\ p * q \in Int
    BY <1>1, <2>1
  <2>3. (r - q) * p = p * r - p * q
    BY <1>1, <2>1
  <2>4. r - q \in Int
    BY <1>1, <2>1
  <2>5. a = b + (p * r - p * q)
    BY <1>1, <2>1, <2>2
  <2> QED BY <2>3, <2>4, <2>5
<1>3. ASSUME NEW k \in Int, a = b + k * p PROVE (a - c) % p = 0
  <2>1. k * p \in Int /\ p * q \in Int /\ q + k \in Int /\ p * (q + k) \in Int
    BY <1>1
  <2>2. p * (q + k) = p * q + k * p
    BY <1>1
  <2>3. a - c = p * (q + k) + 0
    BY <1>1, <1>3, <2>1, <2>2
  <2>4. (p * (q + k) + 0) % p = 0
    <3> DEFINE x == q + k
    <3>1. x \in Int
      BY <2>1
    <3> HIDE DEF x
    <3>2. 0 \in Int /\ 0 <= 0
      OBVIOUS
    <3>3. (p * x + 0) % p = 0
      BY <3>1, <3>2, DivisionUnique
    <3> QED BY <3>3 DEF x
  <2> QED BY <2>3, <2>4
<1> QED BY <1>2, <1>3

LEMMA DivisionInOrder ==
    ASSUME NEW p \in Int, 0 < p, NEW a \in Int, NEW b \in Int, a <= b
    PROVE  a \div p <= b \div p
<1> DEFINE q == a \div p
           r == b \div p
<1>1. /\ q \in Int /\ r \in Int /\ p * q <= a /\ b < p * r + p
      /\ p * q \in Int /\ p * r \in Int
  <2>1. /\ a \div p \in Int /\ a % p \in Int /\ 0 <= a % p
        /\ a = p * (a \div p) + (a % p)
    BY Division
  <2>2. /\ b \div p \in Int /\ b % p \in Int /\ b % p < p
        /\ b = p * (b \div p) + (b % p)
    BY Division
  <2> DEFINE x == a % p
             y == b % p
  <2>3. /\ q \in Int /\ x \in Int /\ 0 <= x /\ a = p * q + x
        /\ r \in Int /\ y \in Int /\ y < p /\ b = p * r + y
    BY <2>1, <2>2
  <2> HIDE DEF q, r, x, y
  <2>4. p * q \in Int /\ p * r \in Int
    BY <2>3
  <2> QED BY <2>3, <2>4
<1> HIDE DEF q, r
<1>2. q <= r
  <2> SUFFICES ASSUME r + 1 <= q PROVE FALSE
    BY <1>1
  <2>1. p * (r + 1) <= p * q
    BY <1>1
  <2>2. p * (r + 1) = p * r + p
    BY <1>1
  <2> QED BY <1>1, <2>1, <2>2
<1> QED BY <1>2 DEF q, r

\* A schedule rings on these days, and on no other.
RingsOnDays(s, days) == \A d : d \in days <=> \E k \in Int : d \in DaysOfPeriod(s, k)

\* Its periods are in the order of their days.
InOrder(s) ==
    /\ \A d, e \in Int : d <= e => PeriodOf(s, d) <= PeriodOf(s, e)
    /\ \A k \in Int : \A d \in DaysOfPeriod(s, k) : PeriodOf(s, d) = k

\* Every n days.
DaysApart(start, n) == {d \in Int : Congruent(d, start, n)}

LEMMA DailyDays ==
    ASSUME NEW s, IsSchedule(s), s.rule.freq = "daily", NEW start \in Int,
           StartDay(s) \in DaysApart(start, s.rule.interval)
    PROVE  RingsOnDays(s, DaysApart(start, s.rule.interval)) /\ InOrder(s)
<1> DEFINE n == s.rule.interval
           first == StartDay(s)
<1>1. n \in Int /\ 0 < n /\ first \in Int /\ Congruent(first, start, n)
  BY RulesOfPeriods DEF DaysApart
<1>2. /\ \A k : DaysOfPeriod(s, k) = {first + k * n}
      /\ \A d : PeriodOf(s, d) = (d - first) \div n
  BY DEF DaysOfPeriod, PeriodOf
<1> HIDE DEF n, first
<1>3. RingsOnDays(s, DaysApart(start, n))
  <2>1. ASSUME NEW d \in Int PROVE Congruent(d, start, n) <=> \E k \in Int : d = first + k * n
    BY <1>1, Multiples
  <2>2. \A k \in Int : first + k * n \in Int
    BY <1>1
  <2>3. \A d : d \in DaysApart(start, n) <=> \E k \in Int : d = first + k * n
    BY <2>1, <2>2 DEF DaysApart
  <2> QED BY <1>2, <2>3 DEF RingsOnDays
<1>4. ASSUME NEW d \in Int, NEW e \in Int, d <= e PROVE PeriodOf(s, d) <= PeriodOf(s, e)
  <2>1. d - first \in Int /\ e - first \in Int /\ d - first <= e - first
    BY <1>1, <1>4
  <2>2. (d - first) \div n <= (e - first) \div n
    BY <1>1, <2>1, DivisionInOrder
  <2> QED BY <1>2, <2>2
<1>5. ASSUME NEW k \in Int PROVE PeriodOf(s, first + k * n) = k
  <2>1. k * n \in Int /\ k * n = n * k + 0 /\ (first + k * n) - first = k * n
    BY <1>1
  <2>2. (n * k + 0) \div n = k
    BY <1>1, DivisionUnique
  <2> QED BY <1>2, <2>1, <2>2
<1>6. InOrder(s)
  BY <1>2, <1>4, <1>5 DEF InOrder
<1> QED BY <1>3, <1>6 DEF n

OnWeekdays(weekdays) == {d \in Int : Weekday(d) \in weekdays}

LEMMA WeeklyDays ==
    ASSUME NEW s, IsSchedule(s), s.rule.freq = "weekly"
    PROVE  RingsOnDays(s, OnWeekdays(s.rule.weekdays)) /\ InOrder(s)
<1> DEFINE first == StartDay(s)
           days == s.rule.weekdays
           Week(k) == first + 7 * k .. first + 7 * k + 6
<1>1. first \in Int
  BY RulesOfPeriods
<1>2. /\ \A k : DaysOfPeriod(s, k) = {d \in Week(k) : Weekday(d) \in days}
      /\ \A d : PeriodOf(s, d) = (d - first) \div 7
  BY DEF DaysOfPeriod, PeriodOf
<1> HIDE DEF first, days
<1>3. \A k, d \in Int : d \in Week(k) <=> (d - first) \div 7 = k
  BY <1>1
<1>4. \A k \in Int : Week(k) \subseteq Int /\ \A d \in Int : (d - first) \div 7 \in Int
  BY <1>1
<1> HIDE DEF Week
<1>5. RingsOnDays(s, OnWeekdays(days))
  BY <1>2, <1>3, <1>4 DEF RingsOnDays, OnWeekdays
<1>6. \A d, e \in Int : d <= e => (d - first) \div 7 <= (e - first) \div 7
  BY <1>1
<1>7. InOrder(s)
  BY <1>2, <1>3, <1>4, <1>6 DEF InOrder
<1> QED BY <1>5, <1>7 DEF days

\* A day of the month, every p months from the month j.
MonthsApart(day, clamped, j, p) ==
    {d \in Int : IsInMonth(day, clamped, MonthIndex(d), d) /\ Congruent(MonthIndex(d), j, p)}

LEMMA InMonthsApart ==
    ASSUME NEW day \in 1 .. 31, NEW clamped \in BOOLEAN, NEW j \in Int, NEW p \in Int, 0 < p,
           NEW i \in Int, Congruent(i, j, p), NEW d
    PROVE  d \in MonthsApart(day, clamped, j, p)
             <=> \E k \in Int : IsInMonth(day, clamped, i + k * p, d)
<1>1. ASSUME d \in MonthsApart(day, clamped, j, p)
      PROVE  \E k \in Int : IsInMonth(day, clamped, i + k * p, d)
  <2>1. d \in Int /\ IsInMonth(day, clamped, MonthIndex(d), d) /\ Congruent(MonthIndex(d), j, p)
    BY <1>1 DEF MonthsApart
  <2>2. MonthIndex(d) \in Int
    BY <2>1, MonthIndexType
  <2> DEFINE x == MonthIndex(d)
  <2>3. x \in Int /\ IsInMonth(day, clamped, x, d) /\ Congruent(x, j, p)
    BY <2>1, <2>2
  <2> HIDE DEF x
  <2>4. \E k \in Int : x = i + k * p
    BY <2>3, Multiples
  <2> QED BY <2>3, <2>4
<1>2. ASSUME NEW k \in Int, IsInMonth(day, clamped, i + k * p, d)
      PROVE  d \in MonthsApart(day, clamped, j, p)
  <2> DEFINE x == i + k * p
  <2>1. x \in Int
    OBVIOUS
  <2>2. Congruent(x, j, p)
    <3>1. \E l \in Int : x = i + l * p
      OBVIOUS
    <3> HIDE DEF x
    <3>2. Congruent(x, j, p) <=> \E l \in Int : x = i + l * p
      BY <2>1, Multiples
    <3> QED BY <3>1, <3>2
  <2>3. IsInMonth(day, clamped, x, d)
    BY <1>2
  <2> HIDE DEF x
  <2>4. d \in Int /\ MonthIndex(d) = x
    <3>1. IsInMonth(day, clamped, x, d) => d \in Int /\ MonthIndex(d) = x
      BY <2>1, InMonth
    <3> QED BY <2>3, <3>1
  <2> QED BY <2>2, <2>3, <2>4 DEF MonthsApart
<1> QED BY <1>1, <1>2

LEMMA MonthlyDays ==
    ASSUME NEW s, IsSchedule(s), s.rule.freq = "monthly",
           NEW day \in 1 .. 31, NEW clamped \in BOOLEAN, NEW j \in Int,
           \A i \in Int : NamesDay(s.rule, day, clamped, i),
           Congruent(MonthIndex(StartDay(s)), j, s.rule.interval)
    PROVE  RingsOnDays(s, MonthsApart(day, clamped, j, s.rule.interval)) /\ InOrder(s)
<1> DEFINE n == s.rule.interval
           first == MonthIndex(StartDay(s))
           days == MonthsApart(day, clamped, j, n)
<1>1. n \in Int /\ 0 < n /\ first \in Int /\ Congruent(first, j, n)
  BY RulesOfPeriods, MonthIndexType
<1>2. /\ \A k : DaysOfPeriod(s, k)
                  = DaysOfMonth(s.rule, (first + k * n) \div 12, ((first + k * n) % 12) + 1)
      /\ \A d : PeriodOf(s, d) = (MonthIndex(d) - first) \div n
  BY DEF DaysOfPeriod, PeriodOf
<1> HIDE DEF n, first
<1>3. \A k \in Int : first + k * n \in Int
  BY <1>1
<1>4. \A k \in Int : \A d : d \in DaysOfPeriod(s, k) <=> IsInMonth(day, clamped, first + k * n, d)
  BY <1>2, <1>3 DEF NamesDay
<1>5. RingsOnDays(s, days)
  <2>1. \A d : d \in days <=> \E k \in Int : IsInMonth(day, clamped, first + k * n, d)
    BY <1>1, InMonthsApart
  <2> QED BY <1>4, <2>1 DEF RingsOnDays
<1>6. ASSUME NEW d \in Int, NEW e \in Int, d <= e PROVE PeriodOf(s, d) <= PeriodOf(s, e)
  <2> DEFINE x == MonthIndex(d)
             y == MonthIndex(e)
  <2>1. x \in Int /\ y \in Int /\ x <= y
    BY <1>6, MonthsOfDays, MonthIndexType
  <2> HIDE DEF x, y
  <2>2. x - first \in Int /\ y - first \in Int /\ x - first <= y - first
    BY <1>1, <2>1
  <2>3. (x - first) \div n <= (y - first) \div n
    BY <1>1, <2>2, DivisionInOrder
  <2> QED BY <1>2, <2>3 DEF x, y
<1>7. ASSUME NEW k \in Int, NEW d \in DaysOfPeriod(s, k) PROVE PeriodOf(s, d) = k
  <2> DEFINE x == first + k * n
  <2>1. x \in Int /\ IsInMonth(day, clamped, x, d)
    BY <1>3, <1>4, <1>7
  <2>2. x - first = n * k + 0
    BY <1>1
  <2> HIDE DEF x
  <2>3. MonthIndex(d) = x
    BY <2>1, InMonth
  <2>4. (n * k + 0) \div n = k
    BY <1>1, DivisionUnique
  <2> QED BY <1>2, <2>2, <2>3, <2>4
<1>8. InOrder(s)
  BY <1>6, <1>7 DEF InOrder
<1> QED BY <1>5, <1>8 DEF days, n

LEMMA YearlyDays ==
    ASSUME NEW s, IsSchedule(s), s.rule.freq = "yearly",
           NEW day \in 1 .. 31, NEW j \in Int,
           \A i \in Int : (i % 12) + 1 = s.rule.month => NamesDay(s.rule, day, TRUE, i),
           DateOf(StartDay(s)).m = s.rule.month,
           Congruent(MonthIndex(StartDay(s)), j, 12 * s.rule.interval)
    PROVE  RingsOnDays(s, MonthsApart(day, TRUE, j, 12 * s.rule.interval)) /\ InOrder(s)
<1> DEFINE n == s.rule.interval
           p == 12 * n
           m == s.rule.month
           year == DateOf(StartDay(s)).y
           first == MonthIndex(StartDay(s))
           days == MonthsApart(day, TRUE, j, p)
<1>1. n \in Int /\ 0 < n /\ first \in Int /\ year \in Int /\ m \in 1 .. 12 /\ Congruent(first, j, p)
  BY RulesOfPeriods, MonthIndexType
<1>2. /\ \A k : DaysOfPeriod(s, k) = DaysOfMonth(s.rule, year + k * n, m)
      /\ \A d : PeriodOf(s, d) = (DateOf(d).y - year) \div n
  BY DEF DaysOfPeriod, PeriodOf
<1>3. first = 12 * year + m - 1
  BY DEF MonthIndex
<1>4. \A i \in Int : (i % 12) + 1 = m => NamesDay(s.rule, day, TRUE, i)
  OBVIOUS
<1> HIDE DEF n, m, year, first
<1>5. p \in Int /\ 0 < p
  BY <1>1
<1>6. ASSUME NEW k \in Int
      PROVE  /\ first + k * p \in Int /\ year + k * n \in Int
             /\ (first + k * p) \div 12 = year + k * n /\ ((first + k * p) % 12) + 1 = m
  <2> DEFINE y == year + k * n
  <2>1. y \in Int
    BY <1>1
  <2>2. first + k * p = 12 * y + m - 1
    BY <1>1, <1>3
  <2> HIDE DEF y
  <2>3. (12 * y + m - 1) \div 12 = y /\ ((12 * y + m - 1) % 12) + 1 = m /\ 12 * y + m - 1 \in Int
    BY <1>1, <2>1, MonthIndexParts
  <2> QED BY <2>1, <2>2, <2>3 DEF y
<1> HIDE DEF p
<1>7. ASSUME NEW k \in Int, NEW d
      PROVE  d \in DaysOfPeriod(s, k) <=> IsInMonth(day, TRUE, first + k * p, d)
  <2> DEFINE i == first + k * p
  <2>1. i \in Int /\ i \div 12 = year + k * n /\ (i % 12) + 1 = m
    BY <1>6
  <2> HIDE DEF i
  <2>2. NamesDay(s.rule, day, TRUE, i)
    BY <1>4, <2>1
  <2>3. d \in DaysOfMonth(s.rule, year + k * n, m) <=> IsInMonth(day, TRUE, i, d)
    BY <2>1, <2>2 DEF NamesDay
  <2> QED BY <1>2, <2>3 DEF i
<1>8. RingsOnDays(s, days)
  <2>0. TRUE \in BOOLEAN
    OBVIOUS
  <2>1. \A d : d \in days <=> \E k \in Int : IsInMonth(day, TRUE, first + k * p, d)
    BY <1>1, <1>5, <2>0, InMonthsApart
  <2> QED BY <1>7, <2>1 DEF RingsOnDays
<1>9. ASSUME NEW d \in Int, NEW e \in Int, d <= e PROVE PeriodOf(s, d) <= PeriodOf(s, e)
  <2> DEFINE x == DateOf(d).y
             y == DateOf(e).y
  <2>1. x \in Int /\ y \in Int /\ x <= y
    BY <1>9, MonthsOfDays, MonthIndexType
  <2> HIDE DEF x, y
  <2>2. x - year \in Int /\ y - year \in Int /\ x - year <= y - year
    BY <1>1, <2>1
  <2>3. (x - year) \div n <= (y - year) \div n
    BY <1>1, <2>2, DivisionInOrder
  <2> QED BY <1>2, <2>3 DEF x, y
<1>10. ASSUME NEW k \in Int, NEW d \in DaysOfPeriod(s, k) PROVE PeriodOf(s, d) = k
  <2> DEFINE i == first + k * p
             y == year + k * n
  <2>1. i \in Int /\ y \in Int /\ i \div 12 = y
    BY <1>6
  <2>2. y - year = n * k + 0
    BY <1>1
  <2>0. IsInMonth(day, TRUE, i, d)
    BY <1>7, <1>10
  <2> HIDE DEF i, y
  <2>3. DateOf(d).y = y
    <3> DEFINE date == DayOfMonth(day, i, TRUE)
    <3>0. TRUE \in BOOLEAN
      OBVIOUS
    <3>1. date \in Date /\ date.y = i \div 12
      BY <2>1, <3>0, DayOfMonthType
    <3>2. Exists(date) /\ d = DayNumber(date)
      BY <2>0 DEF IsInMonth
    <3> HIDE DEF date
    <3>3. DateOf(d) = date
      BY <3>1, <3>2, MonthIndexOfDate
    <3> QED BY <2>1, <3>1, <3>3
  <2>4. (n * k + 0) \div n = k
    BY <1>1, DivisionUnique
  <2> QED BY <1>2, <2>2, <2>3, <2>4
<1>11. InOrder(s)
  BY <1>9, <1>10 DEF InOrder
<1> QED BY <1>8, <1>11 DEF days, p, n

-----------------------------------------------------------------------------
(* Anchors.  The days on which an anchor is looked for are enough of those *)
(* of the series: whatever they leave out is later than one of them.       *)

LEMMA LeftOutBack ==
    ASSUME NEW z \in Zone, LeftOutHourFollows(z)
    PROVE  BackWithinDay(z)
<1> DEFINE saving == z.summer - z.winter
           rest == (Hour + z.winter) % DayLength
<1>1. saving \in {0, Hour} /\ rest <= 22 * Hour
  BY DEF LeftOutHourFollows
<1>2. 0 <= saving /\ saving <= DayLength /\ rest + saving <= DayLength
  <2> z.winter \in Int
    BY DEF Zone
  <2>1. Hour + z.winter \in Int
    BY DEF Hour
  <2>2. rest \in Int
    BY <2>1, Division DEF DayLength
  <2> HIDE DEF rest, saving
  <2> QED BY <1>1, <2>2 DEF Hour, DayLength
<1> QED BY <1>2 DEF BackWithinDay

\* The first instant after n at which the clock shows its time on one of the days.
Begins(days, clock, start, n, z) ==
    /\ \E d \in days : start \in Resolve(z, At(d, clock))
    /\ start > n
    /\ \A d \in days : \A u \in Resolve(z, At(d, clock)) : u > n => start <= u

Covers(candidates, days, today) ==
    /\ candidates \subseteq days
    /\ \E e \in candidates : today < e
    /\ \A d \in days : today <= d =>
         d \in candidates \/ \E e \in candidates : today < e /\ e < d

LEMMA AnchorFirst ==
    ASSUME zone \in Zone, now \in Int, LeftOutHourFollows(zone), NEW clock, IsMinute(clock),
           NEW days, days \subseteq Int, NEW candidates, Covers(candidates, days, Today),
           NEW fallback
    PROVE  Begins(days, clock, FirstFuture(candidates, clock, fallback), now, zone)
<1> DEFINE S == UNION {AheadOn(d, clock) : d \in candidates}
           start == FirstFuture(candidates, clock, fallback)
<1>1. BackWithinDay(zone) /\ clock \in Int /\ 0 <= clock /\ clock < DayLength
  BY LeftOutBack DEF IsMinute
<1>2. candidates \subseteq days /\ candidates \subseteq Int /\ Today \in Int
  BY TodayType DEF Covers, Today
<1>3. S \subseteq Int /\ \A u \in S : u > now
  BY <1>1, <1>2, AheadOnType
<1>4. S # {}
  <2>1. PICK e \in candidates : Today < e
    BY DEF Covers
  <2>2. At(e, clock) \in Int
    BY <1>1, <1>2, <2>1, PartsOfAt
  <2>3. AheadOn(e, clock) # {}
    BY <1>1, <1>2, <2>1, <2>2, AheadLater, AlwaysResolved
  <2> QED BY <2>1, <2>3
<1>5. start \in S /\ \A u \in S : start <= u
  <2>1. start = Min(S)
    BY <1>4 DEF FirstFuture, FirstOr
  <2> HIDE DEF S, start
  <2> QED BY <1>3, <1>4, <2>1, LeastAfter
<1>6. PICK day \in candidates : start \in AheadOn(day, clock)
  BY <1>5
<1>7. start \in Resolve(zone, At(day, clock)) /\ start > now /\ day \in days /\ start \in Int
  BY <1>2, <1>3, <1>5, <1>6 DEF AheadOn
<1>8. ASSUME NEW d \in days, NEW u \in Resolve(zone, At(d, clock)), u > now
      PROVE  start <= u
  <2>1. d \in Int /\ u \in Int /\ DayOf(Wall(zone, u)) = d
    BY <1>1, <1>8, OnItsDay
  <2>2. Today <= d
    <3>1. DayOf(Wall(zone, u)) < DayOf(Wall(zone, now)) => u < now
      BY <1>1, <2>1, Chronology
    <3> QED BY <1>2, <1>8, <2>1, <3>1 DEF Today
  <2>3. CASE d \in candidates
    <3>1. u \in S
      BY <1>8, <2>3 DEF AheadOn
    <3> QED BY <1>5, <3>1
  <2>4. ASSUME NEW e \in candidates, Today < e, e < d
        PROVE  start <= u
    <3>0. e \in Int /\ At(e, clock) \in Int
      BY <1>1, <1>2, PartsOfAt
    <3>1. PICK v : v \in Resolve(zone, At(e, clock))
      BY <3>0, AlwaysResolved
    <3>2. v \in AheadOn(e, clock)
      BY <1>1, <2>4, <3>0, <3>1, AheadLater
    <3>3. v \in Int /\ DayOf(Wall(zone, v)) = e
      BY <1>1, <3>0, <3>1, OnItsDay
    <3>4. v < u
      BY <1>1, <1>8, <2>1, <2>4, <3>3, LaterDay
    <3>5. start <= v
      BY <1>5, <3>2
    <3> QED BY <1>7, <2>1, <3>3, <3>4, <3>5
  <2> QED BY <2>2, <2>3, <2>4 DEF Covers
<1> HIDE DEF start
<1>9. Begins(days, clock, start, now, zone)
  BY <1>7, <1>8 DEF Begins
<1> QED BY <1>9 DEF start

LEMMA DailyCovers ==
    ASSUME NEW today \in Int, NEW n \in Int, 0 < n
    PROVE  Covers({today, today + n}, DaysApart(today, n), today)
<1>1. Congruent(today, today, n)
  <2>1. (n * 0 + 0) % n = 0
    BY DivisionUnique
  <2>2. today - today = n * 0 + 0
    OBVIOUS
  <2> QED BY <2>1, <2>2 DEF Congruent
<1>2. ASSUME NEW d \in Int PROVE Congruent(d, today, n) <=> \E k \in Int : d = today + k * n
  BY <1>1, Multiples
<1>3. today + n \in Int /\ today < today + n /\ today + n = today + 1 * n
  OBVIOUS
<1>4. {today, today + n} \subseteq DaysApart(today, n)
  <2>1. Congruent(today + n, today, n)
    BY <1>2, <1>3
  <2> QED BY <1>1, <1>3, <2>1 DEF DaysApart
<1>5. ASSUME NEW d \in DaysApart(today, n), today <= d
      PROVE  d \in {today, today + n} \/ (today < today + n /\ today + n < d)
  <2>1. PICK k \in Int : d = today + k * n
    BY <1>2 DEF DaysApart
  <2>2. k * n >= 0
    BY <1>5, <2>1
  <2>3. k >= 0
    BY <2>2
  <2>4. k = 0 \/ k = 1 \/ k * n > n
    BY <2>3
  <2> QED BY <2>1, <2>4
<1> QED BY <1>3, <1>4, <1>5 DEF Covers

LEMMA WeeklyCovers ==
    ASSUME NEW today \in Int, NEW weekdays, NEW w \in 0 .. 6, w \in weekdays
    PROVE  Covers({d \in today .. today + 7 : Weekday(d) \in weekdays}, OnWeekdays(weekdays), today)
<1> DEFINE candidates == {d \in today .. today + 7 : Weekday(d) \in weekdays}
           later == today + 1
           e == later + ((w + 7 - Weekday(later)) % 7)
<1>1. candidates \subseteq OnWeekdays(weekdays)
  BY DEF OnWeekdays
<1>2. ASSUME NEW v \in 0 .. 6
      PROVE  LET day == later + ((v + 7 - Weekday(later)) % 7)
             IN  day \in Int /\ later <= day /\ day < later + 7 /\ Weekday(day) = v
  <2> DEFINE d == 7 * later + v
  <2> QED BY DEF Weekday
<1>3. e \in Int /\ today < e /\ e <= today + 7 /\ Weekday(e) = w
  BY <1>2
<1>4. e \in candidates
  BY <1>3
<1>5. ASSUME NEW d \in OnWeekdays(weekdays), today <= d
      PROVE  d \in candidates \/ e < d
  BY <1>3, <1>5 DEF OnWeekdays
<1> QED BY <1>1, <1>3, <1>4, <1>5 DEF Covers

LEMMA MonthsCover ==
    ASSUME NEW day \in 1 .. 31, NEW clamped \in BOOLEAN, NEW i \in Int, NEW p \in Int, 0 < p,
           NEW today \in Int, i - p < MonthIndex(today), MonthIndex(today) < i + p,
           NEW top \in Nat, 4 <= top,
           NEW candidates,
           \A d : d \in candidates <=> \E k \in 0 .. top : IsInMonth(day, clamped, i + k * p, d),
           \E k \in 1 .. 3 : Exists(DayOfMonth(day, i + k * p, clamped))
    PROVE  Covers(candidates, MonthsApart(day, clamped, i, p), today)
<1> DEFINE days == MonthsApart(day, clamped, i, p)
           month == MonthIndex(today)
<1>0. month \in Int
  BY MonthIndexType
<1>1. Congruent(i, i, p)
  <2>1. (p * 0 + 0) % p = 0
    BY DivisionUnique
  <2>2. i - i = p * 0 + 0
    OBVIOUS
  <2> QED BY <2>1, <2>2 DEF Congruent
<1>2. ASSUME NEW d PROVE d \in days <=> \E k \in Int : IsInMonth(day, clamped, i + k * p, d)
  BY <1>1, InMonthsApart
<1>3. ASSUME NEW k \in Int, NEW d, IsInMonth(day, clamped, i + k * p, d)
      PROVE  d \in Int /\ MonthIndex(d) = i + k * p
  <2>1. i + k * p \in Int
    OBVIOUS
  <2> QED BY <1>3, <2>1, InMonth
<1>4. PICK j \in 1 .. 3 : Exists(DayOfMonth(day, i + j * p, clamped))
  OBVIOUS
<1> DEFINE e == DayNumber(DayOfMonth(day, i + j * p, clamped))
<1>5. IsInMonth(day, clamped, i + j * p, e)
  BY <1>4 DEF IsInMonth
<1> HIDE DEF e, days
<1>6. e \in candidates /\ e \in Int /\ MonthIndex(e) = i + j * p
  BY <1>3, <1>5
<1>7. j * p >= p
  OBVIOUS
<1>8. ASSUME NEW a \in Int, NEW b \in Int, MonthIndex(a) < MonthIndex(b) PROVE a < b
  <2>1. b <= a => MonthIndex(b) <= MonthIndex(a)
    BY MonthsOfDays
  <2>2. MonthIndex(a) \in Int /\ MonthIndex(b) \in Int
    BY MonthIndexType
  <2> QED BY <1>8, <2>1, <2>2
<1>9. today < e
  BY <1>0, <1>6, <1>7, <1>8
<1>10. ASSUME NEW d \in candidates PROVE d \in days
  <2>1. PICK k \in 0 .. top : IsInMonth(day, clamped, i + k * p, d)
    OBVIOUS
  <2>2. k \in Int
    OBVIOUS
  <2> QED BY <1>2, <2>1, <2>2
<1>11. ASSUME NEW d \in days, today <= d
       PROVE  d \in candidates \/ e < d
  <2>1. PICK k \in Int : IsInMonth(day, clamped, i + k * p, d)
    BY <1>2
  <2>2. d \in Int /\ MonthIndex(d) = i + k * p
    BY <1>3, <2>1
  <2>3. month <= i + k * p
    BY <1>11, <2>2, MonthsOfDays
  <2>4. k >= 0
    <3> DEFINE q == k * p
    <3>1. q \in Int
      OBVIOUS
    <3>2. k < 0 => q <= 0 - p
      OBVIOUS
    <3>3. month <= i + q
      BY <2>3
    <3> HIDE DEF q, month
    <3>4. i - p < month
      BY DEF month
    <3> QED BY <1>0, <3>1, <3>2, <3>3, <3>4
  <2>5. CASE k <= top
    <3>1. k \in 0 .. top
      BY <2>4, <2>5
    <3> QED BY <2>1, <3>1, Zenon
  <2>6. CASE top < k
    <3>0. j \in Int /\ j < k
      BY <2>6
    <3>1. j * p < k * p
      BY ONLY <3>0, p \in Int, k \in Int, 0 < p
    <3>2. MonthIndex(e) < MonthIndex(d)
      BY <1>6, <2>2, <3>1
    <3> QED BY <1>6, <1>8, <2>2, <3>2
  <2> QED BY <2>5, <2>6
<1> QED BY <1>6, <1>9, <1>10, <1>11 DEF Covers, days

LEMMA DailyBegins ==
    ASSUME zone \in Zone, now \in Int, LeftOutHourFollows(zone), NEW clock, IsMinute(clock),
           NEW n \in Int, 0 < n
    PROVE  Begins(DaysApart(Today, n), clock, DailyAnchor(n, clock), now, zone)
<1> DEFINE days == DaysApart(Today, n)
           candidates == {Today, Today + n}
<1>1. Today \in Int
  BY TodayType DEF Today
<1>2. days \subseteq Int
  BY DEF DaysApart
<1>3. Covers(candidates, days, Today)
  BY <1>1, DailyCovers
<1> HIDE DEF days, candidates
<1>4. \A fallback : Begins(days, clock, FirstFuture(candidates, clock, fallback), now, zone)
  BY <1>2, <1>3, AnchorFirst
<1> QED BY <1>4 DEF DailyAnchor, candidates, days

LEMMA WeeklyBegins ==
    ASSUME zone \in Zone, now \in Int, LeftOutHourFollows(zone), NEW clock, IsMinute(clock),
           NEW weekdays \in SUBSET (0 .. 6), weekdays # {}
    PROVE  Begins(OnWeekdays(weekdays), clock, WeeklyAnchor(weekdays, clock), now, zone)
<1> DEFINE days == OnWeekdays(weekdays)
           candidates == {d \in Today .. Today + 7 : Weekday(d) \in weekdays}
<1>1. Today \in Int
  BY TodayType DEF Today
<1>2. days \subseteq Int
  BY DEF OnWeekdays
<1>3. PICK w \in 0 .. 6 : w \in weekdays
  OBVIOUS
<1>4. Covers(candidates, days, Today)
  BY <1>1, <1>3, WeeklyCovers
<1> HIDE DEF days, candidates
<1>5. \A fallback : Begins(days, clock, FirstFuture(candidates, clock, fallback), now, zone)
  BY <1>2, <1>4, AnchorFirst
<1> QED BY <1>5 DEF WeeklyAnchor, candidates, days

\* No two months that follow each other lack the 30th.
LEMMA ThirtiethComes ==
    ASSUME NEW day \in 1 .. 31, day <= 30, NEW i \in Int
    PROVE  \E k \in 1 .. 3 : Exists(DayOfMonth(day, i + k * 1, FALSE))
<1>1. ASSUME NEW k \in 1 .. 3, ((i + k) % 12) + 1 # 2
      PROVE  Exists(DayOfMonth(day, i + k * 1, FALSE))
  <2> DEFINE month == i + k
             date == DayOfMonth(day, month, FALSE)
  <2>1. month \in Int /\ FALSE \in BOOLEAN /\ i + k * 1 = month
    OBVIOUS
  <2>2. (month % 12) + 1 # 2
    BY <1>1
  <2> HIDE DEF month
  <2>3. date.m = (month % 12) + 1 /\ (day <= LastDay(date.y, date.m) => Exists(date))
    BY <2>1, DayOfMonthType
  <2>4. LastDay(date.y, date.m) \in {30, 31}
    BY <2>2, <2>3 DEF LastDay
  <2> HIDE DEF date
  <2>5. Exists(date)
    BY <2>3, <2>4
  <2> QED BY <2>1, <2>5 DEF date
<1>2. ((i + 1) % 12) + 1 # 2 \/ ((i + 2) % 12) + 1 # 2
  OBVIOUS
<1>3. 1 \in 1 .. 3 /\ 2 \in 1 .. 3
  OBVIOUS
<1> QED BY <1>1, <1>2, <1>3

\* A day that is clamped to its month always exists.
LEMMA ClampedExists ==
    ASSUME NEW day \in 1 .. 31, NEW i \in Int
    PROVE  Exists(DayOfMonth(day, i, TRUE))
<1>1. TRUE \in BOOLEAN
  OBVIOUS
<1> QED BY <1>1, DayOfMonthType

LEMMA MonthsBegins ==
    ASSUME zone \in Zone, now \in Int, LeftOutHourFollows(zone), NEW clock, IsMinute(clock),
           NEW day \in 1 .. 31, NEW clamped \in BOOLEAN, NEW n \in Int, 0 < n,
           clamped \/ (n = 1 /\ day <= 30)
    PROVE  Begins(MonthsApart(day, clamped, ThisMonth, n), clock,
                  MonthsAnchor(n, day, clamped, clock), now, zone)
<1> DEFINE days == MonthsApart(day, clamped, ThisMonth, n)
           dates == {DayOfMonth(day, ThisMonth + n * k, clamped) : k \in 0 .. 13}
           candidates == {DayNumber(d) : d \in {e \in dates : Exists(e)}}
<1>1. Today \in Int /\ ThisMonth = MonthIndex(Today) /\ ThisMonth \in Int
  BY TodayType, MonthIndexType DEF Today, ThisMonth, MonthOf, MonthIndex
<1>2. days \subseteq Int
  BY DEF MonthsApart
<1>3. ASSUME NEW d
      PROVE  d \in candidates <=> \E k \in 0 .. 13 : IsInMonth(day, clamped, ThisMonth + k * n, d)
  <2>1. \A k \in 0 .. 13 : ThisMonth + n * k = ThisMonth + k * n
    BY <1>1
  <2>2. d \in candidates
          <=> \E k \in 0 .. 13 : IsInMonth(day, clamped, ThisMonth + n * k, d)
    BY DEF IsInMonth
  <2> HIDE DEF candidates
  <2> QED BY <2>1, <2>2
<1>4. \E k \in 1 .. 3 : Exists(DayOfMonth(day, ThisMonth + k * n, clamped))
  <2>1. CASE clamped
    <3>1. ThisMonth + 1 * n \in Int /\ 1 \in 1 .. 3 /\ clamped = TRUE
      BY <1>1, <2>1
    <3>2. Exists(DayOfMonth(day, ThisMonth + 1 * n, clamped))
      BY <3>1, ClampedExists
    <3> QED BY <3>1, <3>2, Zenon
  <2>2. CASE ~clamped
    <3>1. clamped = FALSE /\ n = 1 /\ day <= 30
      BY <2>2
    <3> QED BY <1>1, <3>1, ThirtiethComes
  <2> QED BY <2>1, <2>2
<1> HIDE DEF candidates
<1>5. Covers(candidates, days, Today)
  <2>1. ThisMonth - n < MonthIndex(Today) /\ MonthIndex(Today) < ThisMonth + n
    BY <1>1
  <2>2. 13 \in Nat /\ 4 <= 13
    OBVIOUS
  <2> QED BY <1>1, <1>3, <1>4, <2>1, <2>2, MonthsCover
<1> HIDE DEF days
<1>6. \A fallback : Begins(days, clock, FirstFuture(candidates, clock, fallback), now, zone)
  BY <1>2, <1>5, AnchorFirst
<1> QED BY <1>6 DEF MonthsAnchor, candidates, days

\* The month of this year, counted like the months of days.
ThisYears(month) == 12 * YearOf(Today) + month - 1

LEMMA YearlyBegins ==
    ASSUME zone \in Zone, now \in Int, LeftOutHourFollows(zone), NEW clock, IsMinute(clock),
           NEW month \in 1 .. 12, NEW day \in 1 .. 31, NEW n \in Int, 0 < n
    PROVE  Begins(MonthsApart(day, TRUE, ThisYears(month), 12 * n), clock,
                  YearlyAnchor(month, day, n, clock), now, zone)
<1> DEFINE i == ThisYears(month)
           p == 12 * n
           year == YearOf(Today)
           days == MonthsApart(day, TRUE, i, p)
           candidates == {DayOfYear(year + n * k, month, day) : k \in 0 .. 4}
<1>0. TRUE \in BOOLEAN
  OBVIOUS
<1>1. Today \in Int /\ year \in Int /\ i \in Int /\ p \in Int /\ 0 < p
  BY TodayType DEF Today, ThisYears
<1>2. i - p < MonthIndex(Today) /\ MonthIndex(Today) < i + p
  <2>1. /\ MonthIndex(Today) = 12 * year + DateOf(Today).m - 1
        /\ DateOf(Today).m \in 1 .. 12
    <3>1. Exists(DateOf(Today)) /\ DateOf(Today).y = year
      BY <1>1, DateOfDay, YearFound, DateInYear DEF DateOf, DateIn
    <3> QED BY <3>1 DEF Exists, MonthIndex
  <2> QED BY <1>1, <2>1 DEF ThisYears
<1>3. days \subseteq Int
  BY DEF MonthsApart
<1>4. ASSUME NEW k \in 0 .. 4
      PROVE  /\ Exists(DayOfMonth(day, i + k * p, TRUE))
             /\ DayOfYear(year + n * k, month, day) = DayNumber(DayOfMonth(day, i + k * p, TRUE))
  <2> DEFINE y == year + n * k
             x == 12 * y + month - 1
  <2>1. y \in Int
    BY <1>1
  <2>2. i + k * p = x
    BY <1>1 DEF ThisYears
  <2> HIDE DEF y
  <2>3. x \in Int /\ x \div 12 = y /\ (x % 12) + 1 = month
    BY <2>1, MonthIndexParts
  <2> HIDE DEF x
  <2>4. DayOfYear(y, month, day) = DayNumber(DayOfMonth(day, x, TRUE))
    BY <2>3 DEF DayOfYear, DayOfMonth
  <2>5. Exists(DayOfMonth(day, x, TRUE))
    BY <2>3, ClampedExists
  <2> QED BY <2>2, <2>4, <2>5 DEF y
<1>5. ASSUME NEW d
      PROVE  d \in candidates <=> \E k \in 0 .. 4 : IsInMonth(day, TRUE, i + k * p, d)
  BY <1>4 DEF IsInMonth
<1>6. \E k \in 1 .. 3 : Exists(DayOfMonth(day, i + k * p, TRUE))
  <2>1. 1 \in 0 .. 4 /\ 1 \in 1 .. 3
    OBVIOUS
  <2> QED BY <1>4, <2>1
<1> HIDE DEF candidates, i, p
<1>7. Covers(candidates, days, Today)
  <2>1. 4 \in Nat /\ 4 <= 4
    OBVIOUS
  <2> QED BY <1>0, <1>1, <1>2, <1>5, <1>6, <2>1, MonthsCover
<1> HIDE DEF days
<1>8. \A fallback : Begins(days, clock, FirstFuture(candidates, clock, fallback), now, zone)
  BY <1>3, <1>7, AnchorFirst
<1> QED BY <1>8 DEF YearlyAnchor, candidates, days, i, p

-----------------------------------------------------------------------------
(* From one occurrence to the next.                                        *)

\* A schedule of the clock on these days.
Fits(s, days, clock, z) ==
    /\ IsSchedule(s) /\ s.rule.freq # "seconds"
    /\ s.zone = z /\ s.rule.clock = clock /\ s.start % 60 = 0
    /\ RingsOnDays(s, days) /\ InOrder(s)

\* An instant of the clock on one of the days, and the next that the clock shows.
Nearest(days, clock, u, n, z) ==
    /\ u > n
    /\ \E d \in days : u \in Resolve(z, At(d, clock))
    /\ \A d \in days :
         /\ DayOf(Wall(z, n)) <= d /\ d <= DayOf(Wall(z, u))
         /\ Readings(z, At(d, clock)) # {} /\ Min(Readings(z, At(d, clock))) > n
         => u <= Min(Readings(z, At(d, clock)))

LEMMA BeginsNearest ==
    ASSUME NEW z \in Zone, LeftOutHourFollows(z), NEW days, days \subseteq Int, NEW clock \in Int,
           NEW start, NEW n \in Int, Begins(days, clock, start, n, z)
    PROVE  Nearest(days, clock, start, n, z)
<1>1. ASSUME NEW d \in days, Readings(z, At(d, clock)) # {},
             Min(Readings(z, At(d, clock))) > n
      PROVE  start <= Min(Readings(z, At(d, clock)))
  <2>1. At(d, clock) \in Int
    BY ResolveType
  <2>2. Resolve(z, At(d, clock)) = {Min(Readings(z, At(d, clock)))}
    BY <1>1, <2>1, AlwaysResolved
  <2> QED BY <1>1, <2>2 DEF Begins
<1> QED BY <1>1 DEF Begins, Nearest

LEMMA NextNearest ==
    ASSUME NEW z \in Zone, LeftOutHourFollows(z), NEW days, days \subseteq Int,
           NEW clock, IsMinute(clock), NEW s, Fits(s, days, clock, z),
           NEW n \in Int, s.start <= n, NEW policy, NextAfter(s, n, policy) # {}
    PROVE  Nearest(days, clock, The(NextAfter(s, n, policy)), n, z)
<1> DEFINE today == DayOf(Wall(z, n))
           first == PeriodOf(s, today)
           near == UNION {DaysOfPeriod(s, first + k) : k \in Ahead}
           slots == {u \in UNION {SlotInstants(policy, z, At(d, clock)) : d \in near} : u >= s.start}
           later == {u \in slots : u > n}
           next == The(NextAfter(s, n, policy))
<1>1. /\ IsSchedule(s) /\ s.rule.freq # "seconds" /\ s.rule.freq # "once"
      /\ s.zone = z /\ s.rule.clock + (s.start % 60) = clock /\ s.start \in Int
      /\ clock \in Int /\ 0 <= clock /\ clock < DayLength
  <2>1. IsSchedule(s) /\ clock + 0 = clock
    BY DEF Fits, IsMinute
  <2>2. s.rule.freq # "once" /\ s.start \in Int
    BY <2>1, Recurs DEF IsSchedule, IsRule
  <2>3. s.rule.clock = clock /\ s.start % 60 = 0 /\ s.rule.freq # "seconds" /\ s.zone = z
    BY DEF Fits
  <2>4. clock \in Int /\ 0 <= clock /\ clock < DayLength
    BY DEF IsMinute
  <2> QED BY <2>1, <2>2, <2>3, <2>4
<1>2. Slots(s, n, policy) = slots
  BY <1>1 DEF Slots, SlotsAhead
<1>3. NextAfter(s, n, policy) = IF later = {} THEN {} ELSE {Min(later)}
  BY <1>1, <1>2 DEF NextAfter, IsRecurring
<1>4. later # {} /\ next = Min(later)
  <2> DEFINE least == Min(later)
             found == NextAfter(s, n, policy)
  <2>1. found # {} /\ found = IF later = {} THEN {} ELSE {least}
    BY <1>3
  <2> HIDE DEF found, later, least
  <2>2. later # {} /\ found = {least}
    BY <2>1
  <2>3. The(found) = least
    BY <2>2 DEF The
  <2> QED BY <2>2, <2>3 DEF found, least
<1>5. slots \subseteq Int
  BY <1>1, <1>2, SlotsType
<1>6. next \in later /\ \A u \in later : next <= u
  <2>1. later \subseteq Int /\ \A u \in later : u > n
    BY <1>5
  <2> HIDE DEF later, next
  <2> QED BY <1>4, <2>1, LeastAfter
<1>7. today \in Int /\ first \in Int
  BY <1>1, TodayType, PeriodType
<1>0. PICK k \in Ahead : \E d \in DaysOfPeriod(s, first + k) :
        next \in SlotInstants(policy, z, At(d, clock))
  BY <1>6
<1>8. PICK day \in DaysOfPeriod(s, first + k) :
        next \in SlotInstants(policy, z, At(day, clock))
  BY <1>0
<1>9. k \in Int /\ k <= 3 /\ first + k \in Int
  BY <1>7 DEF Ahead
<1>10. day \in days /\ day \in Int /\ At(day, clock) \in Int
  <2>1. day \in days
    BY <1>8, <1>9 DEF Fits, RingsOnDays
  <2> QED BY <1>1, <2>1, PartsOfAt
<1>11. next \in Resolve(z, At(day, clock)) /\ next \in Int /\ next > n
       /\ DayOf(Wall(z, next)) = day
  <2>1. next \in Resolve(z, At(day, clock))
    BY <1>8, <1>10, SlotsResolved
  <2> HIDE DEF next
  <2>2. next \in Int /\ DayOf(Wall(z, next)) = day
    BY <1>1, <1>10, <2>1, OnItsDay
  <2>3. next > n
    BY <1>6
  <2> QED BY <2>1, <2>2, <2>3
<1>12. ASSUME NEW d \in days, today <= d, d <= day,
              Readings(z, At(d, clock)) # {}, Min(Readings(z, At(d, clock))) > n
       PROVE  next <= Min(Readings(z, At(d, clock)))
  <2> DEFINE v == Min(Readings(z, At(d, clock)))
  <2>1. d \in Int /\ At(d, clock) \in Int
    BY <1>1, PartsOfAt
  <2>2. PICK j \in Int : d \in DaysOfPeriod(s, j)
    BY DEF Fits, RingsOnDays
  <2>3. first <= j /\ j <= first + k
    <3>1. PeriodOf(s, d) = j /\ PeriodOf(s, day) = first + k
      BY <1>8, <1>9, <2>2 DEF Fits, InOrder
    <3>2. first <= PeriodOf(s, d) /\ PeriodOf(s, d) <= PeriodOf(s, day)
      BY <1>7, <1>10, <1>12, <2>1 DEF Fits, InOrder
    <3> QED BY <3>1, <3>2
  <2>4. j - first \in Ahead /\ first + (j - first) = j
    BY <1>7, <1>9, <2>3 DEF Ahead
  <2>5. d \in near
    BY <2>2, <2>4
  <2>6. v \in SlotInstants(policy, z, At(d, clock))
    BY <1>12 DEF SlotInstants
  <2>7. v \in Int /\ v > n
    BY <1>12, <2>1, EarlierReading, ReadingsType
  <2> HIDE DEF v
  <2>8. v >= s.start
    BY <1>1, <2>7
  <2>9. v \in later
    BY <2>5, <2>6, <2>7, <2>8
  <2> QED BY <1>6, <2>9 DEF v
<1> HIDE DEF next, today
<1>13. Nearest(days, clock, next, n, z)
  BY <1>10, <1>11, <1>12 DEF Nearest, today
<1> QED BY <1>13 DEF next

-----------------------------------------------------------------------------
(* The rules that are made of a command keep to its days and its clock.    *)

LEMMA BeginsOnDay ==
    ASSUME NEW z \in Zone, LeftOutHourFollows(z), NEW days, days \subseteq Int,
           NEW clock, IsMinute(clock), NEW start, NEW n, Begins(days, clock, start, n, z)
    PROVE  start \in Int /\ start % 60 = 0 /\ DayOf(Wall(z, start)) \in days
<1>1. PICK d \in days : start \in Resolve(z, At(d, clock))
  BY DEF Begins
<1>2. d \in Int
  OBVIOUS
<1> QED BY <1>1, <1>2, ResolvedOnClock

\* What is left to show of a schedule that begins on one of its days.
FitsIfOn(s, days) == StartDay(s) \in days => RingsOnDays(s, days) /\ InOrder(s)

LEMMA MadeFits ==
    ASSUME zone \in Zone, LeftOutHourFollows(zone), NEW days, days \subseteq Int,
           NEW clock, IsMinute(clock), NEW start, Begins(days, clock, start, now, zone),
           NEW rule, IsRule(rule), rule.clock = clock, rule.freq # "seconds",
           IsSchedule(Schedule(start, zone, rule)) => FitsIfOn(Schedule(start, zone, rule), days)
    PROVE  Fits(Schedule(start, zone, rule), days, clock, zone)
<1> DEFINE s == Schedule(start, zone, rule)
<1>1. s.start = start /\ s.zone = zone /\ s.rule = rule
  BY DEF Schedule
<1>2. start \in Int /\ start % 60 = 0 /\ StartDay(s) \in days
  BY <1>1, BeginsOnDay DEF StartDay
<1> HIDE DEF s
<1>3. IsSchedule(s)
  BY <1>1, <1>2 DEF IsSchedule
<1>4. FitsIfOn(s, days)
  BY <1>3 DEF s
<1>5. Fits(s, days, clock, zone)
  BY <1>1, <1>2, <1>3, <1>4 DEF Fits, FitsIfOn
<1> QED BY <1>5 DEF s

\* A strategy has made such a schedule; if it can ring on a day of the month that
\* is none of these, there is a note.
Keeps(found, days, clock, next, dates) ==
    \E start, rule, notes :
        /\ Fits(Schedule(start, zone, rule), days, clock, zone)
        /\ Begins(days, clock, start, now, zone)
        /\ notes # {} \/ \A d \in days : DateOf(d).d \in dates
        /\ found = {[error |-> None, schedule |-> {Schedule(start, zone, rule)},
                     notes |-> notes, next |-> next]}

LEMMA DatesOfDays ==
    ASSUME NEW days, days \subseteq Int
    PROVE  \A d \in days : DateOf(d).d \in Int
<1> QED BY DateOfDay DEF Date

LEMMA DaysKept ==
    ASSUME zone \in Zone, now \in Int, LeftOutHourFollows(zone), NEW clock, IsMinute(clock),
           NEW n \in 1 .. MaxInterval, NEW next
    PROVE  Keeps(Make(DailyAnchor(n, clock), DailyAt(n, clock), {}, next),
                 DaysApart(Today, n), clock, next, Int)
<1> DEFINE days == DaysApart(Today, n)
           rule == DailyAt(n, clock)
           start == DailyAnchor(n, clock)
           s == Schedule(start, zone, rule)
<1>1. days \subseteq Int /\ n \in Int /\ 0 < n /\ Today \in Int /\ clock \in Int
  BY TodayType DEF DaysApart, IsMinute, Today
<1>2. Begins(days, clock, start, now, zone)
  BY <1>1, DailyBegins
<1>3. IsRule(rule) /\ rule.freq = "daily" /\ rule.interval = n /\ rule.clock = clock
  <2>1. IsRule(rule)
    BY <1>1, RuleForms
  <2> QED BY <2>1 DEF DailyAt, AnyRule
<1>4. s.rule = rule
  BY DEF Schedule
<1>5. IsSchedule(s) => FitsIfOn(s, days)
  <2> HIDE DEF s, rule
  <2> QED BY <1>1, <1>3, <1>4, DailyDays DEF FitsIfOn
<1> HIDE DEF days, rule, start
<1>6. Fits(s, days, clock, zone)
  BY <1>1, <1>2, <1>3, <1>5, MadeFits
<1>7. \A d \in days : DateOf(d).d \in Int
  BY <1>1, DatesOfDays
<1> QED BY <1>2, <1>6, <1>7 DEF Keeps, Make, days, rule, start

LEMMA WeekdaysKept ==
    ASSUME zone \in Zone, now \in Int, LeftOutHourFollows(zone), NEW clock, IsMinute(clock),
           NEW weekdays \in SUBSET (0 .. 6), weekdays # {}, NEW next
    PROVE  Keeps(Make(WeeklyAnchor(weekdays, clock), Weekly(weekdays, clock), {}, next),
                 OnWeekdays(weekdays), clock, next, Int)
<1> DEFINE days == OnWeekdays(weekdays)
           rule == Weekly(weekdays, clock)
           start == WeeklyAnchor(weekdays, clock)
           s == Schedule(start, zone, rule)
<1>1. days \subseteq Int /\ clock \in Int
  BY DEF OnWeekdays, IsMinute
<1>2. Begins(days, clock, start, now, zone)
  BY WeeklyBegins
<1>3. IsRule(rule) /\ rule.freq = "weekly" /\ rule.weekdays = weekdays /\ rule.clock = clock
  <2>1. IsRule(rule)
    BY <1>1, NamedRules
  <2> QED BY <2>1 DEF Weekly, AnyRule
<1>4. s.rule = rule
  BY DEF Schedule
<1>5. IsSchedule(s) => FitsIfOn(s, days)
  <2> HIDE DEF s, rule
  <2> QED BY <1>3, <1>4, WeeklyDays DEF FitsIfOn
<1> HIDE DEF days, rule, start
<1>6. Fits(s, days, clock, zone)
  BY <1>1, <1>2, <1>3, <1>5, MadeFits
<1>7. \A d \in days : DateOf(d).d \in Int
  BY <1>1, DatesOfDays
<1> QED BY <1>2, <1>6, <1>7 DEF Keeps, Make, days, rule, start

LEMMA LastDayRange ==
    ASSUME NEW y, NEW m
    PROVE  LastDay(y, m) \in 28 .. 31
<1> QED BY DEF LastDay

LEMMA InMonthsOn ==
    ASSUME NEW day \in 1 .. 31, NEW clamped \in BOOLEAN, NEW j, NEW p,
           NEW d \in MonthsApart(day, clamped, j, p)
    PROVE  /\ d \in Int /\ Congruent(MonthIndex(d), j, p) /\ FallsOn(day, clamped, d)
           /\ DateOf(d) \in Date /\ Exists(DateOf(d))
           /\ LastDay(DateOf(d).y, DateOf(d).m) \in 28 .. 31
<1>1. d \in Int /\ IsInMonth(day, clamped, MonthIndex(d), d) /\ Congruent(MonthIndex(d), j, p)
  BY DEF MonthsApart
<1>2. MonthIndex(d) \in Int /\ DateOf(d) \in Date /\ Exists(DateOf(d))
  BY <1>1, MonthIndexType, DateOfDay
<1>3. FallsOn(day, clamped, d)
  BY <1>1, <1>2, InMonth
<1> QED BY <1>1, <1>2, <1>3, LastDayRange

LEMMA MonthsKept ==
    ASSUME zone \in Zone, now \in Int, LeftOutHourFollows(zone), NEW clock, IsMinute(clock),
           NEW day \in 1 .. 31, NEW clamped \in BOOLEAN, NEW n \in Int, 0 < n,
           clamped \/ (n = 1 /\ day <= 30),
           NEW rule, IsRule(rule), rule.freq = "monthly", rule.interval = n, rule.clock = clock,
           \A i \in Int : NamesDay(rule, day, clamped, i),
           NEW notes, notes # {} \/ ~clamped \/ day <= 28, NEW next
    PROVE  Keeps(Make(MonthsAnchor(n, day, clamped, clock), rule, notes, next),
                 MonthsApart(day, clamped, ThisMonth, n), clock, next, {day})
<1> DEFINE days == MonthsApart(day, clamped, ThisMonth, n)
           start == MonthsAnchor(n, day, clamped, clock)
           s == Schedule(start, zone, rule)
<1>1. days \subseteq Int /\ ThisMonth \in Int
  <2>1. Today \in Int /\ ThisMonth = MonthIndex(Today)
    BY TodayType DEF Today, ThisMonth, MonthOf, MonthIndex
  <2> QED BY <2>1, MonthIndexType DEF MonthsApart
<1>2. Begins(days, clock, start, now, zone)
  BY MonthsBegins
<1>3. s.rule = rule
  BY DEF Schedule
<1>4. IsSchedule(s) => FitsIfOn(s, days)
  <2> HIDE DEF s
  <2>1. SUFFICES ASSUME IsSchedule(s), StartDay(s) \in days
                 PROVE  RingsOnDays(s, days) /\ InOrder(s)
    BY DEF FitsIfOn
  <2>2. Congruent(MonthIndex(StartDay(s)), ThisMonth, n)
    BY <2>1, InMonthsOn
  <2> QED BY <1>1, <1>3, <2>1, <2>2, MonthlyDays
<1>5. ASSUME NEW d \in days, notes = {} PROVE DateOf(d).d = day
  <2>1. /\ FallsOn(day, clamped, d)
        /\ LastDay(DateOf(d).y, DateOf(d).m) \in 28 .. 31
    BY InMonthsOn
  <2> HIDE DEF days
  <2> QED BY <1>5, <2>1 DEF FallsOn, AtDay, AtMost
<1> HIDE DEF days, start
<1>6. Fits(s, days, clock, zone)
  <2>1. rule.freq # "seconds"
    OBVIOUS
  <2> QED BY <1>1, <1>2, <1>4, <2>1, MadeFits
<1>7. notes # {} \/ \A d \in days : DateOf(d).d \in {day}
  BY <1>5
<1> QED BY <1>2, <1>6, <1>7 DEF Keeps, Make, days, start

LEMMA MonthOfYears ==
    ASSUME zone \in Zone, now \in Int, NEW day \in 1 .. 31, NEW month \in 1 .. 12,
           NEW n \in Int, 0 < n, NEW d \in MonthsApart(day, TRUE, ThisYears(month), 12 * n)
    PROVE  DateOf(d).m = month
<1> DEFINE year == YearOf(Today)
           j == ThisYears(month)
           p == 12 * n
           date == DateOf(d)
<1>1. year \in Int /\ j \in Int /\ p \in Int /\ 0 < p /\ j = 12 * year + month - 1
  BY TodayType DEF Today, ThisYears
<1>2. d \in Int /\ Congruent(MonthIndex(d), j, p) /\ date \in Date /\ Exists(date)
  BY InMonthsOn
<1> HIDE DEF p, j
<1>3. MonthIndex(d) \in Int /\ Congruent(j, j, p)
  <2>1. (p * 0 + 0) % p = 0
    BY <1>1, DivisionUnique
  <2>2. j - j = p * 0 + 0
    BY <1>1
  <2> QED BY <1>2, <2>1, <2>2, MonthIndexType DEF Congruent
<1>4. PICK k \in Int : MonthIndex(d) = j + k * p
  <2> DEFINE i == MonthIndex(d)
  <2>1. i \in Int /\ Congruent(i, j, p)
    BY <1>2, <1>3
  <2> HIDE DEF i
  <2>2. p \in Int /\ 0 < p /\ j \in Int
    BY <1>1
  <2>3. Congruent(i, j, p) <=> \E k \in Int : i = j + k * p
    BY <1>3, <2>1, <2>2, Multiples
  <2> QED BY <2>1, <2>3 DEF i
<1> DEFINE q == k * n
<1>5. q \in Int /\ k * p = 12 * q
  BY DEF p
<1>6. date.y \in Int /\ date.m \in 1 .. 12 /\ MonthIndex(d) = 12 * date.y + date.m - 1
  BY <1>2 DEF Date, Exists, MonthIndex
<1> HIDE DEF q, date, year
<1>7. 12 * date.y + date.m - 1 = 12 * year + month - 1 + 12 * q
  BY <1>1, <1>4, <1>5, <1>6
<1>8. date.m = month
  BY <1>1, <1>5, <1>6, <1>7
<1> QED BY <1>8 DEF date

LEMMA YearsKept ==
    ASSUME zone \in Zone, now \in Int, LeftOutHourFollows(zone), NEW clock, IsMinute(clock),
           NEW day \in 1 .. 31, NEW month \in 1 .. 12, NEW n \in Int, 0 < n,
           NEW rule, IsRule(rule), rule.freq = "yearly", rule.interval = n, rule.clock = clock,
           rule.month = month,
           \A i \in Int : (i % 12) + 1 = month => NamesDay(rule, day, TRUE, i),
           NEW notes, notes # {} \/ \A y \in Int : day <= LastDay(y, month), NEW next
    PROVE  Keeps(Make(YearlyAnchor(month, day, n, clock), rule, notes, next),
                 MonthsApart(day, TRUE, ThisYears(month), 12 * n), clock, next, {day})
<1> DEFINE days == MonthsApart(day, TRUE, ThisYears(month), 12 * n)
           start == YearlyAnchor(month, day, n, clock)
           s == Schedule(start, zone, rule)
<1>0. TRUE \in BOOLEAN
  OBVIOUS
<1>1. days \subseteq Int /\ ThisYears(month) \in Int
  <2>1. days \subseteq Int
    BY DEF MonthsApart
  <2>2. ThisYears(month) \in Int
    BY TodayType DEF Today, ThisYears
  <2> QED BY <2>1, <2>2
<1>2. Begins(days, clock, start, now, zone)
  BY YearlyBegins
<1>3. s.rule = rule
  BY DEF Schedule
<1>4. IsSchedule(s) => FitsIfOn(s, days)
  <2> HIDE DEF s
  <2>1. SUFFICES ASSUME IsSchedule(s), StartDay(s) \in days
                 PROVE  RingsOnDays(s, days) /\ InOrder(s)
    BY DEF FitsIfOn
  <2>2. Congruent(MonthIndex(StartDay(s)), ThisYears(month), 12 * n)
    BY <1>0, <2>1, InMonthsOn
  <2>3. DateOf(StartDay(s)).m = month
    BY <2>1, MonthOfYears
  <2> QED BY <1>1, <1>3, <2>1, <2>2, <2>3, YearlyDays
<1>5. ASSUME NEW d \in days, notes = {} PROVE DateOf(d).d = day
  <2>1. FallsOn(day, TRUE, d) /\ DateOf(d) \in Date
    BY <1>0, InMonthsOn
  <2>2. DateOf(d).m = month
    BY MonthOfYears
  <2>3. DateOf(d).y \in Int /\ day <= LastDay(DateOf(d).y, DateOf(d).m)
    BY <1>5, <2>1, <2>2 DEF Date
  <2>4. LastDay(DateOf(d).y, DateOf(d).m) \in Int
    BY LastDayRange
  <2> HIDE DEF days
  <2> QED BY <2>1, <2>3, <2>4 DEF FallsOn, AtDay, AtMost
<1> HIDE DEF days, start
<1>6. Fits(s, days, clock, zone)
  <2>1. rule.freq # "seconds"
    OBVIOUS
  <2> QED BY <1>1, <1>2, <1>4, <2>1, MadeFits
<1>7. notes # {} \/ \A d \in days : DateOf(d).d \in {day}
  BY <1>5
<1> QED BY <1>2, <1>6, <1>7 DEF Keeps, Make, days, start

\* Today, as a date and as a month.
LEMMA TodayParts ==
    ASSUME zone \in Zone, now \in Int
    PROVE  LET today == DateOf(Today)
           IN  /\ Today \in Int /\ today \in Date /\ Exists(today)
               /\ today.y = YearOf(Today) /\ today.m \in 1 .. 12 /\ today.d \in 1 .. 31
               /\ ThisMonth = MonthIndex(Today) /\ ThisMonth \in Int
               /\ ThisYears(today.m) = ThisMonth
<1> DEFINE today == DateOf(Today)
<1>1. Today \in Int /\ today \in Date /\ Exists(today)
  BY TodayType DEF Today
<1>2. today.y = YearOf(Today)
  BY DEF DateOf, DateIn
<1>3. ThisMonth = MonthIndex(Today) /\ ThisMonth \in Int
  BY <1>1, MonthIndexType DEF ThisMonth, MonthOf, MonthIndex
<1>4. today.m \in 1 .. 12 /\ today.d \in 1 .. LastDay(today.y, today.m)
  BY <1>1 DEF Exists
<1>5. LastDay(today.y, today.m) \in 28 .. 31
  BY LastDayRange
<1>6. ThisYears(today.m) = ThisMonth
  BY <1>2 DEF ThisYears, ThisMonth, MonthOf
<1> HIDE DEF today
<1>7. today.d \in 1 .. 31
  BY <1>4, <1>5
<1> QED BY <1>1, <1>2, <1>3, <1>4, <1>6, <1>7 DEF today

\* The only day of a year that does not come every year.
LEMMA EveryYear ==
    ASSUME NEW y \in Int, NEW m \in 1 .. 12, NEW d \in 1 .. LastDay(y, m), ~(m = 2 /\ d = 29)
    PROVE  \A x : d <= LastDay(x, m)
<1> QED BY DEF LastDay

LEMMA InRule ==
    ASSUME NEW n \in 1 .. MaxInterval
    PROVE  n \in Int /\ 0 < n /\ ~(n > MaxInterval)
<1> QED BY DEF MaxInterval

LEMMA YearRule ==
    ASSUME NEW n \in 1 .. MaxInterval, NEW clock \in Int, NEW month \in 1 .. 12,
           NEW day \in 1 .. 31, \A y \in Int : day <= LastDay(y, month)
    PROVE  LET rule == YearlyEvery(n, month, day, clock)
           IN  /\ IsRule(rule) /\ rule.freq = "yearly" /\ rule.interval = n
               /\ rule.clock = clock /\ rule.month = month
               /\ \A i \in Int : (i % 12) + 1 = month => NamesDay(rule, day, TRUE, i)
<1> DEFINE rule == YearlyEvery(n, month, day, clock)
<1>1. IsRule(rule)
  <2>1. day \in Int
    OBVIOUS
  <2> QED BY <2>1, RuleForms
<1>2. /\ rule.freq = "yearly" /\ rule.interval = n /\ rule.clock = clock
      /\ rule.month = month /\ rule.days = {day} /\ rule.latest = FALSE
  BY DEF YearlyEvery, MonthlyEvery, AnyRule
<1> HIDE DEF rule
<1>3. ASSUME NEW i \in Int, (i % 12) + 1 = month PROVE NamesDay(rule, day, TRUE, i)
  <2>1. i \div 12 \in Int
    OBVIOUS
  <2>2. day <= LastDay(i \div 12, (i % 12) + 1)
    BY <1>3, <2>1
  <2> QED BY <1>2, <2>2, NamesOneDay
<1>4. /\ IsRule(rule) /\ rule.freq = "yearly" /\ rule.interval = n
      /\ rule.clock = clock /\ rule.month = month
      /\ \A i \in Int : (i % 12) + 1 = month => NamesDay(rule, day, TRUE, i)
  BY <1>1, <1>2, <1>3
<1> QED BY <1>4 DEF rule

\* 29 February stands for the last of the month.
LEMMA FebruaryRule ==
    ASSUME NEW n \in 1 .. MaxInterval, NEW clock \in Int, NEW day \in 29 .. 31
    PROVE  LET rule == YearlyEveryLastDayOfMonth(n, 2, clock)
           IN  /\ IsRule(rule) /\ rule.freq = "yearly" /\ rule.interval = n
               /\ rule.clock = clock /\ rule.month = 2
               /\ \A i \in Int : (i % 12) + 1 = 2 => NamesDay(rule, day, TRUE, i)
<1> DEFINE rule == YearlyEveryLastDayOfMonth(n, 2, clock)
<1>1. IsRule(rule)
  <2>1. 2 \in 1 .. 12
    OBVIOUS
  <2> QED BY <2>1, RuleForms
<1>2. /\ rule.freq = "yearly" /\ rule.interval = n /\ rule.clock = clock
      /\ rule.month = 2 /\ rule.days = {-1} /\ rule.latest = FALSE
  BY DEF YearlyEveryLastDayOfMonth, YearlyEvery, AnyRule
<1> HIDE DEF rule
<1>3. ASSUME NEW i \in Int, (i % 12) + 1 = 2 PROVE NamesDay(rule, day, TRUE, i)
  <2>1. LastDay(i \div 12, (i % 12) + 1) <= day /\ day \in 1 .. 31
    BY <1>3 DEF LastDay
  <2> QED BY <1>2, <2>1, NamesLast
<1>4. /\ IsRule(rule) /\ rule.freq = "yearly" /\ rule.interval = n
      /\ rule.clock = clock /\ rule.month = 2
      /\ \A i \in Int : (i % 12) + 1 = 2 => NamesDay(rule, day, TRUE, i)
  BY <1>1, <1>2, <1>3
<1> QED BY <1>4 DEF rule

LEMMA YearlyKept ==
    ASSUME zone \in Zone, now \in Int, LeftOutHourFollows(zone), NEW clock, IsMinute(clock),
           NEW spec, spec["Y"] \in 1 .. MaxInterval, NEW next
    PROVE  LET today == DateOf(Today)
           IN  Keeps(Yearly(spec, clock, next),
                     MonthsApart(today.d, TRUE, ThisMonth, 12 * spec["Y"]), clock, next, {today.d})
<1> DEFINE n == spec["Y"]
           today == DateOf(Today)
           start == YearlyAnchor(today.m, today.d, n, clock)
           days == MonthsApart(today.d, TRUE, ThisYears(today.m), 12 * n)
<1>1. /\ today.m \in 1 .. 12 /\ today.d \in 1 .. 31 /\ today.y \in Int
      /\ today.d \in 1 .. LastDay(today.y, today.m) /\ ThisYears(today.m) = ThisMonth
  BY TodayParts DEF Date, Exists
<1>2. ~(n > MaxInterval) /\ n \in Int /\ 0 < n /\ n \in 1 .. MaxInterval
  BY InRule
<1>3. Yearly(spec, clock, next) =
        IF today.m = 2 /\ today.d = 29
        THEN Make(start, YearlyEveryLastDayOfMonth(n, 2, clock), {"YearlyFeb29Fallback"}, next)
        ELSE Make(start, YearlyEvery(n, today.m, today.d, clock), {}, next)
  BY <1>2 DEF Yearly
<1>4. clock \in Int
  BY DEF IsMinute
<1> HIDE DEF n, today
<1>5. CASE today.m = 2 /\ today.d = 29
  <2> DEFINE rule == YearlyEveryLastDayOfMonth(n, 2, clock)
             notes == {"YearlyFeb29Fallback"}
             day == today.d
             month == today.m
  <2>0. day \in 29 .. 31 /\ notes # {} /\ month \in 1 .. 12 /\ day \in 1 .. 31 /\ month = 2
    BY <1>5
  <2> HIDE DEF day
  <2>1. /\ IsRule(rule) /\ rule.freq = "yearly" /\ rule.interval = n
        /\ rule.clock = clock /\ rule.month = 2
        /\ \A i \in Int : (i % 12) + 1 = 2 => NamesDay(rule, day, TRUE, i)
    BY <1>2, <1>4, <2>0, FebruaryRule
  <2> HIDE DEF rule, notes, month
  <2>2. Keeps(Make(YearlyAnchor(month, day, n, clock), rule, notes, next),
              MonthsApart(day, TRUE, ThisYears(month), 12 * n), clock, next, {day})
    BY <1>2, <2>0, <2>1, YearsKept
  <2> QED BY <1>1, <1>3, <1>5, <2>2 DEF rule, notes, n, today, day, month
<1>6. CASE ~(today.m = 2 /\ today.d = 29)
  <2> DEFINE rule == YearlyEvery(n, today.m, today.d, clock)
             month == today.m
             day == today.d
             notes == {}
  <2>0. \A y : day <= LastDay(y, month)
    BY <1>1, <1>6, EveryYear
  <2>1. /\ IsRule(rule) /\ rule.freq = "yearly" /\ rule.interval = n
        /\ rule.clock = clock /\ rule.month = month
        /\ \A i \in Int : (i % 12) + 1 = month => NamesDay(rule, day, TRUE, i)
    BY <1>1, <1>2, <1>4, <2>0, YearRule
  <2>2. month \in 1 .. 12 /\ day \in 1 .. 31
    BY <1>1
  <2> HIDE DEF rule, month, day, notes
  <2>3. Keeps(Make(YearlyAnchor(month, day, n, clock), rule, notes, next),
              MonthsApart(day, TRUE, ThisYears(month), 12 * n), clock, next, {day})
    BY <1>2, <2>0, <2>1, <2>2, YearsKept
  <2> QED BY <1>1, <1>3, <1>6, <2>3 DEF rule, notes, n, today, month, day
<1> QED BY <1>5, <1>6

LEMMA MonthlyKept ==
    ASSUME zone \in Zone, now \in Int, LeftOutHourFollows(zone), NEW clock, IsMinute(clock),
           NEW spec, spec["M"] \in 1 .. MaxInterval, NEW next
    PROVE  LET today == DateOf(Today)
           IN  Keeps(Monthly(spec, clock, next),
                     MonthsApart(today.d, TRUE, ThisMonth, spec["M"]), clock, next, {today.d})
<1> DEFINE n == spec["M"]
           day == DateOf(Today).d
           rule == MonthlyEveryOrLastDay(n, day, clock)
           notes == MonthlyNote(day)
<1>0. TRUE \in BOOLEAN
  OBVIOUS
<1>1. day \in 1 .. 31 /\ day \in Int
  BY TodayParts
<1>2. ~(n > MaxInterval) /\ n \in Int /\ 0 < n /\ n \in 1 .. MaxInterval
  BY InRule
<1>3. Monthly(spec, clock, next) = Make(MonthsAnchor(n, day, TRUE, clock), rule, notes, next)
  BY <1>2 DEF Monthly, MonthlyOrLastDayAnchor
<1>4. clock \in Int
  BY DEF IsMinute
<1> HIDE DEF n, day
<1>5. IsRule(rule)
  BY <1>1, <1>2, <1>4, RuleForms
<1>6. /\ rule.freq = "monthly" /\ rule.interval = n /\ rule.clock = clock
      /\ day <= 28 => rule.days = {day} /\ rule.latest = FALSE
      /\ ~(day <= 28) => rule.days = 28 .. day /\ rule.latest = TRUE
  BY DEF MonthlyEveryOrLastDay, MonthlyEvery, AnyRule
<1>7. notes # {} \/ day <= 28
  BY <1>1 DEF MonthlyNote
<1> HIDE DEF rule, notes
<1>8. ASSUME NEW i \in Int PROVE NamesDay(rule, day, TRUE, i)
  <2>1. CASE day <= 28
    <3>1. LastDay(i \div 12, (i % 12) + 1) \in 28 .. 31
      BY LastDayRange
    <3>2. day <= LastDay(i \div 12, (i % 12) + 1)
      BY <1>1, <2>1, <3>1
    <3> QED BY <1>1, <1>6, <2>1, <3>2, NamesOneDay
  <2>2. CASE ~(day <= 28)
    <3>1. day \in 29 .. 31
      BY <1>1, <2>2
    <3> QED BY <1>6, <2>2, <3>1, NamesLatest
  <2> QED BY <2>1, <2>2
<1>9. Keeps(Make(MonthsAnchor(n, day, TRUE, clock), rule, notes, next),
            MonthsApart(day, TRUE, ThisMonth, n), clock, next, {day})
  BY <1>0, <1>1, <1>2, <1>5, <1>6, <1>7, <1>8, MonthsKept
<1> QED BY <1>3, <1>9 DEF n, day

\* A series by the second, of this many.
Counts(found, all, next) ==
    \E n \in 1 .. MaxInterval, unit \in {1, 60, Hour} :
        /\ n * unit = all
        /\ found = {[error |-> None, notes |-> {}, next |-> next,
                     schedule |-> {Schedule(now + all, NoOffset, IntervalRule(n, unit))}]}

LEMMA DaysOrSecondsKept ==
    ASSUME zone \in Zone, now \in Int, LeftOutHourFollows(zone), NEW clock, IsMinute(clock),
           NEW spec \in [Unit -> Nat], spec["Y"] = 0, spec["M"] = 0,
           NEW next, NEW times, ~NoInterval(spec, times)
    PROVE  LET seconds == Seconds(spec)
               all == Days(spec) * DayLength + seconds
               found == ByDaysOrSeconds(spec, clock, next)
           IN  /\ seconds % DayLength # 0 => Counts(found, all, next)
               /\ seconds % DayLength = 0 =>
                    Keeps(found, DaysApart(Today, all \div DayLength), clock, next, Int)
<1> DEFINE seconds == Seconds(spec)
           days == Days(spec)
           n == days + seconds \div DayLength
           all == days * DayLength + seconds
           unit == Max({u \in {1, 60, Hour} : all % u = 0})
           found == ByDaysOrSeconds(spec, clock, next)
<1>1. days \in Nat /\ seconds \in Nat
  BY SpanParts
<1>2. found =
        IF days = 0 /\ seconds < MinIntervalSeconds THEN Refuse("IntervalTooShort")
        ELSE IF seconds % DayLength = 0
             THEN IF n > MaxInterval THEN Refuse("InvalidRecurrenceSpec")
                  ELSE Make(DailyAnchor(n, clock), DailyAt(n, clock), {}, next)
        ELSE IF Intervals(days, seconds) = {} THEN Refuse("InvalidRecurrenceSpec")
        ELSE {[error |-> None, notes |-> {}, next |-> next,
               schedule |-> {Schedule(now + days * DayLength + seconds, NoOffset,
                               IntervalRule(The(Intervals(days, seconds)), IntervalUnit(seconds)))}]}
  BY DEF ByDaysOrSeconds, Seconds, Days
<1>3. /\ ~(n = 0 /\ seconds < 1800)
      /\ ~(n > MaxInterval)
      /\ seconds % DayLength # 0 => ~(all \div unit > MaxInterval)
  <2>1. spec["Y"] + spec["M"] + Days(spec) = days
    BY <1>1
  <2> QED BY <2>1 DEF NoInterval
<1>4. /\ Intervals(days, seconds) = {} <=> all \div unit > MaxInterval
      /\ Intervals(days, seconds) # {} => Intervals(days, seconds) = {all \div unit}
      /\ unit = IntervalUnit(seconds)
  <2>1. IntervalFits(days, seconds)
    BY <1>1, IntervalsFit
  <2> QED BY <2>1 DEF IntervalFits
<1>5. n \in Nat /\ ~(days = 0 /\ seconds < MinIntervalSeconds)
  BY <1>1, <1>3 DEF DayLength, MinIntervalSeconds
<1> HIDE DEF unit
<1>6. CASE seconds % DayLength = 0
  <2>1. n > 0
    BY <1>1, <1>3, <1>5, <1>6 DEF DayLength
  <2>2. all \div DayLength = n
    <3> HIDE DEF days, seconds
    <3> QED BY <1>1 DEF DayLength
  <2>3. found = Make(DailyAnchor(n, clock), DailyAt(n, clock), {}, next)
    BY <1>2, <1>3, <1>5, <1>6
  <2> HIDE DEF n, found, all
  <2>4. n \in 1 .. MaxInterval
    BY <1>3, <1>5, <2>1, FitsInRule
  <2>5. Keeps(found, DaysApart(Today, n), clock, next, Int)
    BY <2>3, <2>4, DaysKept
  <2> QED BY <1>6, <2>2, <2>5 DEF found, all
<1>7. CASE seconds % DayLength # 0
  <2> DEFINE m == all \div unit
  <2>1. Intervals(days, seconds) = {m}
    BY <1>3, <1>4, <1>7
  <2>2. found = {[error |-> None, notes |-> {}, next |-> next,
                  schedule |-> {Schedule(now + days * DayLength + seconds, NoOffset,
                                  IntervalRule(The(Intervals(days, seconds)), IntervalUnit(seconds)))}]}
    BY <1>2, <1>5, <1>7, <2>1
  <2>3. unit \in {1, 60, Hour} /\ seconds % unit = 0
    <3>1. seconds % 1 = 0
      BY <1>1
    <3> QED BY <1>1, <1>4, <3>1 DEF IntervalUnit, Hour
  <2>4. unit \in Int /\ 0 < unit /\ \E k \in Int : unit * k = DayLength
    <3>1. 1 * 86400 = 86400 /\ 60 * 1440 = 86400 /\ 3600 * 24 = 86400
      OBVIOUS
    <3> QED BY <2>3, <3>1 DEF Hour, DayLength
  <2>5. all % unit = 0
    BY <1>1, <2>3, <2>4, DaysInUnits
  <2>6. all \in Int /\ 0 < all
    <3>1. seconds > 0
      BY <1>1, <1>7 DEF DayLength
    <3> QED BY <1>1, <3>1 DEF DayLength
  <2> HIDE DEF all
  <2>7. m \in Int /\ all = unit * m + 0
    BY <2>4, <2>5, <2>6, Division
  <2> HIDE DEF m
  <2>8. m \in 1 .. MaxInterval /\ m * unit = all
    <3>1. m * unit = all
      BY <2>4, <2>7
    <3>2. m > 0
      BY <2>4, <2>6, <2>7
    <3>3. ~(m > MaxInterval)
      BY <1>3, <1>7 DEF m
    <3> QED BY <2>7, <3>1, <3>2, <3>3, FitsInRule
  <2>9. The(Intervals(days, seconds)) = m
    BY <2>1 DEF The
  <2>10. now + days * DayLength + seconds = now + all
    BY <1>1 DEF all, DayLength
  <2>11. found = {[error |-> None, notes |-> {}, next |-> next,
                   schedule |-> {Schedule(now + all, NoOffset, IntervalRule(m, unit))}]}
    BY <1>4, <2>2, <2>9, <2>10
  <2> HIDE DEF found
  <2>12. Counts(found, all, next)
    BY <2>3, <2>8, <2>11 DEF Counts
  <2> QED BY <1>7, <2>12 DEF found, all
<1> QED BY <1>6, <1>7

-----------------------------------------------------------------------------
(* The days that are meant.                                                *)

RuleDays(m, start) == {d \in Int : RingsOn(m, start, d)}

\* A day of each month, or of some.
LEMMA MonthDays ==
    ASSUME NEW day \in 1 .. 31, NEW clamped \in BOOLEAN, NEW j, NEW p, NEW days,
           days \subseteq Int,
           \A d \in Int : d \in days <=> Congruent(MonthIndex(d), j, p) /\ FallsOn(day, clamped, d)
    PROVE  days = MonthsApart(day, clamped, j, p)
<1>1. ASSUME NEW d \in Int
      PROVE  d \in days <=> d \in MonthsApart(day, clamped, j, p)
  <2>1. MonthIndex(d) \in Int
    BY MonthIndexType
  <2>2. IsInMonth(day, clamped, MonthIndex(d), d) <=> FallsOn(day, clamped, d)
    BY <2>1, InMonth
  <2> QED BY <2>2 DEF MonthsApart
<1>2. MonthsApart(day, clamped, j, p) \subseteq Int
  BY DEF MonthsApart
<1> HIDE DEF MonthsApart
<1> QED BY <1>1, <1>2

LEMMA SpanDays ==
    ASSUME NEW m, m.kind = "relative", m.spec \in [Unit -> Nat], NEW t \in Int
    PROVE  /\ MonthsMeant(m) \in Nat
           /\ MonthsMeant(m) > 0 =>
                RuleDays(m, t) = MonthsApart(DateOf(t).d, TRUE, MonthIndex(t), MonthsMeant(m))
           /\ ~(MonthsMeant(m) > 0) =>
                RuleDays(m, t) = DaysApart(t, IntervalOf(m) \div DayLength)
<1> DEFINE period == MonthsMeant(m)
           first == DateOf(t)
<1>0. period \in Nat
  BY SpanParts DEF MonthsMeant
<1>1. CASE ~(period > 0)
  <2>1. period = 0
    BY <1>0, <1>1
  <2>2. ASSUME NEW d \in Int
        PROVE  RingsOn(m, t, d) <=> (d - t) % (IntervalOf(m) \div DayLength) = 0
    BY <1>1, <2>1 DEF RingsOn
  <2>3. \A d \in Int : d \in RuleDays(m, t) <=> d \in DaysApart(t, IntervalOf(m) \div DayLength)
    BY <2>2 DEF RuleDays, DaysApart, Congruent
  <2>4. RuleDays(m, t) \subseteq Int /\ DaysApart(t, IntervalOf(m) \div DayLength) \subseteq Int
    BY DEF RuleDays, DaysApart
  <2>5. RuleDays(m, t) = DaysApart(t, IntervalOf(m) \div DayLength)
    BY <2>3, <2>4
  <2> QED BY <1>0, <1>1, <2>5
<1>2. CASE period > 0
  <2> DEFINE day == first.d
             j == MonthIndex(t)
             days == RuleDays(m, t)
  <2>1. first \in Date /\ Exists(first)
    BY DateOfDay
  <2>2. day \in 1 .. 31 /\ TRUE \in BOOLEAN
    BY <2>1, LastDayRange DEF Exists
  <2>3. ASSUME NEW d \in Int
        PROVE  d \in days <=> Congruent(MonthIndex(d), j, period) /\ FallsOn(day, TRUE, d)
    <3>0. /\ m.kind # "weekday" /\ m.kind # "monthday" /\ m.kind # "date"
          /\ ~(MonthsMeant(m) = 0) /\ MonthsMeant(m) > 0
      BY <1>0, <1>2
    <3>1. RingsOn(m, t, d)
            <=> (MonthOf(DateOf(d)) - MonthOf(first)) % period = 0 /\ AtDay(DateOf(d), day)
      BY <3>0, Zenon DEF RingsOn
    <3>2. MonthOf(DateOf(d)) = MonthIndex(d) /\ MonthOf(first) = j
      BY DEF MonthOf, MonthIndex
    <3> QED BY <3>1, <3>2 DEF RuleDays, Congruent, FallsOn
  <2>4. days \subseteq Int
    BY DEF RuleDays
  <2> HIDE DEF days, day, j
  <2>5. days = MonthsApart(day, TRUE, j, period)
    BY <2>2, <2>3, <2>4, MonthDays
  <2> QED BY <1>0, <1>2, <2>5 DEF days, day, j
<1> QED BY <1>1, <1>2

LEMMA EveryMonth ==
    ASSUME NEW i \in Int, NEW j \in Int
    PROVE  Congruent(i, j, 1)
<1> QED BY DEF Congruent

LEMMA WeekdayDays ==
    ASSUME NEW m, m.kind = "weekday", NEW t
    PROVE  RuleDays(m, t) = OnWeekdays(m.days)
<1>1. /\ m.kind # "monthday" /\ m.kind # "date" /\ m.kind # "relative"
  OBVIOUS
<1>2. ASSUME NEW d PROVE RingsOn(m, t, d) <=> Weekday(d) \in m.days
  BY <1>1, Zenon DEF RingsOn
<1> QED BY <1>2 DEF RuleDays, OnWeekdays

LEMMA DayOfMonthDays ==
    ASSUME NEW m, m.kind = "monthday", NEW t \in Int, The(m.date).d \in 1 .. 31
    PROVE  LET day == The(m.date).d
           IN  /\ day = 31 => RuleDays(m, t) = MonthsApart(31, TRUE, MonthIndex(t), 1)
               /\ day # 31 => RuleDays(m, t) = MonthsApart(day, FALSE, MonthIndex(t), 1)
<1> DEFINE day == The(m.date).d
           j == MonthIndex(t)
           days == RuleDays(m, t)
           clamped == day = 31
<1>1. /\ m.kind # "weekday" /\ m.kind # "date" /\ m.kind # "relative"
  OBVIOUS
<1>2. ASSUME NEW d PROVE RingsOn(m, t, d) <=> FallsOn(day, clamped, d)
  <2>1. RingsOn(m, t, d) <=> IF day = 31 THEN AtDay(DateOf(d), 31) ELSE DateOf(d).d = day
    BY <1>1, Zenon DEF RingsOn
  <2> QED BY <2>1 DEF FallsOn
<1>3. \A d \in Int : d \in days <=> Congruent(MonthIndex(d), j, 1) /\ FallsOn(day, clamped, d)
  <2>1. ASSUME NEW d \in Int PROVE Congruent(MonthIndex(d), j, 1)
    BY MonthIndexType, EveryMonth
  <2> QED BY <1>2, <2>1 DEF RuleDays
<1>4. days \subseteq Int /\ clamped \in BOOLEAN
  BY DEF RuleDays
<1> HIDE DEF days, clamped, j, day
<1>5. day \in 1 .. 31
  BY DEF day
<1>6. days = MonthsApart(day, clamped, j, 1)
  BY <1>3, <1>4, <1>5, MonthDays
<1>7. /\ day = 31 => days = MonthsApart(31, TRUE, j, 1)
      /\ day # 31 => days = MonthsApart(day, FALSE, j, 1)
  BY <1>6 DEF clamped
<1> QED BY <1>7 DEF days, day, j

\* Months of the same name.
LEMMA SameMonth ==
    ASSUME NEW d \in Int, NEW year \in Int, NEW month \in 1 .. 12
    PROVE  Congruent(MonthIndex(d), 12 * year + month - 1, 12) <=> DateOf(d).m = month
<1> DEFINE y == DateOf(d).y
           m == DateOf(d).m
<1>1. y \in Int /\ m \in 1 .. 12 /\ MonthIndex(d) = 12 * y + m - 1
  BY DateOfDay DEF Date, Exists, MonthIndex
<1> HIDE DEF y, m
<1>2. ((12 * y + m - 1) - (12 * year + month - 1)) % 12 = 0 <=> m = month
  BY <1>1
<1>3. Congruent(MonthIndex(d), 12 * year + month - 1, 12) <=> m = month
  BY <1>1, <1>2 DEF Congruent
<1> QED BY <1>3 DEF m

LEMMA DateDays ==
    ASSUME zone \in Zone, now \in Int, NEW m, m.kind = "date", NEW t,
           The(m.date).m \in 1 .. 12, The(m.date).d \in 1 .. 31
    PROVE  LET date == The(m.date)
           IN  /\ RuleDays(m, t) = MonthsApart(date.d, TRUE, ThisYears(date.m), 12)
               /\ date.m = 2 /\ date.d = 29 =>
                    RuleDays(m, t) = MonthsApart(31, TRUE, ThisYears(date.m), 12)
<1> DEFINE day == The(m.date).d
           month == The(m.date).m
           j == ThisYears(month)
           days == RuleDays(m, t)
<1>1. /\ m.kind # "weekday" /\ m.kind # "monthday" /\ m.kind # "relative"
  OBVIOUS
<1>2. ASSUME NEW d PROVE RingsOn(m, t, d) <=> DateOf(d).m = month /\ AtDay(DateOf(d), day)
  BY <1>1, Zenon DEF RingsOn
<1>3. month \in 1 .. 12 /\ day \in 1 .. 31 /\ YearOf(Today) \in Int /\ TRUE \in BOOLEAN
  BY TodayType DEF Today
<1>4. days \subseteq Int
  BY DEF RuleDays
<1>5. \A d : d \in days <=> d \in Int /\ DateOf(d).m = month /\ AtDay(DateOf(d), day)
  BY <1>2 DEF RuleDays
<1> HIDE DEF month, day, days
<1>6. ASSUME NEW d \in Int PROVE Congruent(MonthIndex(d), j, 12) <=> DateOf(d).m = month
  BY <1>3, SameMonth DEF ThisYears
<1> HIDE DEF j
<1>7. days = MonthsApart(day, TRUE, j, 12)
  <2>1. \A d \in Int : d \in days <=> Congruent(MonthIndex(d), j, 12) /\ FallsOn(day, TRUE, d)
    BY <1>5, <1>6 DEF FallsOn
  <2> QED BY <1>3, <1>4, <2>1, MonthDays
<1>8. ASSUME month = 2, day = 29 PROVE days = MonthsApart(31, TRUE, j, 12)
  <2> DEFINE last == 31
  <2>1. ASSUME NEW d \in Int, DateOf(d).m = 2 PROVE AtDay(DateOf(d), 29) <=> AtDay(DateOf(d), last)
    BY <2>1 DEF AtDay, AtMost, LastDay
  <2>2. last \in 1 .. 31
    OBVIOUS
  <2>3. \A d \in Int : d \in days <=> DateOf(d).m = month /\ AtDay(DateOf(d), last)
    BY <1>5, <1>8, <2>1
  <2> HIDE DEF last
  <2>4. \A d \in Int : d \in days <=> Congruent(MonthIndex(d), j, 12) /\ FallsOn(last, TRUE, d)
    BY <1>6, <2>3 DEF FallsOn
  <2>5. days = MonthsApart(last, TRUE, j, 12)
    BY <1>3, <1>4, <2>2, <2>4, MonthDays
  <2> QED BY <2>5 DEF last
<1>9. /\ days = MonthsApart(day, TRUE, j, 12)
      /\ month = 2 /\ day = 29 => days = MonthsApart(31, TRUE, j, 12)
  BY <1>7, <1>8
<1> QED BY <1>9 DEF days, day, month, j

-----------------------------------------------------------------------------
(* The clock that is meant.                                                *)

ClockFor(m, n, z) ==
    IF m.clock # {} THEN The(m.clock)
    ELSE IF m.kind # "relative" THEN DefaultTime
    ELSE LET clock == ClockOf(Wall(z, n)) IN clock - (clock % 60)

LEMMA SpelledMinute ==
    ASSUME NEW c \in Spelled, NEW t \in Clocks(c)
    PROVE  IsMinute(t)
<1>1. \E h \in 0 .. 23 : c.m \in 0 .. 59 /\ t = Clock(h, c.m)
  BY DEF Clocks
<1>2. PICK h \in 0 .. 23 : c.m \in 0 .. 59 /\ t = Clock(h, c.m)
  BY <1>1
<1>3. t = 3600 * h + 60 * c.m
  BY <1>2 DEF Clock, Hour
<1>4. ASSUME NEW m \in 0 .. 59
      PROVE  /\ 3600 * h + 60 * m \in Int /\ 0 <= 3600 * h + 60 * m
             /\ 3600 * h + 60 * m < 86400 /\ (3600 * h + 60 * m) % 60 = 0
  OBVIOUS
<1> QED BY <1>2, <1>3, <1>4 DEF IsMinute, DayLength

LEMMA MinuteAfter ==
    ASSUME NEW tokens \in Seq(Token), NEW from \in Nat, NEW t \in OptionalTime(tokens, from)
    PROVE  IsMinute(t.clock)
<1> DEFINE i == IF IsKey(tokens, from, "at") THEN from + 1 ELSE from
           next == IF IsKey(tokens, i + 1, "uhr") THEN i + 2 ELSE i + 1
           spelled == IF i \in DOMAIN tokens THEN tokens[i].clock ELSE {}
<1>1. OptionalTime(tokens, from)
        = {[clock |-> c, next |-> next] : c \in UNION {Clocks(e) : e \in spelled}}
  BY DEF OptionalTime
<1>2. spelled \subseteq Spelled
  <2>1. i \in DOMAIN tokens => tokens[i] \in Token
    OBVIOUS
  <2> HIDE DEF i
  <2>2. \A token \in Token : token.clock \subseteq Spelled
    BY DEF Token
  <2> QED BY <2>1, <2>2
<1> HIDE DEF i, next, spelled
<1>3. PICK e \in spelled : t.clock \in Clocks(e)
  BY <1>1
<1> QED BY <1>2, <1>3, SpelledMinute

LEMMA CreationMinute ==
    ASSUME zone \in Zone, now \in Int
    PROVE  IsMinute(CreationTime)
<1> DEFINE clock == ClockOf(Wall(zone, now))
<1>1. clock \in Int /\ 0 <= clock /\ clock < DayLength
  BY WallType, ClockParts
<1>2. CreationTime = clock - (clock % 60)
  BY DEF CreationTime
<1> HIDE DEF clock
<1> DEFINE q == clock \div 60
           r == clock % 60
<1>3. q \in Int /\ r \in Int /\ 0 <= r /\ r < 60 /\ clock = 60 * q + r
  BY <1>1, Division
<1> HIDE DEF q, r
<1>4. (60 * q + 0) % 60 = 0 /\ 0 <= q
  BY <1>1, <1>3
<1>5. clock - r = 60 * q + 0 /\ 0 <= 60 * q + 0
  BY <1>3, <1>4
<1> DEFINE t == CreationTime
<1>6. t = 60 * q + 0
  BY <1>2, <1>5 DEF r
<1> HIDE DEF t
<1>7. t \in Int /\ 0 <= t /\ t < DayLength /\ t % 60 = 0
  <2>1. t <= clock
    BY <1>3, <1>6
  <2> QED BY <1>1, <1>3, <1>4, <1>5, <1>6, <2>1 DEF DayLength
<1> QED BY <1>7 DEF IsMinute, t

LEMMA ClockTakenFor ==
    ASSUME NEW tokens \in Seq(Token), NEW from \in Nat,
           NEW times, times \subseteq OptionalTime(tokens, from),
           NEW m, {t.clock : t \in times} = m.clock, NEW default, IsMinute(default)
    PROVE  LET clock == TimeOr(times, default, from).clock
           IN  /\ IsMinute(clock)
               /\ clock = IF m.clock # {} THEN The(m.clock) ELSE default
<1> DEFINE time == TimeOr(times, default, from)
<1>1. CASE times = {}
  <2>1. time.clock = default /\ m.clock = {}
    BY <1>1 DEF TimeOr
  <2> QED BY <2>1
<1>2. CASE times # {}
  <2>1. time \in times
    BY <1>2 DEF TimeOr, The
  <2>2. \A t \in times : t = time
    BY <2>1, OneClock
  <2> HIDE DEF time
  <2>3. m.clock = {time.clock}
    BY <2>1, <2>2
  <2>4. The(m.clock) = time.clock /\ m.clock # {}
    BY <2>3 DEF The
  <2>5. IsMinute(time.clock)
    BY <2>1, MinuteAfter
  <2> QED BY <2>4, <2>5 DEF time
<1> QED BY <1>1, <1>2

-----------------------------------------------------------------------------
(* What the parser makes of a command for a series.                        *)

SecondsApart(m) == m.kind = "relative" /\ Seconds(m.spec) % DayLength # 0

CountsFrom(s, all, n) ==
    \E k \in 1 .. MaxInterval, unit \in {1, 60, Hour} :
        k * unit = all /\ s = Schedule(n + all, NoOffset, IntervalRule(k, unit))

\* The schedule of a command that was sent at n: its days and its clock, and a
\* note if it may ring on another day of the month than the one that was named.
KeepsDays(s, m, notes, n, z) ==
    LET today == DayOf(Wall(z, n))
        days == RuleDays(m, today)
    IN  /\ IsMinute(ClockFor(m, n, z)) /\ Fits(s, days, ClockFor(m, n, z), z)
        /\ Begins(days, ClockFor(m, n, z), s.start, n, z)
        /\ NamesDayOfMonth(m) => notes # {} \/ \A d \in days : IsDayNamed(m, today, d)

\* ... or its interval, which has neither months nor years.
MadeFor(s, m, notes, n, z) ==
    /\ SecondsApart(m) => CountsFrom(s, IntervalOf(m), n) /\ ~NamesDayOfMonth(m)
    /\ ~SecondsApart(m) => KeepsDays(s, m, notes, n, z)

SeriesAnswers(m, n, z, answer) ==
    answer.error = None =>
        \E s : answer.schedule = {s} /\ MadeFor(s, m, answer.notes, n, z)

LEMMA KeepsAnswered ==
    ASSUME NEW m, ~SecondsApart(m), IsMinute(ClockFor(m, now, zone)),
           NEW found, NEW next, NEW dates,
           Keeps(found, RuleDays(m, Today), ClockFor(m, now, zone), next, dates),
           NamesDayOfMonth(m) =>
             \A d \in RuleDays(m, Today) : DateOf(d).d \in dates => IsDayNamed(m, Today, d),
           NEW tokens
    PROVE  found # {} /\ SeriesAnswers(m, now, zone, AnswerSeries(tokens, found))
<1> DEFINE days == RuleDays(m, Today)
           clock == ClockFor(m, now, zone)
           answer == AnswerSeries(tokens, found)
<1>1. PICK start, rule, notes :
        /\ Fits(Schedule(start, zone, rule), days, clock, zone)
        /\ Begins(days, clock, start, now, zone)
        /\ notes # {} \/ \A d \in days : DateOf(d).d \in dates
        /\ found = {[error |-> None, schedule |-> {Schedule(start, zone, rule)},
                     notes |-> notes, next |-> next]}
  BY DEF Keeps
<1> DEFINE s == Schedule(start, zone, rule)
           it == [error |-> None, schedule |-> {s}, notes |-> notes, next |-> next]
<1>2. found = {it} /\ found # {} /\ The(found) = it
  BY <1>1 DEF The
<1>3. s.start = start
  BY DEF Schedule
<1>4. NamesDayOfMonth(m) => notes # {} \/ \A d \in days : IsDayNamed(m, Today, d)
  BY <1>1
<1>5. KeepsDays(s, m, notes, now, zone)
  BY <1>1, <1>3, <1>4 DEF KeepsDays, Today
<1> HIDE DEF s
<1>6. it.error = None /\ it.schedule = {s} /\ it.notes = notes /\ The({s}) = s
  BY DEF The
<1> HIDE DEF it
<1>7. answer.error = None => answer.schedule = {s} /\ answer.notes = notes
  <2>1. answer = Refusal("MissingText") \/ answer = Answer(s, notes, SubSeq(tokens, it.next, Len(tokens)))
    BY <1>2, <1>6 DEF AnswerSeries
  <2>2. Refusal("MissingText").error # None
    BY DEF Refusal, None
  <2> QED BY <2>1, <2>2 DEF Answer
<1> QED BY <1>2, <1>5, <1>7 DEF SeriesAnswers, MadeFor

LEMMA CountsAnswered ==
    ASSUME NEW m, SecondsApart(m), ~NamesDayOfMonth(m), NEW found, NEW next, Counts(found, IntervalOf(m), next),
           NEW tokens
    PROVE  found # {} /\ SeriesAnswers(m, now, zone, AnswerSeries(tokens, found))
<1> DEFINE all == IntervalOf(m)
           answer == AnswerSeries(tokens, found)
<1>1. PICK k \in 1 .. MaxInterval, unit \in {1, 60, Hour} :
        /\ k * unit = all
        /\ found = {[error |-> None, notes |-> {}, next |-> next,
                     schedule |-> {Schedule(now + all, NoOffset, IntervalRule(k, unit))}]}
  BY DEF Counts
<1> DEFINE s == Schedule(now + all, NoOffset, IntervalRule(k, unit))
           it == [error |-> None, notes |-> {}, next |-> next, schedule |-> {s}]
<1>2. found = {it} /\ found # {} /\ The(found) = it
  BY <1>1 DEF The
<1>3. CountsFrom(s, all, now)
  BY <1>1 DEF CountsFrom
<1> HIDE DEF s
<1>4. it.error = None /\ it.schedule = {s} /\ The({s}) = s
  BY DEF The
<1> HIDE DEF it
<1>5. answer.error = None => answer.schedule = {s}
  <2>1. \/ answer = Refusal("MissingText")
        \/ answer = Answer(s, it.notes, SubSeq(tokens, it.next, Len(tokens)))
    BY <1>2, <1>4 DEF AnswerSeries
  <2>2. Refusal("MissingText").error # None
    BY DEF Refusal, None
  <2> QED BY <2>1, <2>2 DEF Answer
<1> QED BY <1>2, <1>3, <1>5 DEF SeriesAnswers, MadeFor

LEMMA RefusedAnswers ==
    ASSUME NEW m, NEW found, Refused(found), NEW tokens
    PROVE  found # {} /\ SeriesAnswers(m, now, zone, AnswerSeries(tokens, found))
<1> QED BY RefusedAnswer DEF SeriesAnswers

\* A span that is an interval: of years, of months, or of days or seconds.
LEMMA SpanKept ==
    ASSUME zone \in Zone, now \in Int, LeftOutHourFollows(zone),
           NEW m, m.kind = "relative", m.spec \in [Unit -> Nat], m.date = {},
           ~NoInterval(m.spec, m.clock),
           NEW tokens \in Seq(Token), NEW match, match.kind = "spec", match.spec = m.spec,
           match.next \in Nat,
           NEW times, times \subseteq OptionalTime(tokens, match.next),
           {t.clock : t \in times} = m.clock
    PROVE  LET found == SeriesOf(match, times)
           IN  found # {} /\ SeriesAnswers(m, now, zone, AnswerSeries(tokens, found))
<1> DEFINE spec == m.spec
           found == SeriesOf(match, times)
           time == TimeOr(times, CreationTime, match.next)
           clock == time.clock
           next == time.next
           today == DateOf(Today)
           years == spec["Y"] > 0
           months == spec["M"] > 0
           rest == Days(spec) > 0 \/ HasSubDay(spec)
           n == spec["Y"] + spec["M"] + Days(spec) + Seconds(spec) \div DayLength
<1>1. /\ spec["Y"] \in Nat /\ spec["M"] \in Nat /\ Days(spec) \in Nat /\ Seconds(spec) \in Nat
      /\ HasSubDay(spec) <=> Seconds(spec) > 0
  BY SpanParts
<1>2. found =
        IF Families(spec) > 1 THEN Refuse("InvalidRecurrenceSpec")
        ELSE IF times # {} /\ HasSubDay(spec) THEN Refuse("SubDayRelWithOverride")
        ELSE IF spec["Y"] > 0 THEN Yearly(spec, clock, next)
        ELSE IF spec["M"] > 0 THEN Monthly(spec, clock, next)
        ELSE ByDaysOrSeconds(spec, clock, next)
  <2>1. "none" # "spec" /\ "bad" # "spec"
    OBVIOUS
  <2> QED BY <2>1, Zenon DEF SeriesOf
<1>3. ~(Families(spec) > 1) <=> ~((years /\ months) \/ ((years \/ months) /\ rest))
  BY FamiliesMixed
<1>4. /\ ~(years /\ months) /\ ~((years \/ months) /\ rest)
      /\ ~(n > MaxInterval) /\ ~(HasSubDay(spec) /\ times # {})
  <2> DEFINE all == Days(spec) * DayLength + Seconds(spec)
             unit == Max({u \in {1, 60, Hour} : all % u = 0})
  <2>1. times = {} <=> m.clock = {}
    OBVIOUS
  <2>2. NoInterval(spec, m.clock) <=>
          \/ years /\ months
          \/ (years \/ months) /\ rest
          \/ n = 0 /\ Seconds(spec) < 1800
          \/ n > MaxInterval
          \/ HasSubDay(spec) /\ m.clock # {}
          \/ Seconds(spec) % DayLength # 0 /\ all \div unit > MaxInterval
    BY DEF NoInterval
  <2>3. ~NoInterval(spec, m.clock)
    OBVIOUS
  <2> HIDE DEF all, unit, n, spec
  <2> QED BY <2>1, <2>2, <2>3
<1>5. IsMinute(clock) /\ clock = ClockFor(m, now, zone)
  <2>1. IsMinute(CreationTime)
    BY CreationMinute
  <2> DEFINE default == CreationTime
             from == match.next
  <2>2. IsMinute(default) /\ from \in Nat /\ times \subseteq OptionalTime(tokens, from)
    BY <2>1
  <2> HIDE DEF default, from
  <2>3. /\ IsMinute(TimeOr(times, default, from).clock)
        /\ TimeOr(times, default, from).clock = IF m.clock # {} THEN The(m.clock) ELSE default
    BY <2>2, ClockTakenFor
  <2> QED BY <2>3 DEF ClockFor, CreationTime, default, from
<1>6. /\ Today \in Int /\ ThisMonth = MonthIndex(Today)
  BY TodayParts
<1>7. /\ MonthsMeant(m) \in Nat
      /\ MonthsMeant(m) > 0 =>
           RuleDays(m, Today) = MonthsApart(today.d, TRUE, ThisMonth, MonthsMeant(m))
      /\ ~(MonthsMeant(m) > 0) =>
           RuleDays(m, Today) = DaysApart(Today, IntervalOf(m) \div DayLength)
  BY <1>6, SpanDays
<1>8. ASSUME NEW d PROVE DateOf(d).d \in {today.d} => IsDayNamed(m, Today, d)
  BY DEF IsDayNamed
<1>9. ASSUME years \/ months
      PROVE  Seconds(spec) = 0 /\ Days(spec) = 0 /\ ~SecondsApart(m) /\ n = spec["Y"] + spec["M"]
  <2>1. Seconds(spec) = 0 /\ Days(spec) = 0
    BY <1>1, <1>4, <1>9
  <2>2. 0 % DayLength = 0 /\ 0 \div DayLength = 0
    BY DEF DayLength
  <2>3. ~SecondsApart(m)
    BY <2>1, <2>2 DEF SecondsApart
  <2> HIDE DEF spec
  <2> QED BY <1>1, <2>1, <2>2, <2>3
<1>10. MonthsMeant(m) = 12 * spec["Y"] + spec["M"]
  BY DEF MonthsMeant
<1> HIDE DEF found, time, today, n
<1>11. ASSUME NEW dates, ~SecondsApart(m), NEW days, days = RuleDays(m, Today),
              Keeps(found, days, clock, next, dates),
              NamesDayOfMonth(m) => dates = {today.d}
       PROVE  found # {} /\ SeriesAnswers(m, now, zone, AnswerSeries(tokens, found))
  <2>1. Keeps(found, RuleDays(m, Today), ClockFor(m, now, zone), next, dates)
    BY <1>5, <1>11
  <2>2. NamesDayOfMonth(m) =>
          \A d \in RuleDays(m, Today) : DateOf(d).d \in dates => IsDayNamed(m, Today, d)
    BY <1>8, <1>11
  <2>3. IsMinute(ClockFor(m, now, zone))
    BY <1>5
  <2> QED BY <1>11, <2>1, <2>2, <2>3, KeepsAnswered
<1>12. ASSUME years PROVE found # {} /\ SeriesAnswers(m, now, zone, AnswerSeries(tokens, found))
  <2>1. spec["M"] = 0 /\ spec["Y"] \in 1 .. MaxInterval
    <3>1. MaxInterval \in Int
      BY DEF MaxInterval
    <3> HIDE DEF spec
    <3> QED BY <1>1, <1>4, <1>9, <1>12, <3>1
  <2>2. found = Yearly(spec, clock, next)
    BY <1>2, <1>3, <1>4, <1>12
  <2>3. Keeps(found, MonthsApart(today.d, TRUE, ThisMonth, 12 * spec["Y"]), clock, next, {today.d})
    <3>1. IsMinute(clock)
      BY <1>5
    <3> HIDE DEF clock, next
    <3> QED BY <2>1, <2>2, <3>1, YearlyKept DEF today
  <2>4. MonthsMeant(m) = 12 * spec["Y"] /\ MonthsMeant(m) > 0
    <3> HIDE DEF spec
    <3> QED BY <1>1, <1>10, <1>12, <2>1
  <2>5. RuleDays(m, Today) = MonthsApart(today.d, TRUE, ThisMonth, 12 * spec["Y"])
    BY <1>7, <2>4
  <2> QED BY <1>9, <1>11, <1>12, <2>3, <2>5
<1>13. ASSUME ~years, months
       PROVE  found # {} /\ SeriesAnswers(m, now, zone, AnswerSeries(tokens, found))
  <2>1. spec["Y"] = 0 /\ spec["M"] \in 1 .. MaxInterval
    <3>1. MaxInterval \in Int
      BY DEF MaxInterval
    <3> HIDE DEF spec
    <3> QED BY <1>1, <1>4, <1>9, <1>13, <3>1
  <2>2. found = Monthly(spec, clock, next)
    BY <1>2, <1>3, <1>4, <1>13
  <2>3. Keeps(found, MonthsApart(today.d, TRUE, ThisMonth, spec["M"]), clock, next, {today.d})
    <3>1. IsMinute(clock)
      BY <1>5
    <3> HIDE DEF clock, next
    <3> QED BY <2>1, <2>2, <3>1, MonthlyKept DEF today
  <2>4. MonthsMeant(m) = spec["M"] /\ MonthsMeant(m) > 0
    <3> HIDE DEF spec
    <3> QED BY <1>1, <1>10, <1>13, <2>1
  <2>5. RuleDays(m, Today) = MonthsApart(today.d, TRUE, ThisMonth, spec["M"])
    BY <1>7, <2>4
  <2> QED BY <1>9, <1>11, <1>13, <2>3, <2>5
<1>14. ASSUME ~years, ~months
       PROVE  found # {} /\ SeriesAnswers(m, now, zone, AnswerSeries(tokens, found))
  <2>1. spec["Y"] = 0 /\ spec["M"] = 0 /\ ~(MonthsMeant(m) > 0)
    <3> HIDE DEF spec
    <3> QED BY <1>1, <1>10, <1>14
  <2>2. found = ByDaysOrSeconds(spec, clock, next)
    BY <1>2, <1>3, <1>4, <1>14
  <2>3. /\ Seconds(spec) % DayLength # 0 => Counts(found, IntervalOf(m), next)
        /\ Seconds(spec) % DayLength = 0 =>
             Keeps(found, DaysApart(Today, IntervalOf(m) \div DayLength), clock, next, Int)
    <3>1. IntervalOf(m) = Days(spec) * DayLength + Seconds(spec)
      BY DEF IntervalOf
    <3>2. spec \in [Unit -> Nat] /\ ~NoInterval(spec, m.clock)
      OBVIOUS
    <3> HIDE DEF spec, clock, next
    <3> QED BY <1>5, <2>1, <2>2, <3>1, <3>2, DaysOrSecondsKept
  <2>4. ~NamesDayOfMonth(m)
    <3>1. m.kind # "date" /\ m.kind # "monthday" /\ ~(spec["Y"] + spec["M"] > 0)
      <4> HIDE DEF spec
      <4>1. ~(spec["Y"] + spec["M"] > 0)
        BY <2>1
      <4> QED BY <4>1
    <3> QED BY <3>1 DEF NamesDayOfMonth
  <2>5. SecondsApart(m) <=> Seconds(spec) % DayLength # 0
    BY DEF SecondsApart
  <2>6. RuleDays(m, Today) = DaysApart(Today, IntervalOf(m) \div DayLength)
    BY <1>7, <2>1
  <2>7. CASE SecondsApart(m)
    BY <2>3, <2>4, <2>5, <2>7, CountsAnswered
  <2>8. CASE ~SecondsApart(m)
    BY <1>11, <2>3, <2>4, <2>5, <2>6, <2>8
  <2> QED BY <2>7, <2>8
<1> QED BY <1>12, <1>13, <1>14 DEF found

\* A command for a series of spans.
LEMMA SpanAnswered ==
    ASSUME zone \in Zone, now \in Int, LeftOutHourFollows(zone),
           NEW p, p.words \in Seq(Token), SpanIsRead(p), p.recurring,
           p.means.kind = "relative", p.means.date = {}
    PROVE  SeriesAnswers(p.means, now, zone, ParseRecurring(p.words))
<1> DEFINE match == Relative(p.words)
           times == TimeAfterSpec(p.words, match.next, match.spec)
           found == SeriesOf(match, times)
           m == p.means
           answer == AnswerSeries(p.words, found)
<1>1. /\ match.kind = "spec" /\ match.spec = m.spec /\ {t.clock : t \in times} = m.clock
      /\ ~IsKey(p.words, 1, "in")
  BY DEF SpanIsRead
<1>2. p.words # <<>> /\ match.spec \in [Unit -> Nat] /\ match.next \in Nat
  BY <1>1, SpanType
<1>3. times \subseteq OptionalTime(p.words, match.next)
  BY DEF TimeAfterSpec
<1>4. RelativeSeries(p.words) = found
  BY <1>1 DEF RelativeSeries
<1>5. m.kind = "relative" /\ m.date = {} /\ m.spec \in [Unit -> Nat]
  BY <1>1, <1>2
<1> HIDE DEF found
<1>6. found # {} => ParseRecurring(p.words) = answer
  BY <1>2, <1>4 DEF ParseRecurring, OrElse
<1> HIDE DEF match, times, m
<1>7. ASSUME NoInterval(m.spec, m.clock)
      PROVE  found # {} /\ SeriesAnswers(m, now, zone, answer)
  <2>1. \A t \in times : t.clock \in Int
    BY <1>2, <1>3, ClockAfter
  <2>2. times = {} <=> m.clock = {}
    BY <1>1
  <2>3. Refused(found)
    BY <1>1, <1>2, <1>7, <2>1, <2>2, SpanSeries DEF found
  <2> QED BY <2>3, RefusedAnswers
<1>8. ASSUME ~NoInterval(m.spec, m.clock)
      PROVE  found # {} /\ SeriesAnswers(m, now, zone, answer)
  BY <1>1, <1>2, <1>3, <1>5, <1>8, SpanKept DEF found
<1> QED BY <1>6, <1>7, <1>8 DEF m

\* A day that is named rings at the time that is given with it, or at nine.
LEMMA NamedClock ==
    ASSUME NEW tokens \in Seq(Token), NEW m, m.kind # "relative",
           {t.clock : t \in OptionalTime(tokens, 2)} = m.clock
    PROVE  LET clock == TimeAfterFirst(tokens).clock
           IN  IsMinute(clock) /\ clock = ClockFor(m, now, zone)
<1> DEFINE from == 2
           times == OptionalTime(tokens, from)
           default == DefaultTime
<1>1. IsMinute(default)
  BY DEF DefaultTime, Clock, Hour, IsMinute, DayLength
<1>2. from \in Nat /\ times \subseteq OptionalTime(tokens, from) /\ {t.clock : t \in times} = m.clock
  OBVIOUS
<1>3. TimeAfterFirst(tokens) = TimeOr(times, default, from)
  BY DEF TimeAfterFirst
<1> HIDE DEF default, from, times
<1>4. LET clock == TimeOr(times, default, from).clock
      IN  IsMinute(clock) /\ clock = IF m.clock # {} THEN The(m.clock) ELSE default
  BY <1>1, <1>2, ClockTakenFor
<1> QED BY <1>3, <1>4 DEF ClockFor, default

LEMMA NothingSpelled == NoSpec["Y"] = 0 /\ NoSpec["M"] = 0
<1> QED BY UnitNames DEF NoSpec, Units

\* The first strategy that makes a series of the first token is the one that counts.
LEMMA FirstStrategy ==
    ASSUME NEW tokens
    PROVE  /\ WeekdaySeries(tokens) # {} => NamedSeries(tokens) = WeekdaySeries(tokens)
           /\ WeekdaySeries(tokens) = {} /\ DayOfMonthSeries(tokens) # {} =>
                NamedSeries(tokens) = DayOfMonthSeries(tokens)
           /\ WeekdaySeries(tokens) = {} /\ DayOfMonthSeries(tokens) = {} =>
                NamedSeries(tokens) = MonthDaySeries(tokens)
<1> QED BY Zenon DEF NamedSeries, OrElse

LEMMA NoWeekdays ==
    ASSUME NEW tokens, tokens[1].days = {}
    PROVE  WeekdaySeries(tokens) = {}
<1> QED BY Zenon DEF WeekdaySeries

LEMMA NoDayOfMonth ==
    ASSUME NEW tokens, NEW date, date = The(tokens[1].date),
           tokens[1].date = {} \/ ~tokens[1].dot \/ date.y # 0 \/ ~(date.m = 0 /\ date.d \in 1 .. 31)
    PROVE  DayOfMonthSeries(tokens) = {}
<1> DEFINE days == tokens[1].date
           clock == TimeAfterFirst(tokens).clock
           next == TimeAfterFirst(tokens).next
           lastDay == Make(MonthlyLastDayAnchor(clock), MonthlyLastDay(clock),
                           {"MonthlyLastDay"}, next)
           oneDay == Make(MonthlyAnchor(date.d, 1, clock), MonthlyEvery(1, date.d, clock), {}, next)
<1>1. DayOfMonthSeries(tokens)
        = IF days = {} \/ ~tokens[1].dot \/ date.y # 0 \/ date.m # 0 \/ date.d \notin 1 .. 31
          THEN {} ELSE IF date.d = 31 THEN lastDay ELSE oneDay
  BY DEF DayOfMonthSeries
<1> HIDE DEF lastDay, oneDay
<1> QED BY <1>1

LEMMA WeekdaysAnswered ==
    ASSUME zone \in Zone, now \in Int, LeftOutHourFollows(zone),
           NEW tokens \in Seq(Token), tokens # <<>>,
           NEW m, m.kind = "weekday", m.spec = NoSpec, m.days = tokens[1].days, m.days # {},
           {t.clock : t \in OptionalTime(tokens, 2)} = m.clock
    PROVE  LET found == NamedSeries(tokens)
           IN  found # {} /\ SeriesAnswers(m, now, zone, AnswerSeries(tokens, found))
<1> DEFINE clock == TimeAfterFirst(tokens).clock
           next == TimeAfterFirst(tokens).next
           weekdays == m.days
           found == NamedSeries(tokens)
<1>1. weekdays \in SUBSET (0 .. 6)
  <2>1. tokens[1] \in Token
    OBVIOUS
  <2> QED BY <2>1 DEF Token
<1>2. IsMinute(clock) /\ clock = ClockFor(m, now, zone)
  <2>1. m.kind # "relative"
    OBVIOUS
  <2> QED BY <2>1, NamedClock
<1>3. found = Make(WeeklyAnchor(weekdays, clock), Weekly(weekdays, clock), {}, next)
  <2> DEFINE made == Make(WeeklyAnchor(weekdays, clock), Weekly(weekdays, clock), {}, next)
  <2>1. WeekdaySeries(tokens) = made
    BY Zenon DEF WeekdaySeries, made, clock, next, weekdays
  <2>2. made # {}
    BY DEF Make
  <2> HIDE DEF made, clock, next, weekdays
  <2>3. NamedSeries(tokens) = made
    BY <2>1, <2>2, FirstStrategy
  <2> QED BY <2>3 DEF made
<1>4. ~NamesDayOfMonth(m) /\ ~SecondsApart(m)
  <2>1. m.kind # "date" /\ m.kind # "monthday" /\ m.kind # "relative"
    OBVIOUS
  <2>2. ~(m.spec["Y"] + m.spec["M"] > 0)
    BY NothingSpelled
  <2> QED BY <2>1, <2>2 DEF NamesDayOfMonth, SecondsApart
<1>5. RuleDays(m, Today) = OnWeekdays(weekdays)
  BY WeekdayDays
<1> HIDE DEF clock, next, weekdays, found
<1>6. Keeps(found, OnWeekdays(weekdays), clock, next, Int)
  BY <1>1, <1>2, <1>3, WeekdaysKept DEF weekdays
<1>7. found # {} /\ SeriesAnswers(m, now, zone, AnswerSeries(tokens, found))
  BY <1>2, <1>4, <1>5, <1>6, KeepsAnswered
<1> QED BY <1>7 DEF found

LEMMA LastDayKept ==
    ASSUME zone \in Zone, now \in Int, LeftOutHourFollows(zone), NEW clock, IsMinute(clock),
           NEW next
    PROVE  Keeps(Make(MonthlyLastDayAnchor(clock), MonthlyLastDay(clock), {"MonthlyLastDay"}, next),
                 MonthsApart(31, TRUE, ThisMonth, 1), clock, next, {31})
<1> DEFINE rule == MonthlyLastDay(clock)
           notes == {"MonthlyLastDay"}
           last == 31
           n == 1
<1>0. TRUE \in BOOLEAN
  OBVIOUS
<1>1. IsRule(rule)
  BY NamedRules DEF IsMinute
<1>2. /\ rule.freq = "monthly" /\ rule.interval = n /\ rule.clock = clock
      /\ rule.days = {-1} /\ rule.latest = FALSE
  BY DEF MonthlyLastDay, MonthlyEvery, AnyRule
<1>3. notes # {} /\ last \in 1 .. 31 /\ n \in Int /\ 0 < n
  OBVIOUS
<1> HIDE DEF rule, notes
<1>4. ASSUME NEW i \in Int PROVE NamesDay(rule, last, TRUE, i)
  <2>1. LastDay(i \div 12, (i % 12) + 1) \in 28 .. 31
    BY LastDayRange
  <2>2. LastDay(i \div 12, (i % 12) + 1) <= last
    BY <2>1
  <2> QED BY <1>2, <1>3, <2>2, NamesLast
<1> HIDE DEF last, n
<1>5. Keeps(Make(MonthsAnchor(n, last, TRUE, clock), rule, notes, next),
            MonthsApart(last, TRUE, ThisMonth, n), clock, next, {last})
  BY <1>0, <1>1, <1>2, <1>3, <1>4, MonthsKept
<1> QED BY <1>5 DEF MonthlyLastDayAnchor, n, last, rule, notes

LEMMA OneDayKept ==
    ASSUME zone \in Zone, now \in Int, LeftOutHourFollows(zone), NEW clock, IsMinute(clock),
           NEW day \in 1 .. 30, NEW next
    PROVE  Keeps(Make(MonthlyAnchor(day, 1, clock), MonthlyEvery(1, day, clock), {}, next),
                 MonthsApart(day, FALSE, ThisMonth, 1), clock, next, {day})
<1> DEFINE n == 1
           rule == MonthlyEvery(n, day, clock)
           notes == {}
           clamped == FALSE
<1>1. IsRule(rule)
  BY NamedRules DEF IsMinute
<1>2. /\ rule.freq = "monthly" /\ rule.interval = n /\ rule.clock = clock
      /\ rule.days = {day} /\ rule.latest = FALSE
  BY DEF MonthlyEvery, AnyRule
<1>3. n \in Int /\ 0 < n /\ n = 1 /\ day <= 30 /\ day \in 1 .. 31
  OBVIOUS
<1> HIDE DEF rule, notes, n
<1>4. ASSUME NEW i \in Int PROVE NamesDay(rule, day, FALSE, i)
  BY <1>2, <1>3, NamesOneDay
<1>5. ~clamped /\ clamped \in BOOLEAN /\ \A i \in Int : NamesDay(rule, day, clamped, i)
  BY <1>4
<1>6. MonthlyAnchor(day, n, clock) = MonthsAnchor(n, day, clamped, clock)
  BY DEF MonthlyAnchor
<1> HIDE DEF clamped
<1>7. Keeps(Make(MonthsAnchor(n, day, clamped, clock), rule, notes, next),
            MonthsApart(day, clamped, ThisMonth, n), clock, next, {day})
  BY <1>1, <1>2, <1>3, <1>5, MonthsKept
<1>8. Keeps(Make(MonthlyAnchor(day, n, clock), rule, notes, next),
            MonthsApart(day, clamped, ThisMonth, n), clock, next, {day})
  BY <1>6, <1>7
<1> QED BY <1>8 DEF n, rule, notes, clamped

LEMMA DayOfMonthAnswered ==
    ASSUME zone \in Zone, now \in Int, LeftOutHourFollows(zone),
           NEW tokens \in Seq(Token), tokens # <<>>, tokens[1].days = {}, tokens[1].dot,
           NEW m, m.kind = "monthday", m.date = tokens[1].date, m.date # {},
           NEW date, date = The(m.date), date.y = 0, date.m = 0, date.d \in 1 .. 31,
           {t.clock : t \in OptionalTime(tokens, 2)} = m.clock
    PROVE  LET found == NamedSeries(tokens)
           IN  found # {} /\ SeriesAnswers(m, now, zone, AnswerSeries(tokens, found))
<1> DEFINE clock == TimeAfterFirst(tokens).clock
           next == TimeAfterFirst(tokens).next
           day == date.d
           found == NamedSeries(tokens)
<1>1. IsMinute(clock) /\ clock = ClockFor(m, now, zone)
  <2>1. m.kind # "relative"
    OBVIOUS
  <2> QED BY <2>1, NamedClock
<1>2. ~SecondsApart(m)
  BY DEF SecondsApart
<1>3. /\ Today \in Int /\ ThisMonth = MonthIndex(Today)
  BY TodayParts
<1>4. /\ day = 31 => RuleDays(m, Today) = MonthsApart(31, TRUE, ThisMonth, 1)
      /\ day # 31 => RuleDays(m, Today) = MonthsApart(day, FALSE, ThisMonth, 1)
  BY <1>3, DayOfMonthDays
<1>5. ASSUME NEW d PROVE DateOf(d).d \in {day} => IsDayNamed(m, Today, d)
  BY DEF IsDayNamed
<1>6. /\ day = 31 =>
           found = Make(MonthlyLastDayAnchor(clock), MonthlyLastDay(clock), {"MonthlyLastDay"}, next)
      /\ day # 31 /\ day \in 1 .. 30 =>
           found = Make(MonthlyAnchor(day, 1, clock), MonthlyEvery(1, day, clock), {}, next)
  <2> DEFINE lastDay == Make(MonthlyLastDayAnchor(clock), MonthlyLastDay(clock),
                             {"MonthlyLastDay"}, next)
             oneDay == Make(MonthlyAnchor(day, 1, clock), MonthlyEvery(1, day, clock), {}, next)
  <2>1. tokens[1].dot /\ tokens[1].date # {} /\ The(tokens[1].date) = date
    OBVIOUS
  <2>2. date.y = 0 /\ date.m = 0 /\ day \in 1 .. 31
    OBVIOUS
  <2>3. DayOfMonthSeries(tokens) = IF day = 31 THEN lastDay ELSE oneDay
    BY ONLY <2>1, <2>2, Zenon DEF DayOfMonthSeries, lastDay, oneDay, day, clock, next
  <2>4. lastDay # {} /\ oneDay # {}
    BY DEF Make
  <2>5. WeekdaySeries(tokens) = {}
    BY NoWeekdays
  <2> HIDE DEF lastDay, oneDay, day, clock, next
  <2>6. NamedSeries(tokens) = IF day = 31 THEN lastDay ELSE oneDay
    BY <2>3, <2>4, <2>5, FirstStrategy
  <2> QED BY <2>6 DEF lastDay, oneDay
<1>7. day \in 1 .. 31
  OBVIOUS
<1> HIDE DEF clock, next, day, found
<1>8. ASSUME day = 31 PROVE Keeps(found, RuleDays(m, Today), clock, next, {day})
  <2>1. Keeps(Make(MonthlyLastDayAnchor(clock), MonthlyLastDay(clock), {"MonthlyLastDay"}, next),
              MonthsApart(31, TRUE, ThisMonth, 1), clock, next, {31})
    BY <1>1, LastDayKept
  <2> QED BY <1>4, <1>6, <1>8, <2>1
<1>9. ASSUME day # 31 PROVE Keeps(found, RuleDays(m, Today), clock, next, {day})
  <2>1. day \in 1 .. 30
    BY <1>7, <1>9
  <2>2. Keeps(Make(MonthlyAnchor(day, 1, clock), MonthlyEvery(1, day, clock), {}, next),
              MonthsApart(day, FALSE, ThisMonth, 1), clock, next, {day})
    BY <1>1, <2>1, OneDayKept
  <2> QED BY <1>4, <1>6, <1>9, <2>1, <2>2
<1>10. Keeps(found, RuleDays(m, Today), clock, next, {day})
  BY <1>8, <1>9
<1>11. found # {} /\ SeriesAnswers(m, now, zone, AnswerSeries(tokens, found))
  <2> DEFINE dates == {day}
             sure == ClockFor(m, now, zone)
  <2>1. Keeps(found, RuleDays(m, Today), sure, next, dates)
    BY <1>1, <1>10
  <2>2. NamesDayOfMonth(m) =>
          \A d \in RuleDays(m, Today) : DateOf(d).d \in dates => IsDayNamed(m, Today, d)
    BY <1>5
  <2>3. IsMinute(ClockFor(m, now, zone))
    BY <1>1
  <2> HIDE DEF dates
  <2> QED BY <1>2, <2>1, <2>2, <2>3, KeepsAnswered
<1> QED BY <1>11 DEF found

LEMMA FebruaryKept ==
    ASSUME zone \in Zone, now \in Int, LeftOutHourFollows(zone), NEW clock, IsMinute(clock),
           NEW next
    PROVE  Keeps(Make(YearlyAnchor(2, 31, 1, clock), YearlyEveryLastDayOfMonth(1, 2, clock),
                      {"YearlyFeb29Fallback"}, next),
                 MonthsApart(31, TRUE, ThisYears(2), 12), clock, next, {31})
<1> DEFINE n == 1
           month == 2
           day == 31
           rule == YearlyEveryLastDayOfMonth(n, month, clock)
           notes == {"YearlyFeb29Fallback"}
           period == 12 * n
<1>1. /\ n \in Int /\ 0 < n /\ n \in 1 .. MaxInterval /\ month \in 1 .. 12 /\ notes # {}
      /\ day \in 1 .. 31 /\ day \in 29 .. 31 /\ period = 12
  BY DEF MaxInterval
<1>2. clock \in Int
  BY DEF IsMinute
<1> HIDE DEF n, day, notes
<1>3. /\ IsRule(rule) /\ rule.freq = "yearly" /\ rule.interval = n
      /\ rule.clock = clock /\ rule.month = month
      /\ \A i \in Int : (i % 12) + 1 = month => NamesDay(rule, day, TRUE, i)
  BY <1>1, <1>2, FebruaryRule
<1> HIDE DEF rule, month
<1>4. Keeps(Make(YearlyAnchor(month, day, n, clock), rule, notes, next),
            MonthsApart(day, TRUE, ThisYears(month), period), clock, next, {day})
  BY <1>1, <1>3, YearsKept
<1> HIDE DEF period
<1>5. Keeps(Make(YearlyAnchor(month, day, n, clock), rule, notes, next),
            MonthsApart(day, TRUE, ThisYears(month), 12), clock, next, {day})
  BY <1>1, <1>4
<1> QED BY <1>5 DEF n, month, day, rule, notes

LEMMA DayOfYearKept ==
    ASSUME zone \in Zone, now \in Int, LeftOutHourFollows(zone), NEW clock, IsMinute(clock),
           NEW month \in 1 .. 12, NEW day \in 1 .. 31, \A y : day <= LastDay(y, month), NEW next
    PROVE  Keeps(Make(YearlyAnchor(month, day, 1, clock), YearlyEvery(1, month, day, clock), {}, next),
                 MonthsApart(day, TRUE, ThisYears(month), 12), clock, next, {day})
<1> DEFINE n == 1
           rule == YearlyEvery(n, month, day, clock)
           notes == {}
           period == 12 * n
<1>1. n \in Int /\ 0 < n /\ n \in 1 .. MaxInterval /\ period = 12
  BY DEF MaxInterval
<1>2. clock \in Int
  BY DEF IsMinute
<1> HIDE DEF n, notes
<1>3. /\ IsRule(rule) /\ rule.freq = "yearly" /\ rule.interval = n
      /\ rule.clock = clock /\ rule.month = month
      /\ \A i \in Int : (i % 12) + 1 = month => NamesDay(rule, day, TRUE, i)
  BY <1>1, <1>2, YearRule
<1> HIDE DEF rule
<1>4. Keeps(Make(YearlyAnchor(month, day, n, clock), rule, notes, next),
            MonthsApart(day, TRUE, ThisYears(month), period), clock, next, {day})
  BY <1>1, <1>3, YearsKept
<1> HIDE DEF period
<1>5. Keeps(Make(YearlyAnchor(month, day, n, clock), rule, notes, next),
            MonthsApart(day, TRUE, ThisYears(month), 12), clock, next, {day})
  BY <1>1, <1>4
<1> QED BY <1>5 DEF n, rule, notes

IsFebruary29(date) == date.m = 2 /\ date.d = 29
IsInEveryYear(month, day) == \A y : day <= LastDay(y, month)

LEMMA DatesOfYear ==
    ASSUME NEW date \in Date, Exists(WithYear(date, 2024))
    PROVE  /\ date.m \in 1 .. 12 /\ date.d \in 1 .. 31
           /\ ~IsFebruary29(date) => IsInEveryYear(date.m, date.d)
<1> DEFINE leap == 2024
           there == WithYear(date, leap)
<1>1. there.m = date.m /\ there.d = date.d /\ there.y = leap /\ leap \in Int
  BY DEF Date, WithYear
<1>2. Exists(there)
  OBVIOUS
<1> HIDE DEF leap, there
<1>3. date.m \in 1 .. 12 /\ date.d \in 1 .. LastDay(leap, date.m)
  BY <1>1, <1>2 DEF Exists
<1>4. date.d \in 1 .. 31
  BY <1>3, LastDayRange
<1> DEFINE month == date.m
           day == date.d
<1>5. leap \in Int /\ month \in 1 .. 12 /\ day \in 1 .. LastDay(leap, month)
  BY <1>1, <1>3
<1> HIDE DEF month, day
<1>6. ~(month = 2 /\ day = 29) => \A y : day <= LastDay(y, month)
  BY <1>5, EveryYear
<1> QED BY <1>3, <1>4, <1>6 DEF IsFebruary29, IsInEveryYear, month, day

\* What NamedSeries makes of a day of the year.
MadeOfDate(date, clock, next) ==
    IF IsFebruary29(date)
    THEN Make(YearlyAnchor(2, 31, 1, clock), YearlyEveryLastDayOfMonth(1, 2, clock),
              {"YearlyFeb29Fallback"}, next)
    ELSE Make(YearlyAnchor(date.m, date.d, 1, clock),
              YearlyEvery(1, date.m, date.d, clock), {}, next)

LEMMA DateSeries ==
    ASSUME NEW tokens, tokens[1].days = {}, tokens[1].date # {}, ~tokens[1].dot,
           NEW date, date = The(tokens[1].date), date.y = 0, date.m # 0,
           Exists(WithYear(date, 2024))
    PROVE  LET clock == TimeAfterFirst(tokens).clock
               next == TimeAfterFirst(tokens).next
           IN  NamedSeries(tokens) = MadeOfDate(date, clock, next)
<1>1. Exists([date EXCEPT !.y = 2024])
  BY DEF WithYear
<1>2. DayOfMonthSeries(tokens) = {} /\ WeekdaySeries(tokens) = {}
  BY NoWeekdays, NoDayOfMonth
<1>3. NamedSeries(tokens) = MonthDaySeries(tokens)
  BY <1>2, FirstStrategy
<1> QED BY <1>1, <1>3 DEF MonthDaySeries, IsFebruary29, MadeOfDate

LEMMA DateAnswered ==
    ASSUME zone \in Zone, now \in Int, LeftOutHourFollows(zone),
           NEW m, m.kind = "date", m.date # {}, NEW date, date = The(m.date),
           date.m \in 1 .. 12, date.d \in 1 .. 31,
           ~IsFebruary29(date) => IsInEveryYear(date.m, date.d),
           IsMinute(ClockFor(m, now, zone)), NEW tokens, NEW next
    PROVE  LET found == MadeOfDate(date, ClockFor(m, now, zone), next)
           IN  found # {} /\ SeriesAnswers(m, now, zone, AnswerSeries(tokens, found))
<1> DEFINE month == date.m
           day == date.d
           clock == ClockFor(m, now, zone)
           found == MadeOfDate(date, clock, next)
<1>0. /\ month \in 1 .. 12 /\ day \in 1 .. 31 /\ month = date.m /\ day = date.d
      /\ IsMinute(clock) /\ clock = ClockFor(m, now, zone)
      /\ ~IsFebruary29(date) => IsInEveryYear(month, day)
      /\ found = MadeOfDate(date, clock, next)
  OBVIOUS
<1> HIDE DEF month, day, clock, found
<1>1. ~SecondsApart(m)
  BY DEF SecondsApart
<1>2. /\ RuleDays(m, Today) = MonthsApart(day, TRUE, ThisYears(month), 12)
      /\ IsFebruary29(date) =>
           RuleDays(m, Today) = MonthsApart(31, TRUE, ThisYears(2), 12)
  <2> DEFINE today == Today
  <2> HIDE DEF today
  <2>1. The(m.date).m \in 1 .. 12 /\ The(m.date).d \in 1 .. 31
    BY <1>0
  <2>2. /\ RuleDays(m, today) = MonthsApart(The(m.date).d, TRUE, ThisYears(The(m.date).m), 12)
        /\ The(m.date).m = 2 /\ The(m.date).d = 29 =>
             RuleDays(m, today) = MonthsApart(31, TRUE, ThisYears(The(m.date).m), 12)
    BY <2>1, DateDays
  <2> QED BY <1>0, <2>2 DEF today, IsFebruary29
<1>3. ASSUME NEW d PROVE DateOf(d).d \in {day} => IsDayNamed(m, Today, d)
  BY <1>0 DEF IsDayNamed
<1>4. ASSUME NEW dates, Keeps(found, RuleDays(m, Today), clock, next, dates),
             \A d \in RuleDays(m, Today) : DateOf(d).d \in dates => IsDayNamed(m, Today, d)
      PROVE  found # {} /\ SeriesAnswers(m, now, zone, AnswerSeries(tokens, found))
  <2> DEFINE sure == ClockFor(m, now, zone)
  <2>1. Keeps(found, RuleDays(m, Today), sure, next, dates)
    BY <1>0, <1>4
  <2>2. IsMinute(ClockFor(m, now, zone))
    BY <1>0
  <2> QED BY <1>1, <1>4, <2>1, <2>2, KeepsAnswered
<1>5. ASSUME IsFebruary29(date)
      PROVE  found # {} /\ SeriesAnswers(m, now, zone, AnswerSeries(tokens, found))
  <2> DEFINE dates == {31}
  <2>1. Keeps(found, RuleDays(m, Today), clock, next, dates)
    <3>1. Keeps(Make(YearlyAnchor(2, 31, 1, clock), YearlyEveryLastDayOfMonth(1, 2, clock),
                     {"YearlyFeb29Fallback"}, next),
                MonthsApart(31, TRUE, ThisYears(2), 12), clock, next, dates)
      BY <1>0, FebruaryKept
    <3> QED BY <1>0, <1>2, <1>5, <3>1 DEF MadeOfDate
  <2>2. ASSUME NEW d \in RuleDays(m, Today) PROVE DateOf(d).d # 31
    <3>1. m.kind # "weekday" /\ m.kind # "monthday" /\ m.kind # "relative"
      OBVIOUS
    <3>2. RingsOn(m, Today, d)
      BY <2>2 DEF RuleDays
    <3>3. DateOf(d).m = The(m.date).m /\ AtDay(DateOf(d), The(m.date).d)
      BY <3>1, <3>2, Zenon DEF RingsOn
    <3>4. DateOf(d).m = 2 /\ AtDay(DateOf(d), 29)
      BY <1>5, <3>3 DEF IsFebruary29
    <3> QED BY <3>4 DEF AtDay, AtMost, LastDay
  <2>3. \A d \in RuleDays(m, Today) : DateOf(d).d \in dates => IsDayNamed(m, Today, d)
    BY <2>2
  <2> HIDE DEF dates
  <2> QED BY <1>4, <2>1, <2>3
<1>6. ASSUME ~IsFebruary29(date)
      PROVE  found # {} /\ SeriesAnswers(m, now, zone, AnswerSeries(tokens, found))
  <2> DEFINE dates == {day}
  <2>1. Keeps(Make(YearlyAnchor(month, day, 1, clock), YearlyEvery(1, month, day, clock), {}, next),
              MonthsApart(day, TRUE, ThisYears(month), 12), clock, next, dates)
    BY <1>0, <1>6, DayOfYearKept DEF IsInEveryYear
  <2>2. Keeps(found, RuleDays(m, Today), clock, next, dates)
    BY <1>0, <1>2, <1>6, <2>1 DEF MadeOfDate
  <2>3. \A d \in RuleDays(m, Today) : DateOf(d).d \in dates => IsDayNamed(m, Today, d)
    BY <1>3
  <2> HIDE DEF dates
  <2> QED BY <1>4, <2>2, <2>3
<1> QED BY <1>5, <1>6 DEF found, clock

\* Words that name nothing that recurs are refused.
LEMMA NothingAnswered ==
    ASSUME NEW p, NothingRecurs(p)
    PROVE  ParseRecurring(p.words).error # None
<1> DEFINE tokens == p.words
           match == Relative(tokens)
           date == The(tokens[1].date)
<1>1. CASE tokens = <<>>
  <2>1. ParseRecurring(tokens) = Refusal("Empty")
    BY <1>1 DEF ParseRecurring
  <2> QED BY <2>1 DEF Refusal, None
<1>2. CASE tokens # <<>>
  <2>1. /\ IsKey(tokens, 1, "in") \/ match.kind # "spec"
        /\ tokens[1].days = {}
        /\ \A d \in tokens[1].date :
             \/ d.y # 0
             \/ ~IF tokens[1].dot THEN d.m = 0 /\ d.d \in 1 .. 31 ELSE Exists(WithYear(d, 2024))
    BY <1>2 DEF NothingRecurs
  <2>2. NamedSeries(tokens) = {}
    <3>1. tokens[1].date # {} => date \in tokens[1].date
      BY DEF The
    <3> HIDE DEF match
    <3>2. tokens[1].date = {} \/ date.y # 0
            \/ IF tokens[1].dot THEN ~(date.m = 0 /\ date.d \in 1 .. 31)
               ELSE ~Exists([date EXCEPT !.y = 2024])
      BY <2>1, <3>1 DEF WithYear
    <3> HIDE DEF tokens
    <3>3. DayOfMonthSeries(tokens) = {}
      BY <3>2, NoDayOfMonth DEF date
    <3>4. MonthDaySeries(tokens) = {}
      BY <3>2 DEF MonthDaySeries, date
    <3> QED BY <2>1, <3>3, <3>4, NoWeekdays, FirstStrategy
  <2>3. RelativeSeries(tokens) \in {{}, Refuse("InvalidRelSpec")}
    <3>1. match.kind \in {"none", "bad", "spec"}
      BY RelativeKinds
    <3> HIDE DEF match
    <3>2. ASSUME NEW times PROVE match.kind = "none" => SeriesOf(match, times) = {}
      BY DEF SeriesOf
    <3>3. ASSUME NEW times PROVE match.kind = "bad" => SeriesOf(match, times) = Refuse("InvalidRelSpec")
      BY DEF SeriesOf
    <3>4. \/ RelativeSeries(tokens) = {} \/ ~IsKey(tokens, 1, "in")
      BY DEF RelativeSeries
    <3>5. \/ RelativeSeries(tokens) = {}
          \/ RelativeSeries(tokens) = SeriesOf(match, TimeAfterSpec(tokens, match.next, match.spec))
      BY DEF RelativeSeries, match
    <3> QED BY <2>1, <3>1, <3>2, <3>3, <3>4, <3>5
  <2>4. CASE RelativeSeries(tokens) = {}
    <3>1. ParseRecurring(tokens) = AnswerSeries(tokens, {})
      BY <1>2, <2>2, <2>4 DEF ParseRecurring, OrElse
    <3>2. AnswerSeries(tokens, {}) = Refusal("NoTimeExpression")
      BY DEF AnswerSeries
    <3> QED BY <3>1, <3>2 DEF Refusal, None
  <2>5. CASE RelativeSeries(tokens) = Refuse("InvalidRelSpec")
    <3> DEFINE found == Refuse("InvalidRelSpec")
    <3>1. Refused(found)
      <4>1. "InvalidRelSpec" # None
        BY DEF None
      <4> QED BY <4>1 DEF Refused
    <3> HIDE DEF found
    <3>2. found # {} /\ AnswerSeries(tokens, found).error # None
      BY <3>1, RefusedAnswer
    <3>3. ParseRecurring(tokens) = AnswerSeries(tokens, found)
      BY <1>2, <2>5, <3>2 DEF ParseRecurring, OrElse, found
    <3> QED BY <3>2, <3>3
  <2> QED BY <2>3, <2>4, <2>5
<1> QED BY <1>1, <1>2

\* A command that names days.
LEMMA NamedAnswered ==
    ASSUME zone \in Zone, now \in Int, LeftOutHourFollows(zone),
           NEW p, p.words \in Seq(Token), DaysAreRead(p),
           p.means.kind \in {"weekday", "monthday", "date"}
    PROVE  SeriesAnswers(p.means, now, zone, ParseRecurring(p.words))
<1> DEFINE tokens == p.words
           m == p.means
           date == The(m.date)
           found == NamedSeries(tokens)
<1>1. /\ tokens # <<>> /\ Relative(tokens).kind = "none"
      /\ {t.clock : t \in OptionalTime(tokens, 2)} = m.clock
      /\ tokens[1].days = m.days /\ tokens[1].date = m.date /\ m.spec = NoSpec
  BY Zenon DEF DaysAreRead
<1>2. ParseRecurring(tokens) = AnswerSeries(tokens, found)
  <2>1. RelativeSeries(tokens) = {}
    BY <1>1 DEF RelativeSeries, SeriesOf
  <2> QED BY <1>1, <2>1 DEF ParseRecurring, OrElse
<1>3. CASE m.kind = "weekday"
  <2>1. m.kind # "monthday" /\ m.kind # "date"
    BY <1>3
  <2>2. tokens[1].days # {}
    BY <1>3, <2>1, Zenon DEF DaysAreRead
  <2> HIDE DEF found, tokens, m
  <2> QED BY <1>1, <1>2, <1>3, <2>2, WeekdaysAnswered DEF found, tokens, m
<1>4. CASE m.kind = "monthday"
  <2>1. m.kind # "weekday" /\ m.kind # "date"
    BY <1>4
  <2>2. /\ tokens[1].days = {} /\ tokens[1].date # {} /\ tokens[1].dot
        /\ date.y = 0 /\ date.m = 0 /\ date.d \in 1 .. 31
    BY <1>4, <2>1 DEF DaysAreRead
  <2>3. m.date # {} /\ date = The(m.date) /\ tokens \in Seq(Token)
    BY <1>1, <2>2
  <2> HIDE DEF date, tokens, m, found
  <2>4. found # {} /\ SeriesAnswers(m, now, zone, AnswerSeries(tokens, found))
    BY <1>1, <1>4, <2>2, <2>3, DayOfMonthAnswered DEF found
  <2> QED BY <1>2, <2>4 DEF tokens, m
<1>5. CASE m.kind = "date"
  <2> DEFINE month == date.m
             day == date.d
             clock == TimeAfterFirst(tokens).clock
             next == TimeAfterFirst(tokens).next
  <2>0. m.kind # "weekday" /\ m.kind # "monthday"
    BY <1>5
  <2>9. /\ tokens[1].days = {} /\ tokens[1].date # {} /\ ~tokens[1].dot
        /\ date.y = 0 /\ Exists(WithYear(date, 2024))
    BY <1>5, <2>0 DEF DaysAreRead
  <2>1. m.date # {} /\ tokens[1].days = {} /\ date.y = 0 /\ Exists(WithYear(date, 2024))
    BY <1>1, <2>9
  <2>2. date \in Date
    <3>1. tokens[1] \in Token
      BY <1>1
    <3>2. tokens[1].date \subseteq Date
      BY <3>1 DEF Token
    <3> QED BY <1>1, <2>1, <3>2 DEF The
  <2>3. /\ month \in 1 .. 12 /\ day \in 1 .. 31
        /\ ~IsFebruary29(date) => IsInEveryYear(month, day)
    BY <2>1, <2>2, DatesOfYear
  <2>4. IsMinute(clock) /\ clock = ClockFor(m, now, zone)
    <3>1. m.kind # "relative"
      BY <1>5
    <3> QED BY <1>1, <3>1, NamedClock
  <2>5. date.m # 0
    BY <2>3
  <2>6. found = MadeOfDate(date, clock, next)
    <3>1. date = The(tokens[1].date) /\ tokens[1].date # {}
      BY <1>1, <2>1
    <3> QED BY <2>1, <2>5, <2>9, <3>1, DateSeries
  <2>8. found # {} /\ SeriesAnswers(m, now, zone, AnswerSeries(tokens, found))
    <3> DEFINE sure == ClockFor(m, now, zone)
               made == MadeOfDate(date, sure, next)
    <3>1. m.kind = "date" /\ m.date # {} /\ date = The(m.date) /\ IsMinute(sure)
      BY <1>5, <2>1, <2>4
    <3>2. found = made
      BY <2>4, <2>6
    <3> HIDE DEF found, clock, next, date, tokens, m
    <3>3. made # {} /\ SeriesAnswers(m, now, zone, AnswerSeries(tokens, made))
      BY <2>3, <3>1, DateAnswered
    <3> QED BY <3>2, <3>3
  <2> HIDE DEF found, tokens, m
  <2> QED BY <1>2, <2>8 DEF tokens, m
<1> QED BY <1>3, <1>4, <1>5

\* A command for a series that is read as it is meant is refused, or is a series
\* on its days and at its time, or at its intervals.
LEMMA ReadAnswered ==
    ASSUME zone \in Zone, now \in Int, LeftOutHourFollows(zone),
           NEW p, p.words \in Seq(Token), p.recurring, SeriesIsRead(p)
    PROVE  SeriesAnswers(p.means, now, zone, ParseRecurring(p.words))
<1>1. CASE p.means.kind = "none" /\ NothingRecurs(p)
  <2>1. ParseRecurring(p.words).error # None
    BY <1>1, NothingAnswered
  <2> QED BY <2>1 DEF SeriesAnswers
<1>2. CASE p.means.kind = "relative" /\ SpanIsRead(p) /\ p.means.date = {}
  BY <1>2, SpanAnswered
<1>3. CASE p.means.kind \in {"weekday", "monthday", "date"} /\ DaysAreRead(p)
  BY <1>3, NamedAnswered
<1> QED BY <1>1, <1>2, <1>3 DEF SeriesIsRead

LEMMA RefusedHasNone ==
    ASSUME NEW tokens, ParseRecurring(tokens).error # None
    PROVE  ParseRecurring(tokens).schedule = {}
<1>1. \/ \E e : ParseRecurring(tokens) = Refusal(e)
      \/ \E s, notes, text : ParseRecurring(tokens) = Answer(s, notes, text)
  BY DEF ParseRecurring, AnswerSeries
<1> QED BY <1>1 DEF Refusal, Answer

-----------------------------------------------------------------------------
(* A series from its first occurrence to its last.                         *)

\* The next occurrence of a command for a series that was sent at t, after n.
RingsNext(s, m, t, z, n, u) ==
    /\ s.start <= u
    /\ SecondsApart(m) => u > n /\ u - n <= IntervalOf(m) /\ Congruent(u, t, IntervalOf(m))
    /\ ~SecondsApart(m) => Nearest(RuleDays(m, DayOf(Wall(z, t))), ClockFor(m, t, z), u, n, z)

LEMMA CountsNext ==
    ASSUME NEW s, NEW all, NEW t \in Int, CountsFrom(s, all, t)
    PROVE  /\ all \in Int /\ 0 < all /\ s.start = t + all /\ Congruent(s.start, t, all)
           /\ \A n \in Int : \A policy : s.start <= n /\ NextAfter(s, n, policy) # {} =>
                LET u == The(NextAfter(s, n, policy))
                IN  /\ s.start <= u /\ u > n /\ u - n <= all /\ Congruent(u, t, all)
<1>1. PICK k \in 1 .. MaxInterval, unit \in {1, 60, Hour} :
        k * unit = all /\ s = Schedule(t + all, NoOffset, IntervalRule(k, unit))
  BY DEF CountsFrom
<1>2. all \in Int /\ 0 < all
  <2>1. unit \in Int /\ 0 < unit /\ k \in Int /\ 0 < k
    BY InRule DEF Hour
  <2>2. k * unit \in Int /\ 0 < k * unit
    BY ONLY <2>1
  <2> QED BY <1>1, <2>2
<1>3. /\ s.start = t + all /\ s.rule.freq = "seconds"
      /\ s.rule.interval = k /\ s.rule.unit = unit
  BY <1>1 DEF Schedule, IntervalRule, AnyRule
<1> DEFINE start == t + all
<1>4. start \in Int
  BY <1>2
<1>5. ASSUME NEW x \in Int PROVE Congruent(start + x * all, t, all)
  <2>1. Congruent(start, t, all)
    <3>1. (all * 1 + 0) % all = 0
      <4>1. 1 \in Int /\ 0 \in Int /\ 0 <= 0
        OBVIOUS
      <4> QED BY <1>2, <4>1, DivisionUnique
    <3>2. start - t = all * 1 + 0
      BY <1>2
    <3> QED BY <3>1, <3>2 DEF Congruent
  <2> DEFINE a == start + x * all
  <2>2. a \in Int /\ \E y \in Int : a = start + y * all
    <3>1. x * all \in Int
      BY <1>2
    <3> QED BY <1>4, <3>1
  <2> HIDE DEF a, start
  <2> QED BY <1>2, <1>4, <2>1, <2>2, Multiples DEF a
<1>6. Congruent(start, t, all)
  <2>1. 0 * all = 0 /\ 0 \in Int
    BY <1>2
  <2>2. start + 0 * all = start
    BY <1>4, <2>1
  <2> HIDE DEF start
  <2> QED BY <1>5, <2>1, <2>2
<1>7. ASSUME NEW n \in Int, NEW policy, s.start <= n, NextAfter(s, n, policy) # {}
      PROVE  LET u == The(NextAfter(s, n, policy))
             IN  /\ s.start <= u /\ u > n /\ u - n <= all /\ Congruent(u, t, all)
  <2> DEFINE x == (n - start) \div all
             r == (n - start) % all
             a == x * all
             b == (x + 1) * all
             later == {v \in {start + a, start + b} : v > n}
             found == NextAfter(s, n, policy)
  <2>1. SecondsAhead(s, n) = {start + a, start + b}
    <3>1. ~(n < start)
      BY <1>3, <1>4, <1>7
    <3> QED BY <1>1, <1>3, <3>1 DEF SecondsAhead
  <2>2. found = IF later = {} THEN {} ELSE {Min(later)}
    BY <1>3, <2>1 DEF NextAfter, IsRecurring, Slots
  <2>3. x \in Int /\ r \in Int /\ 0 <= r /\ r < all /\ n - start = all * x + r
    <3>1. n - start \in Int
      BY <1>4
    <3> QED BY <1>2, <3>1, Division
  <2> HIDE DEF x, r, found, start
  <2>4. a \in Int /\ b = a + all /\ a = all * x
    BY <1>2, <2>3
  <2>5. Congruent(start + b, t, all)
    <3>1. x + 1 \in Int
      BY <2>3
    <3> QED BY <1>5, <3>1
  <2> HIDE DEF a, b
  <2>6. /\ ~(start + a > n) /\ start + b > n /\ (start + b) - n <= all /\ start <= start + b
        /\ start + b \in Int
    <3>1. n = start + a + r /\ start <= n
      BY <1>3, <1>4, <1>7, <2>3, <2>4 DEF start
    <3> QED BY <1>2, <1>4, <2>3, <2>4, <3>1
  <2>7. later = {start + b}
    BY <2>6
  <2>8. Min(later) = start + b
    BY <2>6, <2>7 DEF Min
  <2>9. found = {start + b}
    BY <2>2, <2>7, <2>8
  <2>10. The(found) = start + b
    BY <2>9 DEF The
  <2> QED BY <1>3, <2>5, <2>6, <2>10 DEF found, start
<1> QED BY <1>2, <1>3, <1>6, <1>7 DEF start

LEMMA FirstIsNext ==
    ASSUME NEW z \in Zone, LeftOutHourFollows(z), NEW t \in Int, NEW m, NEW s, NEW notes,
           MadeFor(s, m, notes, t, z)
    PROVE  RingsNext(s, m, t, z, t, s.start)
<1>1. CASE SecondsApart(m)
  <2> DEFINE all == IntervalOf(m)
  <2>1. CountsFrom(s, all, t)
    BY <1>1 DEF MadeFor
  <2> HIDE DEF all
  <2>2. all \in Int /\ 0 < all /\ s.start = t + all /\ Congruent(s.start, t, all)
    BY <2>1, CountsNext
  <2>3. s.start <= s.start /\ s.start > t /\ s.start - t <= all
    BY <2>2
  <2> QED BY <1>1, <2>2, <2>3 DEF RingsNext, all
<1>2. CASE ~SecondsApart(m)
  <2> DEFINE days == RuleDays(m, DayOf(Wall(z, t)))
             clock == ClockFor(m, t, z)
  <2>1. IsMinute(clock) /\ Fits(s, days, clock, z) /\ Begins(days, clock, s.start, t, z)
    BY <1>2 DEF MadeFor, KeepsDays
  <2>2. days \subseteq Int
    BY DEF RuleDays
  <2> HIDE DEF days, clock
  <2>3. clock \in Int /\ s.start \in Int
    BY <2>1 DEF IsMinute, Fits, IsSchedule
  <2>4. Nearest(days, clock, s.start, t, z)
    BY <2>1, <2>2, <2>3, BeginsNearest
  <2>5. s.start <= s.start
    BY <2>3
  <2> QED BY <1>2, <2>4, <2>5 DEF RingsNext, days, clock
<1> QED BY <1>1, <1>2

LEMMA NextIsNext ==
    ASSUME NEW z \in Zone, LeftOutHourFollows(z), NEW t \in Int, NEW m, NEW s, NEW notes,
           MadeFor(s, m, notes, t, z), NEW n \in Int, s.start <= n,
           NEW policy, NextAfter(s, n, policy) # {}
    PROVE  RingsNext(s, m, t, z, n, The(NextAfter(s, n, policy)))
<1> DEFINE u == The(NextAfter(s, n, policy))
<1>1. CASE SecondsApart(m)
  <2> DEFINE all == IntervalOf(m)
  <2>1. CountsFrom(s, all, t)
    BY <1>1 DEF MadeFor
  <2> HIDE DEF all
  <2>2. s.start <= u /\ u > n /\ u - n <= all /\ Congruent(u, t, all)
    BY <2>1, CountsNext
  <2> QED BY <1>1, <2>2 DEF RingsNext, all
<1>2. CASE ~SecondsApart(m)
  <2> DEFINE days == RuleDays(m, DayOf(Wall(z, t)))
             clock == ClockFor(m, t, z)
  <2>1. IsMinute(clock) /\ Fits(s, days, clock, z)
    BY <1>2 DEF MadeFor, KeepsDays
  <2>2. days \subseteq Int
    BY DEF RuleDays
  <2> HIDE DEF days, clock
  <2>3. Nearest(days, clock, u, n, z)
    BY <2>1, <2>2, NextNearest
  <2>4. s.start <= u
    <3>1. IsSchedule(s) /\ s.start \in Int
      BY <2>1 DEF Fits, IsSchedule
    <3>2. u \in Int /\ u > n
      BY <3>1, NextAfterType
    <3> QED BY <3>1, <3>2
  <2> QED BY <1>2, <2>3, <2>4 DEF RingsNext, days, clock
<1> QED BY <1>1, <1>2

\* Commands for series are read as they are meant, in zones where a clock that
\* is left out comes an hour later.
SeriesAsMeant ==
    \A z \in Zones : \A p \in Phrases[z] :
        p.recurring => SeriesIsRead(p) /\ LeftOutHourFollows(z)

SeriesInv ==
    /\ TypeInv
    /\ phrase = Nothing => created = now /\ series = {}
    /\ phrase # Nothing /\ phrase.recurring =>
         /\ SeriesAnswers(phrase.means, created, zone, reply)
         /\ reply.error # None => series = {}
         /\ series # {} =>
              RingsNext(The(series), phrase.means, created, zone, now, fire)

\* The schedule of a series is the one that the parser made.
LEMMA SeriesMade ==
    ASSUME SeriesInv, Running
    PROVE  MadeFor(The(series), phrase.means, reply.notes, created, zone)
<1>1. /\ series \subseteq reply.schedule /\ series # {} /\ reply.error = None
      /\ SeriesAnswers(phrase.means, created, zone, reply)
  BY DEF SeriesInv, TypeInv, Running
<1>2. PICK s : /\ reply.schedule = {s}
               /\ MadeFor(s, phrase.means, reply.notes, created, zone)
  BY <1>1 DEF SeriesAnswers
<1>3. series = {s}
  BY <1>1, <1>2
<1>4. The(series) = s
  BY <1>3 DEF The
<1> QED BY <1>2, <1>4

LEMMA SeriesInit == Init => SeriesInv
<1> SUFFICES ASSUME Init PROVE SeriesInv
  OBVIOUS
<1>1. TypeInv
  BY TypeInit
<1>2. phrase = Nothing /\ created = now /\ series = {}
  BY DEF Init
<1> QED BY <1>1, <1>2 DEF SeriesInv

LEMMA SeriesStep == SeriesAsMeant => (SeriesInv /\ [Next]_vars => SeriesInv')
<1> SUFFICES ASSUME SeriesAsMeant, SeriesInv, [Next]_vars PROVE SeriesInv'
  OBVIOUS
<1>1. TypeInv /\ TypeInv'
  BY TypeStep DEF SeriesInv
<1>2. ASSUME NEW p \in Phrases[zone], Create(p) PROVE SeriesInv'
  <2>1. /\ phrase = Nothing /\ phrase' = p /\ reply' = ParseCommand(p)
        /\ series' = reply'.schedule
        /\ fire' = IF series' = {} THEN now ELSE The(series').start
        /\ now' = now /\ zone' = zone /\ created' = created
    BY <1>2 DEF Create
  <2>2. created = now /\ zone \in Zones /\ zone \in Zone /\ now \in Int /\ p.words \in Seq(Token)
    BY <1>1, <2>1, CommandsAssumption DEF SeriesInv, TypeInv
  <2>3. CASE phrase' # Nothing /\ p.recurring
    <3>1. SeriesIsRead(p) /\ LeftOutHourFollows(zone)
      BY <2>2, <2>3 DEF SeriesAsMeant
    <3> DEFINE answer == ParseRecurring(p.words)
    <3>2. SeriesAnswers(p.means, now, zone, answer)
      BY <2>2, <2>3, <3>1, ReadAnswered
    <3>3. answer.error # None => answer.schedule = {}
      BY RefusedHasNone
    <3>4. p.words = <<>> => answer = Refusal("Empty")
      BY DEF ParseRecurring
    <3>5. reply' = answer
      BY <2>1, <2>3, <3>4 DEF ParseCommand
    <3> HIDE DEF answer
    <3>6. series' # {} =>
            RingsNext(The(series'), p.means, created, zone, now, fire')
      <4> SUFFICES ASSUME series' # {}
                   PROVE  RingsNext(The(series'), p.means, created, zone, now, fire')
        OBVIOUS
      <4>1. answer.error = None
        BY <2>1, <3>3, <3>5
      <4>2. PICK s : /\ answer.schedule = {s}
                     /\ MadeFor(s, p.means, answer.notes, now, zone)
        BY <3>2, <4>1 DEF SeriesAnswers
      <4>3. The(series') = s
        BY <2>1, <3>5, <4>2 DEF The
      <4>4. fire' = s.start
        BY <2>1, <4>3
      <4>5. RingsNext(s, p.means, now, zone, now, s.start)
        BY <2>2, <3>1, <4>2, FirstIsNext
      <4> QED BY <2>2, <4>3, <4>4, <4>5
    <3> QED BY <1>1, <2>1, <2>2, <2>3, <3>2, <3>3, <3>5, <3>6 DEF SeriesInv
  <2>4. CASE phrase' # Nothing /\ ~p.recurring
    BY <1>1, <2>1, <2>4 DEF SeriesInv
  <2>5. CASE phrase' = Nothing
    <3>1. p.words = <<>> /\ ~p.recurring
      BY <2>1, <2>5 DEF Nothing
    <3>2. reply' = Refusal("Empty")
      BY <2>1, <3>1 DEF ParseCommand
    <3>3. series' = {}
      BY <2>1, <3>2 DEF Refusal
    <3> QED BY <1>1, <2>1, <2>2, <2>5, <3>3 DEF SeriesInv
  <2> QED BY <2>3, <2>4, <2>5
<1>3. ASSUME NEW late \in Delays, NEW policy \in GapPolicy, Deliver(late, policy)
      PROVE  SeriesInv'
  <2> DEFINE s == The(series)
             next == IF IsRecurring(s) THEN NextAfter(s, now', policy) ELSE {}
  <2>1. /\ series # {} /\ now' = fire + late
        /\ zone' = zone /\ phrase' = phrase /\ reply' = reply /\ created' = created
        /\ IF next = {} THEN series' = {} /\ fire' = fire
           ELSE fire' = The(next) /\ series' = series
    BY <1>3 DEF Deliver
  <2>2. phrase # Nothing
    BY <2>1 DEF SeriesInv
  <2>3. CASE series' = {}
    BY <1>1, <2>1, <2>2, <2>3 DEF SeriesInv
  <2>4. CASE series' # {} /\ phrase.recurring
    <3>1. next # {} /\ fire' = The(next) /\ series' = series
      BY <2>1, <2>4
    <3>2. IsRecurring(s) /\ next = NextAfter(s, now', policy)
      BY <3>1
    <3> HIDE DEF next
    <3>3. MadeFor(s, phrase.means, reply.notes, created, zone)
      BY <2>1, <2>2, <2>4, SeriesMade DEF Running
    <3>4. /\ zone \in Zone /\ zone \in Zones /\ created \in Int /\ now' \in Int
          /\ phrase \in Phrases[zone] /\ fire \in Int /\ late \in Int /\ 0 <= late
      BY <1>1, <2>1, <2>2, CommandsAssumption DEF TypeInv
    <3>5. LeftOutHourFollows(zone)
      BY <2>4, <3>4 DEF SeriesAsMeant
    <3>6. s.start <= fire
      BY <2>1, <2>2, <2>4 DEF SeriesInv, RingsNext
    <3>7. s.start <= now'
      <4>1. s.start \in Int
        <5>1. CASE SecondsApart(phrase.means)
          <6> DEFINE all == IntervalOf(phrase.means)
          <6>1. CountsFrom(s, all, created)
            BY <3>3, <5>1 DEF MadeFor
          <6> HIDE DEF s, all
          <6>2. all \in Int /\ s.start = created + all
            BY <3>4, <6>1, CountsNext
          <6> QED BY <3>4, <6>2
        <5>2. CASE ~SecondsApart(phrase.means)
          BY <3>3, <5>2 DEF MadeFor, KeepsDays, Fits, IsSchedule
        <5> QED BY <5>1, <5>2
      <4> HIDE DEF s
      <4> QED BY <2>1, <3>4, <3>6, <4>1
    <3> DEFINE n == now'
    <3>8. n \in Int /\ s.start <= n /\ next = NextAfter(s, n, policy)
      BY <3>2, <3>4, <3>7
    <3> HIDE DEF s, n
    <3>9. RingsNext(s, phrase.means, created, zone, n, The(next))
      BY <3>1, <3>3, <3>4, <3>5, <3>8, NextIsNext
    <3>10. RingsNext(The(series'), phrase'.means, created', zone', now', fire')
      BY <2>1, <3>1, <3>9 DEF s, n
    <3>11. /\ SeriesAnswers(phrase'.means, created', zone', reply')
           /\ reply'.error # None => series' = {}
      BY <2>1, <2>2, <2>4, <3>1 DEF SeriesInv
    <3> QED BY <1>1, <2>1, <2>2, <3>10, <3>11 DEF SeriesInv
  <2>5. CASE ~phrase.recurring
    BY <1>1, <2>1, <2>2, <2>5 DEF SeriesInv
  <2> QED BY <2>3, <2>4, <2>5
<1>4. CASE UNCHANGED vars
  BY <1>4 DEF vars, SeriesInv, TypeInv
<1> QED BY <1>2, <1>3, <1>4 DEF Next

\* A series rings on the days and at the time that its command named.
LEMMA RingsOnItsDay ==
    ASSUME SeriesAsMeant, SeriesInv, Running, ~BySeconds
    PROVE  /\ IsRuleDay(FireDay) /\ OnClock(zone, fire, ClockMeant)
           /\ KeepsDays(The(series), means, reply.notes, created, zone)
           /\ Nearest(RuleDays(means, FirstDay), ClockMeant, fire, now, zone)
<1> DEFINE days == RuleDays(means, FirstDay)
           clock == ClockFor(means, created, zone)
<1>1. means = phrase.means /\ ~SecondsApart(means) /\ ClockMeant = clock
  BY DEF means, BySeconds, SecondsApart, ClockMeant, ClockFor
<1>2. /\ zone \in Zone /\ zone \in Zones /\ fire \in Int /\ phrase \in Phrases[zone]
      /\ phrase # Nothing /\ phrase.recurring /\ series # {}
  BY CommandsAssumption DEF SeriesInv, TypeInv, Running
<1>3. LeftOutHourFollows(zone)
  BY <1>2 DEF SeriesAsMeant
<1>4. KeepsDays(The(series), means, reply.notes, created, zone)
  BY <1>1, SeriesMade DEF MadeFor
<1>5. Nearest(days, clock, fire, now, zone)
  BY <1>1, <1>2 DEF SeriesInv, RingsNext, FirstDay
<1>6. IsMinute(clock) /\ days \subseteq Int
  BY <1>4 DEF KeepsDays, RuleDays
<1>7. PICK d \in days : fire \in Resolve(zone, At(d, clock))
  BY <1>5 DEF Nearest
<1>8. d \in Int
  BY <1>6
<1> HIDE DEF clock, days
<1>9. DayOf(Wall(zone, fire)) = d /\ OnClock(zone, fire, clock)
  BY <1>2, <1>3, <1>6, <1>7, <1>8, ResolvedOnClock
<1>10. IsRuleDay(d)
  BY <1>7 DEF days, RuleDays, IsRuleDay
<1> QED BY <1>1, <1>4, <1>5, <1>9, <1>10 DEF FireDay, days

\* However late its deliveries end, and wherever clocks change, a series rings on
\* the days that its command named, on the last day of a month that is too
\* short, and at the time that was named, an hour later only where this time
\* does not exist; a series of hours, minutes or seconds rings whole intervals
\* after the command, to the second (next_dtstart_for_*, Schedule::next_after,
\* finalise_after_send).
THEOREM RingsOnTime == SeriesAsMeant => (Spec => []RingsAsNamed)
<1> SUFFICES ASSUME SeriesAsMeant PROVE Spec => []RingsAsNamed
  OBVIOUS
<1>1. SeriesInv => RingsAsNamed
  <2> SUFFICES ASSUME SeriesInv PROVE RingsAsNamed
    OBVIOUS
  <2>1. ASSUME Running, BySeconds PROVE (fire - created) % IntervalMeant = 0
    <3>1. SecondsApart(phrase.means) /\ IntervalMeant = IntervalOf(phrase.means)
      BY <2>1 DEF BySeconds, SecondsApart, IntervalMeant, means
    <3>2. Congruent(fire, created, IntervalOf(phrase.means))
      BY <2>1, <3>1 DEF SeriesInv, RingsNext, Running
    <3> QED BY <3>1, <3>2 DEF Congruent
  <2>2. ASSUME Running, ~BySeconds
        PROVE  IsRuleDay(FireDay) /\ OnClock(zone, fire, ClockMeant)
    BY <2>2, RingsOnItsDay
  <2> QED BY <2>1, <2>2 DEF RingsAsNamed, OnClock, FireDay
<1> QED BY <1>1, SeriesInit, SeriesStep, PTL DEF Spec

\* The next occurrence of a series is ahead, and no day of the series at whose
\* time the clock can be read lies between: a delivery that ends late leaves out
\* what has passed meanwhile and nothing else, and the first occurrence is the
\* first that there is (Schedule::next_after, next_dtstart_for_*).
THEOREM NothingSkipped == SeriesAsMeant => (Spec => []NoneSkipped)
<1> SUFFICES ASSUME SeriesAsMeant PROVE Spec => []NoneSkipped
  OBVIOUS
<1>1. SeriesInv => NoneSkipped
  <2> SUFFICES ASSUME SeriesInv, Running PROVE NoneSkipped
    BY DEF NoneSkipped
  <2>1. fire > now
    BY DEF SeriesInv, TypeInv, Running
  <2>2. ASSUME BySeconds PROVE fire - now <= IntervalMeant
    <3>1. SecondsApart(phrase.means) /\ IntervalMeant = IntervalOf(phrase.means)
      BY <2>2 DEF BySeconds, SecondsApart, IntervalMeant, means
    <3> QED BY <3>1 DEF SeriesInv, RingsNext, Running
  <2>3. ASSUME ~BySeconds, NEW day \in DayOf(Wall(zone, now)) .. FireDay, IsRuleDay(day),
               Readings(zone, At(day, ClockMeant)) # {},
               Min(Readings(zone, At(day, ClockMeant))) > now
        PROVE  fire <= Min(Readings(zone, At(day, ClockMeant)))
    <3>1. Nearest(RuleDays(means, FirstDay), ClockMeant, fire, now, zone)
      BY <2>3, RingsOnItsDay
    <3>2. DayOf(Wall(zone, now)) \in Int /\ FireDay \in Int
      BY TodayType, CommandsAssumption DEF SeriesInv, TypeInv, FireDay
    <3>3. day \in Int /\ DayOf(Wall(zone, now)) <= day /\ day <= DayOf(Wall(zone, fire))
      BY <2>3, <3>2 DEF FireDay
    <3>4. day \in RuleDays(means, FirstDay)
      BY <2>3, <3>3 DEF RuleDays, IsRuleDay
    <3> QED BY <2>3, <3>1, <3>3, <3>4 DEF Nearest
  <2> QED BY <2>1, <2>2, <2>3, Zenon DEF NoneSkipped
<1> QED BY <1>1, SeriesInit, SeriesStep, PTL DEF Spec

\* Whenever a series rings on another day of the month than the one that its
\* command named, or on which it was sent, the reply said that it might
\* (ParseNote, try_recurring_relative, try_recurring_date).
THEOREM ClampsTold == SeriesAsMeant => (Spec => []ClampsAreTold)
<1> SUFFICES ASSUME SeriesAsMeant PROVE Spec => []ClampsAreTold
  OBVIOUS
<1>1. SeriesInv => ClampsAreTold
  <2> SUFFICES ASSUME SeriesInv, Running, NamesDayOfMonth(means)
               PROVE  reply.notes # {} \/ IsDayNamed(means, FirstDay, FireDay)
    BY DEF ClampsAreTold
  <2>1. ~SecondsApart(means) /\ ~BySeconds
    <3>1. ~SecondsApart(means)
      BY SeriesMade DEF MadeFor, means
    <3> QED BY <3>1 DEF BySeconds, SecondsApart
  <2>2. KeepsDays(The(series), means, reply.notes, created, zone) /\ IsRuleDay(FireDay)
    BY <2>1, RingsOnItsDay
  <2>3. reply.notes # {} \/ \A d \in RuleDays(means, FirstDay) : IsDayNamed(means, FirstDay, d)
    BY <2>2 DEF KeepsDays, FirstDay
  <2>4. FireDay \in RuleDays(means, FirstDay)
    <3>1. FireDay \in Int
      BY TodayType, CommandsAssumption DEF SeriesInv, TypeInv, FireDay
    <3> QED BY <2>2, <3>1 DEF RuleDays, IsRuleDay
  <2> QED BY <2>3, <2>4
<1> QED BY <1>1, SeriesInit, SeriesStep, PTL DEF Spec
=============================================================================
