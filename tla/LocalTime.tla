----------------------------- MODULE LocalTime -----------------------------
(***************************************************************************)
(* Instants, wall clocks and zones: local_to_utc (parser/src/lib.rs), and  *)
(* what it takes from chrono and the zone database.                        *)
(*                                                                         *)
(* An instant is a number of seconds of UTC; a wall clock (a naive date    *)
(* and time) is a number of seconds too, that of the UTC instant which     *)
(* reads the same.  A zone has two offsets and changes them on the days of *)
(* the European rule, at 01:00 UTC.                                        *)
(***************************************************************************)
EXTENDS Calendar, FiniteSets, FiniteSetsExt

\* The element of a set of one.
The(S) == CHOOSE x \in S : TRUE

Hour == 3600
DayLength == 86400

Zone == [winter : Int, summer : Int]

NoOffset == [winter |-> 0, summer |-> 0]
Berlin == [winter |-> Hour, summer |-> 2 * Hour]
\* The clocks of America/Nuuk change at 23:00, those of Antarctica/Troll by
\* two hours.
Nuuk == [winter |-> -2 * Hour, summer |-> -Hour]
Troll == [winter |-> 0, summer |-> 2 * Hour]

DayOf(t) == t \div DayLength
ClockOf(t) == t % DayLength
At(day, clock) == day * DayLength + clock
Clock(h, m) == h * Hour + m * 60

InSummerOf(y, u) ==
    At(LastSunday(y, 3), Hour) <= u /\ u < At(LastSunday(y, 10), Hour)
IsSummer(u) == InSummerOf(YearOf(DayOf(u)), u)

Offset(z, u) == IF IsSummer(u) THEN z.summer ELSE z.winter

Wall(z, u) == u + Offset(z, u)

\* from_local_datetime: none in a gap, two in a fold.
Readings(z, wall) ==
    {u \in {wall - z.summer, wall - z.winter} : Wall(z, u) = wall}

\* local_to_utc: the instant, or none if the wall clock cannot be resolved.
\* A wall clock in a gap is set one hour later on its day.
FirstOf(here, later) ==
    IF here # {} THEN {Min(here)}
    ELSE IF Cardinality(later) = 1 THEN later ELSE {}
Resolve(z, wall) ==
    FirstOf(Readings(z, wall),
            {u \in Readings(z, wall + Hour) : ClockOf(wall) < 23 * Hour})
=============================================================================
