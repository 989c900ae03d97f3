----------------------------- MODULE MCCommands -----------------------------
(* Instances of Commands for TLC. *)
EXTENDS CommandsProperties, TLC

\* Wall clocks, read as UTC: an ordinary Friday; the evening before, the hour
\* before and the hour after clocks go forward and go back; the ends of
\* January, February, August and December, in leap and ordinary years.
MCMoments ==
    {At(DayNumber([y |-> t[1], m |-> t[2], d |-> t[3]]), Clock(t[4], t[5])) + t[6] : t \in {
       <<2026, 5, 8, 10, 0, 27>>,
       <<2027, 3, 27, 1, 30, 0>>, <<2027, 3, 28, 0, 50, 0>>, <<2027, 3, 28, 1, 10, 0>>,
       <<2027, 10, 30, 22, 30, 0>>, <<2027, 10, 31, 0, 40, 0>>, <<2027, 10, 31, 1, 40, 0>>,
       <<2027, 1, 29, 1, 30, 27>>, <<2027, 1, 31, 8, 0, 0>>, <<2028, 2, 29, 12, 0, 5>>,
       <<2027, 2, 28, 1, 30, 0>>, <<2027, 8, 31, 20, 0, 0>>, <<2027, 12, 31, 23, 30, 0>>}}

AllZones == {Berlin, NoOffset, Nuuk, Troll}
ASSUME ZonesAssumption == \A z \in AllZones : BackWithinDay(z)

\* Two zones with changes of an hour in the night.
SeriesZones == {Berlin, NoOffset}
ASSUME SeriesZonesAssumption == \A z \in SeriesZones : LeftOutHourFollows(z)

-----------------------------------------------------------------------------
(* Commands for one alert.                                                 *)

\* Clocks as they are spelled, with what they mean.
Spellings ==
    {<<c, <<ClockWord(c[1], c[2], None)>>>> : c \in {<<2, 30>>, <<9, 0>>, <<23, 30>>}}
    \cup {<<<<14, 0>>, <<Key("at"), ClockWord(2, 0, "pm")>>>>,
          <<<<0, 0>>, <<ClockWord(12, 0, "am")>>>>,
          <<<<12, 0>>, <<ClockWord(12, 0, "pm")>>>>,
          <<<<1, 0>>, <<Key("at"), Digits(1), Key("uhr")>>>>}

Clocked(e) == {AtClock(e, s[2], Clock(s[1][1], s[1][2])) : s \in Spellings}

CalendarSpans ==
    {CompactExpression(p) : p \in {
       <<<<1, "M">>>>, <<<<1, "Y">>>>, <<<<2, "Y">>, <<1, "M">>>>, <<<<13, "M">>>>,
       <<<<2, "M">>, <<1, "d">>>>, <<<<1, "Y">>, <<3, "w">>, <<2, "d">>>>}}
DaySpans ==
    {CompactExpression(<<<<1, "d">>>>), CompactExpression(<<<<3, "w">>, <<2, "d">>>>),
     After("in", LongExpression(2, "d")), LongExpression(4, "d")}
HourSpans ==
    {CompactExpression(<<<<7, "h">>, <<30, "m">>>>), CompactExpression(<<<<2, "d">>, <<12, "h">>>>),
     CompactExpression(<<<<1, "M">>, <<5, "s">>>>), LongExpression(90, "m"),
     After("in", LongExpression(14, "h")), GluedExpression(3, None, "h")}
Dates1 ==
    {DateExpression(d[1], d[2], d[3]) : d \in {
       <<0, 3, 28>>, <<0, 10, 31>>, <<0, 2, 29>>, <<0, 12, 31>>, <<2028, 2, 29>>,
       <<2027, 2, 29>>, <<2026, 5, 8>>, <<2027, 3, 28>>, <<0, 5, 8>>}}
    \cup {DottedExpression(12, 24)}
NamedDays1 ==
    {DayExpression(w) : w \in 0 .. 6}
    \cup {AheadExpression("tomorrow", 1), AheadExpression("day after tomorrow", 2)}

\* What no alert can be made of; nothing is said of its meaning.
Unreadable(words) == [Expression(words, Meaning) EXCEPT !.means.kind = "none"]
Oddities ==
    {Unreadable(e.words) : e \in {CompactExpression(p) : p \in {
       <<<<30, "m">>, <<2, "h">>>>, <<<<0, "m">>>>, <<<<51, "Y">>>>, <<<<1, "Y">>, <<2, None>>>>,
       <<<<5, "m">>, <<5, "m">>>>, <<<<18400, "d">>>>, <<<<50, "Y">>, <<7, "M">>>>,
       <<<<Huge, "d">>>>, <<<<1, "Y">>, <<Huge, "d">>>>}}}
    \cup {Unreadable(LongExpression(Huge, "d").words), Unreadable(<<GluedWord(3, None, None)>>),
          Unreadable(<<Key("today")>>), Unreadable(<<Word>>)}

ForOneAlert ==
    {Saying(e, Text) : e \in
       UNION {Clocked(f) : f \in DaySpans \cup CalendarSpans \cup HourSpans \cup Dates1
                                 \cup NamedDays1 \cup {ClockExpression}}
       \cup CalendarSpans \cup DaySpans \cup HourSpans \cup Oddities \cup Dates1 \cup NamedDays1}
    \cup {Saying(e, CountedText) : e \in HourSpans}
    \cup {Saying(e, <<>>) : e \in DaySpans \cup Dates1}
    \cup {Unreadable(<<>>)}

-----------------------------------------------------------------------------
(* Commands for a series.                                                  *)

SeriesSpans ==
    {CompactExpression(p) : p \in {
       <<<<6, "d">>>>, <<<<2, "w">>>>, <<<<1, "M">>>>, <<<<3, "M">>>>,
       <<<<1, "Y">>>>, <<<<2, "Y">>>>, <<<<1, "d">>, <<24, "h">>>>}}
SubDaySpans ==
    {CompactExpression(p) : p \in {
       <<<<30, "m">>>>, <<<<1, "d">>, <<90, "m">>>>, <<<<1801, "s">>>>}}
NoSeries ==
    {CompactExpression(p) : p \in {
       <<<<1, "Y">>, <<2, "M">>>>, <<<<1, "M">>, <<1, "d">>>>, <<<<1, "Y">>, <<3, "h">>>>,
       <<<<29, "m">>, <<59, "s">>>>, <<<<70000, "d">>>>, <<<<70000, "M">>>>, <<<<70000, "Y">>>>,
       <<<<65535, "h">>, <<60, "m">>>>, <<<<66270, "m">>>>, <<<<9362, "w">>, <<2, "d">>>>}}
NamedDays ==
    {DaysExpression({0}), DaysExpression({5, 6}), MonthDayExpression(30),
     MonthDayExpression(31), DateExpression(0, 2, 29), DateExpression(0, 3, 28)}
Unparsed ==
    {Unreadable(w) : w \in {<<>>, <<Word>>, <<Key("tomorrow"), Word>>,
       <<Key("in"), Digits(2), LongWord("d"), Word>>, <<DateWord(0, 0, 32), Word>>,
       <<DateWord(2028, 5, 1), Word>>, <<DateWord(0, 2, 30), Word>>,
       <<Dotted(DateWord(0, 12, 24)), Word>>, <<Dotted(DateWord(2028, 5, 1)), Word>>,
       <<CompactWord(<<<<1, "Y">>, <<2, None>>>>), Word>>}}

NightOrMorning(e) ==
    {AtClock(e, <<ClockWord(2, 30, None)>>, Clock(2, 30)),
     AtClock(e, <<Key("at"), ClockWord(9, 0, None)>>, Clock(9, 0))}

ForSeries ==
    {Every(Saying(e, Text)) : e \in
       SeriesSpans \cup SubDaySpans \cup NoSeries \cup NamedDays
       \cup UNION {NightOrMorning(f) : f \in SeriesSpans \cup NamedDays \cup SubDaySpans}}
    \cup {Every(Saying(e, <<>>)) : e \in SeriesSpans}
    \cup {Every(e) : e \in Unparsed}

MCPhrases == [z \in AllZones |-> ForOneAlert \cup (IF z \in SeriesZones THEN ForSeries ELSE {})]

\* 5min
GluedPhrases == [z \in AllZones |-> {Saying(GluedExpression(5, "m", "m"), Text)}]

\* 1 uhr, when the clocks skip two hours at one (Troll); sa 23:30, when they
\* skip the last hour of the day (Nuuk); 29.2.
DepartingPhrases ==
    [z \in AllZones |->
       {Saying(e, Text) : e \in
          {AtClock(ClockExpression, <<Digits(1), Key("uhr")>>, Clock(1, 0)),
           AtClock(DayExpression(5), <<ClockWord(23, 30, None)>>, Clock(23, 30)),
           DateExpression(0, 2, 29)}}]

\* At the second of the occurrence, and 40 days late.
MCDelays == {0, 40 * DayLength}
=============================================================================
