------------------------------ MODULE Phrases ------------------------------
(***************************************************************************)
(* What users write, for TLC: time expressions of RULES.md as sequences of *)
(* tokens, each with what the rules say it means.                          *)
(***************************************************************************)
EXTENDS RelativeTime

Digits(n) ==
    [Word EXCEPT !.pieces = <<[n |-> n, unit |-> None, more |-> FALSE]>>,
                 !.digits = TRUE,
                 !.clock = {c \in {[h |-> n, m |-> 0, half |-> None]} : n \in 0 .. 99}]

\* 30.4 and 14:30 start with digits, too.
Led(n, word) == [word EXCEPT !.pieces = <<[n |-> n, unit |-> None, more |-> TRUE]>>]

ClockWord(h, m, half) ==
    Led(h, [Word EXCEPT !.clock = {[h |-> h, m |-> m, half |-> half]}])
DateWord(y, m, d) ==
    Led(d, [Word EXCEPT !.date = {[y |-> y, m |-> m, d |-> d]}, !.dot = m = 0])
Dotted(word) == [word EXCEPT !.dot = TRUE]

Key(key) == [Word EXCEPT !.key = key]
DaysWord(days) == [Word EXCEPT !.key = "weekdays", !.days = days]
LongWord(unit) == [Word EXCEPT !.long = unit]

\* 1Y2M and the like, of pairs of a number and a unit.
CompactWord(pairs) ==
    [Word EXCEPT !.pieces =
       [i \in DOMAIN pairs |-> [n |-> pairs[i][1], unit |-> pairs[i][2], more |-> FALSE]]]

\* 5min: the first letter of a longform may be a compact unit.
GluedWord(n, letter, unit) ==
    [Word EXCEPT !.pieces = <<[n |-> n, unit |-> letter, more |-> TRUE]>>, !.long = unit]

-----------------------------------------------------------------------------
(* Meanings.                                                               *)

\* kind: of expression; spec, date, weekdays: what it says; clock: the time
\* that is given with it, or none; text: the text that follows.
Meaning == [kind |-> "relative", spec |-> NoSpec, date |-> {}, ahead |-> 0,
            days |-> {}, clock |-> {}, text |-> <<>>]

\* An expression: tokens and their meaning.
Expression(words, means) == [words |-> words, recurring |-> FALSE, means |-> means]

\* With an asterisk or a keyword before it: every.
Every(e) == [e EXCEPT !.recurring = TRUE]

SpecOf(pairs) ==
    [u \in Unit |-> IF \E i \in DOMAIN pairs : pairs[i][2] = u
                    THEN pairs[CHOOSE i \in DOMAIN pairs : pairs[i][2] = u][1] ELSE 0]

CompactExpression(pairs) ==
    Expression(<<CompactWord(pairs)>>, [Meaning EXCEPT !.spec = SpecOf(pairs)])
LongExpression(n, unit) ==
    Expression(<<Digits(n), LongWord(unit)>>, [Meaning EXCEPT !.spec = Just(unit, n)])
GluedExpression(n, letter, unit) ==
    Expression(<<GluedWord(n, letter, unit)>>, [Meaning EXCEPT !.spec = Just(unit, n)])
DateExpression(y, m, d) ==
    Expression(<<DateWord(y, m, d)>>,
               [Meaning EXCEPT !.kind = "date", !.date = {[y |-> y, m |-> m, d |-> d]}])
\* 24.12.
DottedExpression(m, d) == [DateExpression(0, m, d) EXCEPT !.words = <<Dotted(DateWord(0, m, d))>>]
DayExpression(weekday) ==
    Expression(<<DaysWord({weekday})>>,
               [Meaning EXCEPT !.kind = "weekday", !.days = {weekday}])
\* For series: sa,so; 31. for a day of the month.
DaysExpression(weekdays) ==
    Expression(<<DaysWord(weekdays)>>, [Meaning EXCEPT !.kind = "weekday", !.days = weekdays])
MonthDayExpression(d) ==
    Expression(<<DateWord(0, 0, d)>>,
               [Meaning EXCEPT !.kind = "monthday", !.date = {[y |-> 0, m |-> 0, d |-> d]}])
AheadExpression(key, n) ==
    Expression(<<Key(key)>>, [Meaning EXCEPT !.kind = "ahead", !.ahead = n])
ClockExpression == Expression(<<>>, [Meaning EXCEPT !.kind = "clock"])

\* in 2 hours.
After(key, e) == [e EXCEPT !.words = <<Key(key)>> \o @]

\* The clock c, spelled by the words.
AtClock(e, words, c) ==
    [e EXCEPT !.words = @ \o words, !.means.clock = {c}]

Saying(e, text) == [e EXCEPT !.words = @ \o text, !.means.text = text]

Text == <<Word>>
\* 2 eggs.
CountedText == <<Digits(2), Word>>
=============================================================================
