----------------------------- MODULE TimeTokens -----------------------------
(***************************************************************************)
(* The words of a time expression and what the scanners of the parser make *)
(* of them (parser/src/grammar.rs, keywords.rs).                           *)
(*                                                                         *)
(* A token is what the matchers see in it: its digits and letters in       *)
(* pieces, the keyword it is (exactly, or near enough for the fuzzy        *)
(* match), the date and the clock it spells.                               *)
(***************************************************************************)
EXTENDS LocalTime, Sequences

None == "none"

\* TimeUnit and unit_rank.
Rank == [Y |-> 0, M |-> 1, w |-> 2, d |-> 3, h |-> 4, m |-> 5, s |-> 6, none |-> 7]
Unit == DOMAIN Rank \ {None}

\* A number that does not fit in 32 bits.
Huge == -1

\* Digits and what follows them up to the next digit: unit is the compact
\* suffix that the first letter is, more says that other letters follow it.
Piece == [n : Nat \cup {Huge}, unit : Unit \cup {None}, more : BOOLEAN]

Keyword == {"in", "at", "uhr", "today", "tomorrow", "day after tomorrow",
            "weekdays", None}

\* Hours and minutes as they are spelled.
Spelled == [h : Nat, m : Nat, half : {"am", "pm", None}]

\* long: the longform unit that the token is, or its rest after the digits.
\* days: the weekdays it lists; clock and date: at most one, as it is spelled (a
\* date without a year has the year 0, and 31., the day of a month, the month 0);
\* dot: the date ends with one, as in 24.12.; digits: it is a number.
Token ==
    {t \in [pieces : Seq(Piece), long : Unit \cup {None}, key : Keyword,
            days : SUBSET (0 .. 6), clock : SUBSET Spelled, date : SUBSET Date,
            dot : BOOLEAN, digits : BOOLEAN] :
       /\ t.digits => t.pieces # <<>>
       /\ \A c, other \in t.clock : c = other
       /\ \A date, other \in t.date : date = other}

Word == [pieces |-> <<>>, long |-> None, key |-> None, days |-> {},
         clock |-> {}, date |-> {}, dot |-> FALSE, digits |-> FALSE]

-----------------------------------------------------------------------------
(* RelSpec.                                                                *)

NoSpec == [u \in Unit |-> 0]
Just(unit, n) == [NoSpec EXCEPT ![unit] = n]

HasDatePart(spec) == \E u \in {"Y", "M", "w", "d"} : spec[u] > 0
HasSubDay(spec) == \E u \in {"h", "m", "s"} : spec[u] > 0
IsZero(spec) == ~HasDatePart(spec) /\ ~HasSubDay(spec)

\* What a scanner says: nothing of that kind, a malformed one, or a spec and
\* the token after it.
NoMatch == [kind |-> "none", spec |-> NoSpec, next |-> 0]
BadMatch == [kind |-> "bad", spec |-> NoSpec, next |-> 0]
Match(spec, next) == [kind |-> "spec", spec |-> spec, next |-> next]

Descends(p, i) == i = 1 \/ Rank[p[i - 1].unit] < Rank[p[i].unit]

\* parse_compact stops at the first piece that is not a number, a known unit
\* of a lower rank than the last, and a digit or the end.
Compact(p) ==
    LET Stops(i) == \/ p[i].n = Huge \/ p[i].unit = None \/ p[i].more
                    \/ ~Descends(p, i)
        stops == {i \in DOMAIN p : Stops(i)}
        stop == p[Min(stops)]
        spec == [u \in Unit |->
                   IF \E i \in DOMAIN p : p[i].unit = u
                   THEN p[CHOOSE i \in DOMAIN p : p[i].unit = u].n ELSE 0]
    IN  IF p = <<>> THEN NoMatch
        ELSE IF stops = {} THEN IF IsZero(spec) THEN NoMatch ELSE Match(spec, 0)
        ELSE IF stop.n = Huge \/ (Min(stops) = 1 /\ stop.unit = None) THEN NoMatch
        ELSE BadMatch

\* parse_rel_single_token: compact, or digits with a longform glued on.
SingleToken(t) ==
    IF Compact(t.pieces) # NoMatch THEN Compact(t.pieces)
    ELSE IF t.pieces # <<>> /\ t.long # None /\ t.pieces[1].n # Huge
         THEN Match(Just(t.long, t.pieces[1].n), 0)
    ELSE NoMatch

IsKey(tokens, i, key) == i \in DOMAIN tokens /\ tokens[i].key = key

\* A bare number that a longform unit follows.
TwoTokens(tokens, i) ==
    /\ i + 1 \in DOMAIN tokens
    /\ tokens[i].digits
    /\ tokens[i + 1].pieces = <<>> /\ tokens[i + 1].long # None

\* try_relative_match.
Relative(tokens) ==
    LET i == IF IsKey(tokens, 1, "in") THEN 2 ELSE 1
        one == SingleToken(tokens[i])
    IN  IF i \notin DOMAIN tokens THEN NoMatch
        ELSE IF one.kind # "none" THEN [one EXCEPT !.next = i + 1]
        ELSE IF ~TwoTokens(tokens, i) THEN NoMatch
        ELSE IF tokens[i].pieces[1].n = Huge THEN BadMatch
        ELSE Match(Just(tokens[i + 1].long, tokens[i].pieces[1].n), i + 2)

-----------------------------------------------------------------------------
(* Clocks.                                                                 *)

\* parse_clock, of hours, minutes and am or pm.
Clocks(c) ==
    LET h == IF c.half = None THEN c.h
             ELSE (c.h % 12) + (IF c.half = "pm" THEN 12 ELSE 0)
    IN  IF (c.half = None \/ c.h \in 0 .. 12) /\ h \in 0 .. 23 /\ c.m \in 0 .. 59
        THEN {Clock(h, c.m)} ELSE {}

\* consume_optional_time: at, a clock, uhr; the clock and the token after it,
\* or nothing.
OptionalTime(tokens, from) ==
    LET i == IF IsKey(tokens, from, "at") THEN from + 1 ELSE from
        next == IF IsKey(tokens, i + 1, "uhr") THEN i + 2 ELSE i + 1
    IN  {[clock |-> c, next |-> next] :
           c \in UNION {Clocks(spelled) : spelled \in
                         IF i \in DOMAIN tokens THEN tokens[i].clock ELSE {}}}

\* The time that was found, or the one that is meant without.
TimeOr(found, clock, next) ==
    IF found = {} THEN [clock |-> clock, next |-> next] ELSE The(found)

\* consume_time_after_spec: after hours, minutes or seconds a bare number is
\* text.
\* mutant
TimeAfterAnySpec(tokens, from, spec) == OptionalTime(tokens, from)
TimeAfterSpec(tokens, from, spec) ==
    {t \in OptionalTime(tokens, from) :
       ~(HasSubDay(spec) /\ tokens[from].digits /\ t.next = from + 1)}
=============================================================================
