----------------------------- MODULE MarketCalendar -----------------------------
(***************************************************************************)
(* The exchange calendar computed from its rules (monitoring/               *)
(* market_calendar.py).  A date is its ordinal in the proleptic Gregorian   *)
(* calendar, as in Python; weekday 0 is Monday.                             *)
(***************************************************************************)
EXTENDS Integers, FiniteSets

CONSTANT Years   \* the years that are asked about

\* Dates begin with year 1, and the days around a holiday of year 1 would not.
ASSUME YearsAssumption == Years \subseteq Nat \ {0, 1}

MON == 0
THU == 3
FRI == 4
SAT == 5
SUN == 6

IsLeap(y) == y % 4 = 0 /\ (y % 100 # 0 \/ y % 400 = 0)
MonthLength(y, m) ==
    IF m = 2 THEN IF IsLeap(y) THEN 29 ELSE 28
    ELSE IF m \in {4, 6, 9, 11} THEN 30 ELSE 31
DaysBefore(y, m) ==
    (<<0, 31, 59, 90, 120, 151, 181, 212, 243, 273, 304, 334>>)[m]
        + IF m > 2 /\ IsLeap(y) THEN 1 ELSE 0
DateOf(y, m, d) ==
    365 * (y - 1) + (y - 1) \div 4 - (y - 1) \div 100 + (y - 1) \div 400 + DaysBefore(y, m) + d
Weekday(n) == (n + 6) % 7

NthWeekday(y, m, weekday, n) ==
    LET first == DateOf(y, m, 1) IN first + ((weekday - Weekday(first)) % 7) + 7 * (n - 1)

LastWeekday(y, m, weekday) ==
    LET last == DateOf(y, m, MonthLength(y, m)) IN last - ((Weekday(last) - weekday) % 7)

Observed(n) ==
    IF Weekday(n) = SAT THEN n - 1 ELSE IF Weekday(n) = SUN THEN n + 1 ELSE n

MutantEasterSunday(y) ==   \* the correction for the moon's slow drift is left out
    LET a == y % 19   b == y \div 100   c == y % 100
        d == b \div 4   e == b % 4
        h == (19 * a + b - d + 15) % 30
        l == (32 + 2 * e + 2 * (c \div 4) - h - (c % 4)) % 7
        m == (a + 11 * h + 22 * l) \div 451 IN
    DateOf(y, (h + l - 7 * m + 114) \div 31, ((h + l - 7 * m + 114) % 31) + 1)

\* The anonymous Gregorian algorithm.
EasterSunday(y) ==
    LET a == y % 19   b == y \div 100   c == y % 100
        d == b \div 4   e == b % 4
        g == (b - (b + 8) \div 25 + 1) \div 3
        h == (19 * a + b - d - g + 15) % 30
        l == (32 + 2 * e + 2 * (c \div 4) - h - (c % 4)) % 7
        m == (a + 11 * h + 22 * l) \div 451 IN
    DateOf(y, (h + l - 7 * m + 114) \div 31, ((h + l - 7 * m + 114) % 31) + 1)

GoodFriday(y) == EasterSunday(y) - 2

\* A Saturday New Year is not observed on the Friday before.
NewYear(y) ==
    LET n == DateOf(y, 1, 1) IN
    IF Weekday(n) = SUN THEN {n + 1} ELSE IF Weekday(n) = SAT THEN {} ELSE {n}

MarketHolidays(y) ==
    {NthWeekday(y, 1, MON, 3), NthWeekday(y, 2, MON, 3), GoodFriday(y),
     LastWeekday(y, 5, MON), Observed(DateOf(y, 6, 19)), Observed(DateOf(y, 7, 4)),
     NthWeekday(y, 9, MON, 1), NthWeekday(y, 11, THU, 4), Observed(DateOf(y, 12, 25))}
        \cup NewYear(y)

\* n a date of year y
IsMarketOpen(y, n) == Weekday(n) < SAT /\ n \notin MarketHolidays(y)

IsEarlyClose(y, n) ==
    /\ IsMarketOpen(y, n)
    /\ n \in {NthWeekday(y, 11, THU, 4) + 1, DateOf(y, 12, 24), DateOf(y, 7, 3)}

YearOf(y, n) == IF n < DateOf(y, 1, 1) THEN y - 1
                ELSE IF n > DateOf(y, 12, 31) THEN y + 1 ELSE y

\* The search goes day by day; a week holds an open day.
NextMarketOpen(y, n) ==
    CHOOSE d \in (n + 1)..(n + 7) :
        /\ IsMarketOpen(YearOf(y, d), d)
        /\ \A e \in (n + 1)..(d - 1) : ~IsMarketOpen(YearOf(y, e), e)

PreviousMarketOpen(y, n) ==
    CHOOSE d \in (n - 7)..(n - 1) :
        /\ IsMarketOpen(YearOf(y, d), d)
        /\ \A e \in (d + 1)..(n - 1) : ~IsMarketOpen(YearOf(y, e), e)

-----------------------------------------------------------------------------
\* Reference: the Sunday after the full moon of the tables, by golden number,
\* epact and the Sunday letter's remainder.
PaschalSunday(y) ==
    LET golden == (y % 19) + 1
        century == y \div 100 + 1
        solar == ((3 * century) \div 4) - 12
        lunar == ((8 * century + 5) \div 25) - 5
        epact == (11 * golden + 20 + lunar - solar) % 30
        clavius == IF epact = 24 \/ (epact = 25 /\ golden > 11) THEN epact + 1 ELSE epact
        moon == IF 44 - clavius < 21 THEN 74 - clavius ELSE 44 - clavius
        full == DateOf(y, 3, 1) + moon - 1 IN
    CHOOSE n \in (full + 1)..(full + 7) : Weekday(n) = SUN

-----------------------------------------------------------------------------
(* The callers ask about one year and another.                              *)

VARIABLE year   \* the year last asked about, 0 before

CalendarInit == year = 0

AskAbout(y) == year' = y

CalendarNext == \E y \in Years : AskAbout(y)

CalendarSpec == CalendarInit /\ [][CalendarNext]_year

-----------------------------------------------------------------------------
\* The holidays follow the rules in every year (market_calendar.py:33-144):
\* Easter is the Sunday of the tables, every closure is a weekday of its year,
\* only a Saturday New Year is lost, a half-day is an open day, and the next
\* open day is found within a long weekend and finds its way back.
CalendarFollowsRules ==
    year # 0 =>
        /\ EasterSunday(year) = PaschalSunday(year)
        /\ \A n \in MarketHolidays(year) :
             Weekday(n) < SAT /\ YearOf(year, n) = year
        /\ Cardinality(MarketHolidays(year)) =
             IF Weekday(DateOf(year, 1, 1)) = SAT THEN 9 ELSE 10
        /\ \A n \in MarketHolidays(year) :
             LET next == NextMarketOpen(year, n) IN
             next - n <= 4 /\ PreviousMarketOpen(YearOf(year, next), next) < n
        /\ Cardinality({n \in DateOf(year, 1, 1)..DateOf(year, 12, 31) :
                          IsEarlyClose(year, n)}) \in 1..3
=================================================================================
