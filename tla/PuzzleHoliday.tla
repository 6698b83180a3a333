---------------------------- MODULE PuzzleHoliday ----------------------------
(***************************************************************************)
(* The holidays an expression of a puzzle can ask for. A date is the       *)
(* number of its day, 1 on the first of January of the year 1, a Monday.   *)
(***************************************************************************)
EXTENDS Integers, FiniteSets

-----------------------------------------------------------------------------
(* The calendar, as chrono has it. *)

DaysBefore(year) == LET y == year - 1 IN 365 * y + y \div 4 - y \div 100 + y \div 400
IsLeap(y) == y % 4 = 0 /\ (y % 100 # 0 \/ y % 400 = 0)
MonthDays(y) == <<31, IF IsLeap(y) THEN 29 ELSE 28, 31, 30, 31, 30, 31, 31, 30, 31, 30, 31>>
MonthStart(y) ==
    LET start[m \in 1 .. 13] ==
            IF m = 1 THEN DaysBefore(y) ELSE start[m - 1] + MonthDays(y)[m - 1]
    IN start
DayNumber(y, m, d) == MonthStart(y)[m] + d
YearOf(n) == CHOOSE y \in (n \div 366) .. (n \div 365) + 1 :
                 DaysBefore(y) < n /\ n <= DaysBefore(y + 1)
MonthOf(n) == CHOOSE m \in 1 .. 12 :
                  /\ MonthStart(YearOf(n))[m] < n
                  /\ n <= MonthStart(YearOf(n))[m + 1]
DayOf(n) == n - MonthStart(YearOf(n))[MonthOf(n)]
Weekday(n) == ((n - 1) % 7) + 1   \* 1 is Monday
\* A week belongs to the year of its Thursday.
IsoWeek(n) == LET thursday == n + 4 - Weekday(n)
              IN ((thursday - DaysBefore(YearOf(thursday)) - 1) \div 7) + 1

-----------------------------------------------------------------------------
(* Holiday::is_holiday. *)

\* Days between the Paschal moon and the nineteenth of April.
PaschalShift(y) ==
    LET c == y \div 100 + 1
        se == (14 + 11 * (y % 19) - (3 * c) \div 4 + (5 + 8 * c) \div 25) % 30
    IN IF se = 0 \/ (se = 1 /\ 10 < y % 19) THEN se + 1 ELSE se

\* The Sunday after the Paschal moon.
EasterOf(y) == LET p == DayNumber(y, 4, 19) - PaschalShift(y) IN p + 7 - (p % 7)

\* A date that is adjusted is looked for by the weekday of the day asked about, and in
\* the year of that day: a Saturday is the holiday if the date is the Sunday after it,
\* a Sunday if the date is the Saturday before it.
Adjusted(base, date) ==
    CASE Weekday(date) = 6 -> base - 1 [] Weekday(date) = 7 -> base + 1 [] OTHER -> base
DateIn(y, h) == IF h.day \in 1 .. MonthDays(y)[h.month] THEN {DayNumber(y, h.month, h.day)}
                ELSE {}

\* The n-th weekday is counted from the first of the month, backwards as well.
Occurrence(y, h) ==
    LET first == DayNumber(y, h.month, 1)
        offset == ((h.day + 7 - Weekday(first)) % 7)
                    + 7 * (IF h.occurrence = 0 THEN 0 ELSE h.occurrence - 1)
    IN IF h.ascending THEN first + offset ELSE first - offset

RECURSIVE IsHoliday(_, _)
IsHoliday(h, date) ==
    CASE h.is = "And" -> IsHoliday(h.left, date) /\ IsHoliday(h.right, date)
      [] h.is = "Not" -> ~IsHoliday(h.of, date)
      [] h.is = "Date" ->
           \E base \in DateIn(YearOf(date), h) :
               date = IF h.weekendAdjust THEN Adjusted(base, date) ELSE base
      [] h.is = "DayOfMonth" -> DayOf(date) \in h.days
      [] h.is = "DayOfWeek" -> Weekday(date) \in h.days
      [] h.is = "Easter" -> EasterOf(YearOf(date)) = date - h.offset
      [] h.is = "IsoWeek" -> IsoWeek(date) \in h.weeks
      [] h.is = "Month" -> MonthOf(date) \in h.months
      [] h.is = "WeekDay" -> date = Occurrence(YearOf(date), h)

-----------------------------------------------------------------------------
(* Properties *)

\* The Gregorian rule in the form that astronomers publish: month and day.
PublishedEaster(y) ==
    LET a == y % 19
        b == y \div 100
        c == y % 100
        g == (b - (b + 8) \div 25 + 1) \div 3
        h == (19 * a + b - b \div 4 - g + 15) % 30
        l == (32 + 2 * (b % 4) + 2 * (c \div 4) - h - (c % 4)) % 7
        n == h + l - 7 * ((a + 11 * h + 22 * l) \div 451) + 114
    IN DayNumber(y, n \div 31, (n % 31) + 1)

EasterIsEaster(y) == EasterOf(y) = PublishedEaster(y)
Observed(n) == CASE Weekday(n) = 6 -> n + 1 [] Weekday(n) = 7 -> n - 1 [] OTHER -> n
ObservedOnce(n) ==
    LET h == [is |-> "Date", month |-> MonthOf(n), day |-> DayOf(n), weekendAdjust |-> TRUE]
    IN {date \in n - 3 .. n + 3 : IsHoliday(h, date)} = {Observed(n)}

\* Easter as puzzles compute it is the Easter of the calendar. A date that is adjusted
\* is observed on exactly one day although it is looked for by the weekday of the day
\* asked about: on itself on a weekday, and on the other day of its weekend if it is on
\* one (a Saturday's on the Sunday, a Sunday's on the Saturday); unless it is the first
\* or the last of a year, where that day may be of a year the date is not looked for in.
ASSUME HolidaysAreKept ==
    /\ \A y \in 1900 .. 2199 : EasterIsEaster(y)
    /\ \A y \in 2020 .. 2030 : \A n \in DaysBefore(y) + 2 .. DaysBefore(y + 1) - 1 :
           ObservedOnce(n)
=============================================================================
