------------------------------ MODULE CalendarWeeks ------------------------------
(***************************************************************************)
(* calendar-service: the days a query by week or by month covers, and      *)
(* the week api-gateway asks for when the client names none.  Times are    *)
(* days in UTC, counted from Monday, 1 January 2001.                       *)
(***************************************************************************)
EXTENDS Integers

CONSTANTS FirstDay, LastDay   \* bound: the days the calendar runs through

ASSUME DaysOK == FirstDay \in Nat /\ LastDay \in Nat /\ FirstDay <= LastDay

VARIABLE today

-----------------------------------------------------------------------------
\* time.Date, with months and days beyond their range carried over, and Weekday.

Leap(year) == year % 4 = 0 /\ (year % 100 # 0 \/ year % 400 = 0)
NewYear(year) == LET n == year - 2001 IN 365 * n + n \div 4 - n \div 100 + n \div 400

DaysBefore == <<0, 31, 59, 90, 120, 151, 181, 212, 243, 273, 304, 334>>

Date(year, month, day) ==
    LET y == year + (month - 1) \div 12
        m == ((month - 1) % 12) + 1
    IN  NewYear(y) + DaysBefore[m] + (IF m > 2 /\ Leap(y) THEN 1 ELSE 0) + day - 1

Sunday == 0
Monday == 1
Weekday(d) == (d + 1) % 7

\* The ranges: from the first day to before the last.
Days(from, to) == from .. to - 1

\* Mutation: a Sunday is not carried back to the Monday before it.
weekStartSunday(year, week) ==
    LET jan4 == Date(year, 1, 4)
    IN  jan4 - (Weekday(jan4) - Monday) + 7 * (week - 1)

weekStart(year, week) ==
    LET jan4 == Date(year, 1, 4)
        offset == Weekday(jan4) - Monday
    IN  jan4 - (IF offset < 0 THEN offset + 7 ELSE offset) + 7 * (week - 1)

\* Weeks 1 to 53 are taken of every year, months 1 to 12.
WeekRange(year, week) == Days(weekStart(year, week), weekStart(year, week) + 7)

MonthRange(year, month) == Days(Date(year, month, 1), Date(year, month + 1, 1))

-----------------------------------------------------------------------------
\* What a day's year, month and ISO week are: Time.Year, Time.Month, Time.ISOWeek.

Year(d) == CHOOSE y \in 2001 + d \div 366 .. 2001 + d \div 365 : NewYear(y) <= d /\ d < NewYear(y + 1)
Month(d) == CHOOSE m \in 1 .. 12 : d \in Date(Year(d), m, 1) .. Date(Year(d), m + 1, 1) - 1

\* A week belongs to the year its Thursday is in.
Thursday(d) == d - ((Weekday(d) + 6) % 7) + 3
ISOYear(d) == Year(Thursday(d))
ISOWeek(d) == (Thursday(d) - NewYear(ISOYear(d))) \div 7 + 1

\* Mutation: the number of the week is counted from New Year's day.
DefaultWeekFromNewYear == WeekRange(Year(today), (today - NewYear(Year(today))) \div 7 + 1)

\* The week asked for when the client names none: the number of the ISO week, and
\* the year of the date.
DefaultWeek == WeekRange(Year(today), ISOWeek(today))

-----------------------------------------------------------------------------

InitDay == today = FirstDay
TurnDay == today < LastDay /\ today' = today + 1

DaysSpec == InitDay /\ [][TurnDay]_today

\* The ISO week of a day has it, and none of the other 52 that the service takes of
\* the year; the week 53 of a year that has 52 is the first of the next.
InItsWeekAlone(d) ==
    LET y == ISOYear(d)
        week == ISOWeek(d)
    IN  /\ \A w \in 1 .. 53 : d \in WeekRange(y, w) <=> w = week
        /\ d \in WeekRange(y - 1, 53) => week = 1

\* The months of its year and the next to it neither overlap at a day nor leave it out.
InItsMonthAlone(d) ==
    \A y \in Year(d) - 1 .. Year(d) + 1, m \in 1 .. 12 :
        d \in MonthRange(y, m) <=> y = Year(d) /\ m = Month(d)

\* Every day that comes is found by a query for its ISO week and for no other week of
\* the year, and for its month and no other (calendar_service.go, weekStart).
WeeksTile == [][TurnDay => InItsWeekAlone(today') /\ InItsMonthAlone(today')]_today

\* The week api-gateway asks for when none is named has today in it, except in the
\* days about New Year whose week belongs to the other year.
DefaultWeekHoldsToday == today \in DefaultWeek <=> Year(today) = ISOYear(today)
=============================================================================
