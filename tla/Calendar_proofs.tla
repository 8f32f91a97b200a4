---------------------------- MODULE Calendar_proofs ----------------------------
(***************************************************************************)
(* Theorems about calendar-service: of CalendarWeeks for every day there   *)
(* will be, and of CalendarEvents for any number of events, days and       *)
(* requests.                                                               *)
(***************************************************************************)
EXTENDS CalendarEvents, FiniteSetTheorems, TLAPS

-----------------------------------------------------------------------------
\* The calendar.

\* Years have 365 days, or 366.
LEMMA YearLength ==
  ASSUME NEW y \in Int
  PROVE  /\ NewYear(y) \in Int
         /\ NewYear(y + 1) = NewYear(y) + (IF Leap(y) THEN 366 ELSE 365)
BY DEF NewYear, Leap

LEMMA NewYearsGrow ==
  ASSUME NEW y \in Int, NEW z \in Int, y < z
  PROVE  NewYear(y + 1) <= NewYear(z)
BY DEF NewYear

LEMMA NewYearAbout ==
  ASSUME NEW y \in Int, y >= 2001
  PROVE  365 * (y - 2001) <= NewYear(y) /\ NewYear(y + 1) <= 366 * (y - 2000)
BY DEF NewYear

\* Every day lies in a year: the one found by counting whole spans of four hundred,
\* of a hundred, of four years and of one year, a leap day staying with the last.
LEMMA DayHasYear ==
  ASSUME NEW d \in Nat
  PROVE  \E y \in Int : y >= 2001 /\ NewYear(y) <= d /\ d < NewYear(y + 1)
<1>1. PICK a \in Nat : 146097 * a <= d /\ d < 146097 * a + 146097
  <2>1. d \div 146097 \in Nat /\ 146097 * (d \div 146097) <= d /\ d < 146097 * (d \div 146097) + 146097
    BY SMT
  <2>2. QED
    BY <2>1, SMT
<1>2. PICK r \in Nat : d = 146097 * a + r /\ r < 146097
  <2>1. d - 146097 * a \in Nat /\ d = 146097 * a + (d - 146097 * a) /\ d - 146097 * a < 146097
    BY <1>1, SMT
  <2>2. QED
    BY <2>1, SMT
<1>3. PICK b \in 0 .. 3 : 36524 * b <= r /\ (b < 3 => r < 36524 * b + 36524)
  <2>1. PICK q \in Nat : 36524 * q <= r /\ r < 36524 * q + 36524
    <3>1. r \div 36524 \in Nat /\ 36524 * (r \div 36524) <= r /\ r < 36524 * (r \div 36524) + 36524
      BY SMT
    <3>2. QED
      BY <3>1, SMT
  <2>2. q <= 4
    BY <1>2, <2>1, SMT
  <2>3. CASE q = 4
    BY <2>1, <2>3, SMT
  <2>4. CASE q < 4
    BY <2>1, <2>4, SMT
  <2>5. QED
    BY <2>2, <2>3, <2>4, SMT
<1>4. PICK s \in Nat : r = 36524 * b + s /\ s <= 36524 /\ (b < 3 => s < 36524)
  <2>1. r - 36524 * b \in Nat /\ r - 36524 * b <= 36524 /\ (b < 3 => r - 36524 * b < 36524)
    BY <1>2, <1>3, SMT
  <2>2. r = 36524 * b + (r - 36524 * b)
    BY <1>3, SMT
  <2>3. QED
    BY <2>1, <2>2, SMT
<1>5. PICK c \in 0 .. 24 : 1461 * c <= s /\ s < 1461 * c + 1461
  <2>1. PICK q \in Nat : 1461 * q <= s /\ s < 1461 * q + 1461
    <3>1. s \div 1461 \in Nat /\ 1461 * (s \div 1461) <= s /\ s < 1461 * (s \div 1461) + 1461
      BY SMT
    <3>2. QED
      BY <3>1, SMT
  <2>2. q <= 24
    BY <1>4, <2>1, SMT
  <2>3. QED
    BY <2>1, <2>2, SMT
<1>6. PICK t \in Nat : s = 1461 * c + t /\ t <= 1460
  <2>1. s - 1461 * c \in Nat /\ s - 1461 * c <= 1460 /\ s = 1461 * c + (s - 1461 * c)
    BY <1>5, SMT
  <2>2. QED
    BY <2>1, SMT
<1>7. PICK e \in 0 .. 3 : 365 * e <= t /\ (e < 3 => t < 365 * e + 365)
  <2>1. PICK q \in Nat : 365 * q <= t /\ t < 365 * q + 365
    <3>1. t \div 365 \in Nat /\ 365 * (t \div 365) <= t /\ t < 365 * (t \div 365) + 365
      BY SMT
    <3>2. QED
      BY <3>1, SMT
  <2>2. q <= 4
    BY <1>6, <2>1, SMT
  <2>3. CASE q = 4
    BY <2>1, <2>3, SMT
  <2>4. CASE q < 4
    BY <2>1, <2>4, SMT
  <2>5. QED
    BY <2>2, <2>3, <2>4, SMT
<1>8. PICK y \in Int : y = 2001 + 400 * a + 100 * b + 4 * c + e
  BY SMT
<1>9. /\ (y - 2001) \div 4 = 100 * a + 25 * b + c
      /\ (y - 2001) \div 100 = 4 * a + b /\ (y - 2001) \div 400 = a
  BY <1>8, SMT
<1>10. NewYear(y) = 146097 * a + 36524 * b + 1461 * c + 365 * e
  BY <1>8, <1>9, SMT DEF NewYear
<1>11. NewYear(y) <= d
  BY <1>2, <1>4, <1>6, <1>7, <1>10, SMT
<1>12. e = 3 /\ (c < 24 \/ b = 3) => Leap(y)
  BY <1>8, SMT DEF Leap
<1>13. NewYear(y + 1) = NewYear(y) + (IF Leap(y) THEN 366 ELSE 365)
  BY YearLength, SMT
<1>14. c = 24 /\ b < 3 => t < 1460
  BY <1>4, <1>6, SMT
<1>15. t < 365 * e + (IF Leap(y) THEN 366 ELSE 365)
  BY <1>6, <1>7, <1>12, <1>14, SMT
<1>16. d < NewYear(y + 1)
  BY <1>2, <1>4, <1>6, <1>10, <1>13, <1>15, SMT
<1>17. QED
  BY <1>8, <1>11, <1>16, SMT

\* And in no other.
LEMMA YearIs ==
  ASSUME NEW d \in Nat, NEW y \in Int, NewYear(y) <= d, d < NewYear(y + 1)
  PROVE  y >= 2001 /\ Year(d) = y
<1>1. y >= 2001
  <2>1. NewYear(2001) = 0
    BY DEF NewYear
  <2>2. y < 2001 => NewYear(y + 1) <= NewYear(2001)
    BY NewYearsGrow
  <2>3. NewYear(y + 1) \in Int
    BY YearLength
  <2>4. QED
    BY <2>1, <2>2, <2>3
<1> DEFINE years == 2001 + d \div 366 .. 2001 + d \div 365
<1>2. y \in years
  <2>1. 365 * (y - 2001) <= d /\ d < 366 * (y - 2000)
    <3>1. /\ 365 * (y - 2001) <= NewYear(y) /\ NewYear(y + 1) <= 366 * (y - 2000)
          /\ NewYear(y) \in Int /\ NewYear(y + 1) \in Int
      BY <1>1, NewYearAbout, YearLength
    <3>2. QED
      BY <3>1
  <2>2. d \div 366 <= y - 2001 /\ y - 2001 <= d \div 365 /\ d \div 365 \in Int /\ d \div 366 \in Int
    BY <1>1, <2>1
  <2>3. QED
    BY <1>1, <2>2
<1>3. \A z \in years : z \in Int
  OBVIOUS
<1> HIDE DEF years
<1>4. \A z \in years : NewYear(z) <= d /\ d < NewYear(z + 1) => z = y
  <2> SUFFICES ASSUME NEW z \in years, NewYear(z) <= d, d < NewYear(z + 1) PROVE z = y
    OBVIOUS
  <2>1. z \in Int /\ NewYear(z) \in Int /\ NewYear(y) \in Int /\ NewYear(z + 1) \in Int /\ NewYear(y + 1) \in Int
    BY <1>3, YearLength
  <2>2. ~(z < y)
    BY <2>1, NewYearsGrow
  <2>3. ~(y < z)
    BY <2>1, NewYearsGrow
  <2>4. QED
    BY <2>1, <2>2, <2>3
<1>5. Year(d) = CHOOSE z \in years : NewYear(z) <= d /\ d < NewYear(z + 1)
  BY DEF Year, years
<1>6. QED
  BY <1>1, <1>2, <1>4, <1>5

LEMMA YearHolds ==
  ASSUME NEW d \in Nat
  PROVE  Year(d) \in Int /\ Year(d) >= 2001 /\ NewYear(Year(d)) <= d /\ d < NewYear(Year(d) + 1)
<1>1. PICK y \in Int : y >= 2001 /\ NewYear(y) <= d /\ d < NewYear(y + 1)
  BY DayHasYear
<1>2. Year(d) = y
  BY <1>1, YearIs
<1>3. QED
  BY <1>1, <1>2

\* The first of every month, and of the next year's first.
FirstOf(y, m) ==
    LET first == NewYear(y)
        later == first + (IF Leap(y) THEN 1 ELSE 0)
    IN  CASE m = 1 -> first          [] m = 2 -> first + 31    [] m = 3 -> later + 59
          [] m = 4 -> later + 90     [] m = 5 -> later + 120   [] m = 6 -> later + 151
          [] m = 7 -> later + 181    [] m = 8 -> later + 212   [] m = 9 -> later + 243
          [] m = 10 -> later + 273   [] m = 11 -> later + 304  [] m = 12 -> later + 334
          [] m = 13 -> later + 365

LEMMA FirstIsFirst ==
  ASSUME NEW y \in Int, NEW m \in 1 .. 13
  PROVE  Date(y, m, 1) = FirstOf(y, m)
<1>1. NewYear(y) \in Int /\ NewYear(y + 1) = NewYear(y) + (IF Leap(y) THEN 366 ELSE 365)
  BY YearLength
<1>2. CASE m = 13
  <2>1. (13 - 1) \div 12 = 1 /\ (13 - 1) % 12 = 0 /\ DaysBefore[1] = 0
    BY DEF DaysBefore
  <2>2. Date(y, 13, 1) = NewYear(y + 1)
    BY <1>1, <2>1 DEF Date
  <2>3. QED
    BY <1>1, <1>2, <2>2 DEF FirstOf
<1>3. CASE m \in 1 .. 12
  <2>1. (m - 1) \div 12 = 0 /\ (m - 1) % 12 = m - 1
    BY <1>3
  <2>2. Date(y, m, 1) = NewYear(y) + DaysBefore[m] + (IF m > 2 /\ Leap(y) THEN 1 ELSE 0)
    BY <1>1, <1>3, <2>1 DEF Date, DaysBefore
  <2>3. QED
    BY <1>1, <1>3, <2>2 DEF FirstOf, DaysBefore
<1>4. QED
  BY <1>2, <1>3

LEMMA FirstTyped == \A y \in Int : \A m \in 1 .. 13 : FirstOf(y, m) \in Int
BY YearLength DEF FirstOf

LEMMA FirstEnds ==
  ASSUME NEW y \in Int
  PROVE  FirstOf(y, 1) = NewYear(y) /\ FirstOf(y, 13) = NewYear(y + 1)
<1>1. NewYear(y) \in Int /\ NewYear(y + 1) = NewYear(y) + (IF Leap(y) THEN 366 ELSE 365)
  BY YearLength
<1>2. QED
  BY <1>1 DEF FirstOf

LEMMA FirstsGrow ==
  ASSUME NEW y \in Int, NEW k \in 1 .. 13, NEW m \in 1 .. 13, k < m
  PROVE  FirstOf(y, k + 1) <= FirstOf(y, m) /\ FirstOf(y, k) <= FirstOf(y, m)
BY YearLength DEF FirstOf

\* A day is in one month of its year, and in no other.
LEMMA MonthHolds ==
  ASSUME NEW d \in Nat
  PROVE  Month(d) \in 1 .. 12 /\ d \in MonthRange(Year(d), Month(d))
<1> DEFINE y == Year(d)
<1>1. y \in Int /\ NewYear(y) <= d /\ d < NewYear(y + 1)
  BY YearHolds
<1> HIDE DEF y
<1>2. \A m \in 1 .. 13 : Date(y, m, 1) = FirstOf(y, m) /\ FirstOf(y, m) \in Int
  <2>1. \A m \in 1 .. 13 : FirstOf(y, m) \in Int
    BY <1>1, FirstTyped, Zenon
  <2>2. QED
    BY <1>1, <2>1, FirstIsFirst
<1>3. FirstOf(y, 1) <= d /\ d < FirstOf(y, 13)
  BY <1>1, FirstEnds
<1>4. \E m \in 1 .. 12 : FirstOf(y, m) <= d /\ d < FirstOf(y, m + 1)
  <2>1. \/ FirstOf(y, 1) <= d /\ d < FirstOf(y, 2)
        \/ FirstOf(y, 2) <= d /\ d < FirstOf(y, 3)
        \/ FirstOf(y, 3) <= d /\ d < FirstOf(y, 4)
        \/ FirstOf(y, 4) <= d /\ d < FirstOf(y, 5)
        \/ FirstOf(y, 5) <= d /\ d < FirstOf(y, 6)
        \/ FirstOf(y, 6) <= d /\ d < FirstOf(y, 7)
        \/ FirstOf(y, 7) <= d /\ d < FirstOf(y, 8)
        \/ FirstOf(y, 8) <= d /\ d < FirstOf(y, 9)
        \/ FirstOf(y, 9) <= d /\ d < FirstOf(y, 10)
        \/ FirstOf(y, 10) <= d /\ d < FirstOf(y, 11)
        \/ FirstOf(y, 11) <= d /\ d < FirstOf(y, 12)
        \/ FirstOf(y, 12) <= d /\ d < FirstOf(y, 13)
    BY <1>2, <1>3
  <2>2. QED
    BY <2>1
<1>5. \E m \in 1 .. 12 : d \in Date(y, m, 1) .. Date(y, m + 1, 1) - 1
  BY <1>2, <1>4
<1>6. Month(d) \in 1 .. 12 /\ d \in Date(y, Month(d), 1) .. Date(y, Month(d) + 1, 1) - 1
  BY <1>5 DEF Month, y
<1>7. QED
  BY <1>6 DEF MonthRange, Days, y

LEMMA MonthAlone ==
  ASSUME NEW d \in Nat, NEW y \in Int, NEW m \in 1 .. 12, d \in MonthRange(y, m)
  PROVE  Year(d) = y /\ Month(d) = m
<1>1. \A k \in 1 .. 13 : Date(y, k, 1) = FirstOf(y, k) /\ FirstOf(y, k) \in Int
  <2>1. \A k \in 1 .. 13 : Date(y, k, 1) = FirstOf(y, k)
    BY FirstIsFirst
  <2>2. \A k \in 1 .. 13 : FirstOf(y, k) \in Int
    BY FirstTyped, Zenon
  <2>3. QED
    BY <2>1, <2>2
<1>2. FirstOf(y, m) <= d /\ d < FirstOf(y, m + 1)
  BY <1>1 DEF MonthRange, Days
<1>3. \A k, n \in 1 .. 13 : k < n => FirstOf(y, k + 1) <= FirstOf(y, n)
  BY FirstsGrow
<1>4. FirstOf(y, 1) <= FirstOf(y, m) /\ FirstOf(y, m + 1) <= FirstOf(y, 13)
  <2>1. CASE m = 1
    BY <1>1, <2>1, FirstsGrow
  <2>2. CASE m # 1
    BY <1>1, <2>2, FirstsGrow
  <2>3. QED
    BY <2>1, <2>2
<1>5. NewYear(y) <= d /\ d < NewYear(y + 1)
  <2>1. FirstOf(y, 1) \in Int /\ FirstOf(y, m) \in Int /\ FirstOf(y, m + 1) \in Int /\ FirstOf(y, 13) \in Int
    BY <1>1
  <2>2. FirstOf(y, 1) = NewYear(y) /\ FirstOf(y, 13) = NewYear(y + 1)
    BY FirstEnds
  <2>3. QED
    BY <1>2, <1>4, <2>1, <2>2
<1>6. Year(d) = y
  BY <1>5, YearIs
<1>7. Month(d) \in 1 .. 12 /\ FirstOf(y, Month(d)) <= d /\ d < FirstOf(y, Month(d) + 1)
  BY <1>1, <1>6, MonthHolds DEF MonthRange, Days
<1>8. ~(m < Month(d)) /\ ~(Month(d) < m)
  BY <1>1, <1>2, <1>3, <1>7
<1>9. QED
  BY <1>6, <1>7, <1>8

-----------------------------------------------------------------------------
\* The weeks.

\* The Monday on or before a day, and the week it begins.
MondayOf(d) == d - (d % 7)

\* A day is so many days after a Monday.
LEMMA Weekdays ==
  ASSUME NEW d \in Int
  PROVE  \E q \in Int, e \in 0 .. 6 :
             /\ d = 7 * q + e /\ d % 7 = e /\ MondayOf(d) = 7 * q
             /\ (d + 1) % 7 = IF e = 6 THEN 0 ELSE e + 1
<1>1. PICK q \in Int : q = d \div 7
  OBVIOUS
<1>2. PICK e \in 0 .. 6 : d = 7 * q + e /\ d % 7 = e
  <2>1. d - 7 * q \in 0 .. 6 /\ d % 7 = d - 7 * q
    BY <1>1
  <2>2. d = 7 * q + (d - 7 * q)
    OBVIOUS
  <2>3. QED
    BY <2>1, <2>2
<1>3. (d + 1) % 7 = IF e = 6 THEN 0 ELSE e + 1
  <2>1. CASE e = 6
    <3>1. d + 1 = 7 * (q + 1)
      BY <1>2, <2>1
    <3>2. QED
      BY <2>1, <3>1
  <2>2. CASE e # 6
    <3>1. d + 1 = 7 * q + (e + 1) /\ e + 1 \in 0 .. 6
      BY <1>2, <2>2
    <3>2. QED
      BY <2>2, <3>1
  <2>3. QED
    BY <2>1, <2>2
<1>4. MondayOf(d) = 7 * q
  BY <1>2 DEF MondayOf
<1>5. QED
  BY <1>2, <1>3, <1>4

LEMMA Mondays ==
  ASSUME NEW d \in Int
  PROVE  MondayOf(d) \in Int /\ MondayOf(d) <= d /\ d <= MondayOf(d) + 6 /\ MondayOf(d) % 7 = 0
<1>1. PICK q \in Int, e \in 0 .. 6 : d = 7 * q + e /\ MondayOf(d) = 7 * q
  BY Weekdays
<1>2. (7 * q) % 7 = 0
  OBVIOUS
<1>3. QED
  BY <1>1, <1>2

\* Two days that are both Mondays are whole weeks apart.
LEMMA WeeksApart ==
  ASSUME NEW d \in Int, NEW e \in Int, d % 7 = 0, e % 7 = 0
  PROVE  (d - e) \div 7 \in Int /\ d - e = 7 * ((d - e) \div 7)
OBVIOUS

LEMMA Thursdays == ASSUME NEW d \in Int PROVE Thursday(d) = MondayOf(d) + 3
<1>1. PICK q \in Int, e \in 0 .. 6 : /\ d = 7 * q + e /\ d % 7 = e
                                     /\ (d + 1) % 7 = IF e = 6 THEN 0 ELSE e + 1
  BY Weekdays
<1>2. (Weekday(d) + 6) % 7 = e
  <2>1. CASE e = 6
    BY <1>1, <2>1 DEF Weekday
  <2>2. CASE e # 6
    <3>1. Weekday(d) + 6 = 7 + e
      BY <1>1, <2>2 DEF Weekday
    <3>2. QED
      BY <3>1
  <2>3. QED
    BY <2>1, <2>2
<1>3. QED
  BY <1>1, <1>2 DEF Thursday, MondayOf

\* Week 1 is the one with 4 January.
FirstMonday(y) == MondayOf(NewYear(y) + 3)

LEMMA WeekStarts ==
  ASSUME NEW y \in Int, NEW w \in Int
  PROVE  weekStart(y, w) = FirstMonday(y) + 7 * (w - 1)
<1>1. NewYear(y) \in Int
  BY YearLength
<1>2. Date(y, 1, 4) = NewYear(y) + 3
  <2>1. (1 - 1) \div 12 = 0 /\ (1 - 1) % 12 = 0 /\ DaysBefore[1] = 0
    BY DEF DaysBefore
  <2>2. QED
    BY <1>1, <2>1 DEF Date
<1>3. ASSUME NEW day \in Int
      PROVE  day - (IF Weekday(day) - Monday < 0 THEN Weekday(day) - Monday + 7 ELSE Weekday(day) - Monday)
                 = MondayOf(day)
  <2>1. PICK q \in Int, e \in 0 .. 6 : /\ day = 7 * q + e /\ MondayOf(day) = 7 * q
                                       /\ (day + 1) % 7 = IF e = 6 THEN 0 ELSE e + 1
    BY Weekdays
  <2>2. QED
    BY <2>1 DEF Weekday, Monday
<1>4. QED
  BY <1>1, <1>2, <1>3 DEF weekStart, FirstMonday

LEMMA FirstMondays ==
  ASSUME NEW y \in Int
  PROVE  /\ FirstMonday(y) \in Int /\ FirstMonday(y) % 7 = 0
         /\ NewYear(y) - 3 <= FirstMonday(y) /\ FirstMonday(y) <= NewYear(y) + 3
<1>1. NewYear(y) + 3 \in Int
  BY YearLength
<1>2. QED
  BY <1>1, Mondays, YearLength DEF FirstMonday

LEMMA InWeek ==
  ASSUME NEW d \in Int, NEW y \in Int, NEW w \in Int
  PROVE  d \in WeekRange(y, w) <=> MondayOf(d) = FirstMonday(y) + 7 * (w - 1)
<1>1. weekStart(y, w) = FirstMonday(y) + 7 * (w - 1) /\ FirstMonday(y) \in Int /\ FirstMonday(y) % 7 = 0
  BY WeekStarts, FirstMondays
<1>2. MondayOf(d) \in Int /\ MondayOf(d) <= d /\ d <= MondayOf(d) + 6 /\ MondayOf(d) % 7 = 0
  BY Mondays
<1>3. d \in WeekRange(y, w) <=> FirstMonday(y) + 7 * (w - 1) <= d /\ d < FirstMonday(y) + 7 * (w - 1) + 7
  BY <1>1 DEF WeekRange, Days
<1>4. QED
  BY <1>1, <1>2, <1>3

\* The number of a day's ISO week counts the Mondays since the first of its year.
LEMMA WeekNumber ==
  ASSUME NEW d \in Nat
  PROVE  /\ ISOYear(d) \in Int /\ ISOWeek(d) \in 1 .. 53
         /\ NewYear(ISOYear(d)) <= Thursday(d) /\ Thursday(d) < NewYear(ISOYear(d) + 1)
         /\ MondayOf(d) = FirstMonday(ISOYear(d)) + 7 * (ISOWeek(d) - 1)
<1> DEFINE y == ISOYear(d)
<1>1. MondayOf(d) \in Nat /\ Thursday(d) = MondayOf(d) + 3 /\ MondayOf(d) % 7 = 0
  BY Thursdays, Mondays DEF MondayOf
<1>2. y \in Int /\ NewYear(y) <= Thursday(d) /\ Thursday(d) < NewYear(y + 1)
  BY <1>1, YearHolds DEF ISOYear
<1>3. ISOWeek(d) = (Thursday(d) - NewYear(y)) \div 7 + 1
  BY DEF ISOWeek
<1> HIDE DEF y
<1>4. /\ FirstMonday(y) \in Int /\ FirstMonday(y) % 7 = 0 /\ NewYear(y) \in Int
      /\ NewYear(y) - 3 <= FirstMonday(y) /\ FirstMonday(y) <= NewYear(y) + 3
      /\ NewYear(y + 1) \in Int /\ NewYear(y + 1) <= NewYear(y) + 366
  <2>1. /\ FirstMonday(y) \in Int /\ FirstMonday(y) % 7 = 0
        /\ NewYear(y) - 3 <= FirstMonday(y) /\ FirstMonday(y) <= NewYear(y) + 3
    BY <1>2, FirstMondays
  <2>2. NewYear(y) \in Int /\ NewYear(y + 1) = NewYear(y) + (IF Leap(y) THEN 366 ELSE 365)
    BY <1>2, YearLength
  <2>3. QED
    BY <2>1, <2>2
<1>5. PICK k \in Int : MondayOf(d) - FirstMonday(y) = 7 * k
  BY <1>1, <1>4, WeeksApart
<1>6. Thursday(d) - NewYear(y) = 7 * k + (FirstMonday(y) + 3 - NewYear(y))
  BY <1>1, <1>4, <1>5
<1>7. (Thursday(d) - NewYear(y)) \div 7 = k
  BY <1>4, <1>5, <1>6
<1>8. k >= 0 /\ k <= 52
  BY <1>1, <1>2, <1>4, <1>5, <1>6
<1>9. ISOWeek(d) = k + 1 /\ k + 1 \in 1 .. 53
  BY <1>3, <1>7, <1>8
<1>10. MondayOf(d) = FirstMonday(y) + 7 * (ISOWeek(d) - 1)
  BY <1>1, <1>4, <1>5, <1>9
<1>11. QED
  BY <1>2, <1>9, <1>10 DEF y

\* The first Monday tells the year.
LEMMA FirstMondaysDiffer ==
  ASSUME NEW y \in Int, NEW z \in Int, y < z
  PROVE  FirstMonday(y) + 359 <= FirstMonday(z)
<1>1. /\ FirstMonday(y) \in Int /\ FirstMonday(y) <= NewYear(y) + 3
      /\ FirstMonday(z) \in Int /\ NewYear(z) - 3 <= FirstMonday(z)
  BY FirstMondays
<1>2. NewYear(y) \in Int /\ NewYear(z) \in Int /\ NewYear(y) + 365 <= NewYear(y + 1) /\ NewYear(y + 1) \in Int
  BY YearLength
<1>3. NewYear(y + 1) <= NewYear(z)
  BY NewYearsGrow
<1>4. QED
  BY <1>1, <1>2, <1>3

\* A day is in its ISO week, and in no other of the weeks the service takes of the
\* year; one in a week 53 its year does not have is in the first of the next.
LEMMA WeekAlone == ASSUME NEW d \in Nat PROVE InItsWeekAlone(d)
<1> DEFINE y == ISOYear(d)
           week == ISOWeek(d)
<1>1. y \in Int /\ week \in 1 .. 53 /\ MondayOf(d) = FirstMonday(y) + 7 * (week - 1)
  BY WeekNumber
<1> HIDE DEF y, week
<1>2. FirstMonday(y) \in Int /\ FirstMonday(y - 1) \in Int
  BY <1>1, FirstMondays
<1>3. ASSUME NEW w \in 1 .. 53 PROVE d \in WeekRange(y, w) <=> w = week
  <2>1. d \in WeekRange(y, w) <=> MondayOf(d) = FirstMonday(y) + 7 * (w - 1)
    BY <1>1, InWeek
  <2>2. QED
    BY <1>1, <1>2, <2>1
<1>4. ASSUME d \in WeekRange(y - 1, 53) PROVE week = 1
  <2>1. MondayOf(d) = FirstMonday(y - 1) + 7 * (53 - 1)
    BY <1>1, <1>4, InWeek
  <2>2. FirstMonday(y - 1) + 359 <= FirstMonday(y)
    BY <1>1, FirstMondaysDiffer
  <2>3. QED
    BY <1>1, <1>2, <2>1, <2>2
<1>5. QED
  BY <1>3, <1>4 DEF InItsWeekAlone, y, week

\* A day is in its month, and in no other of its year or of any other.
LEMMA MonthFound == ASSUME NEW d \in Nat PROVE InItsMonthAlone(d)
<1>1. Year(d) \in Int /\ d \in MonthRange(Year(d), Month(d))
  BY YearHolds, MonthHolds
<1>2. \A y \in Int, m \in 1 .. 12 : d \in MonthRange(y, m) => y = Year(d) /\ m = Month(d)
  BY MonthAlone
<1>3. QED
  BY <1>1, <1>2 DEF InItsMonthAlone

LEMMA DaysTyped == DaysSpec => [](today \in Nat)
<1>1. InitDay => today \in Nat
  BY DaysOK DEF InitDay
<1>2. today \in Nat /\ [TurnDay]_today => (today \in Nat)'
  BY DEF TurnDay
<1>3. QED
  BY <1>1, <1>2, PTL DEF DaysSpec

\* Every day that will ever come, and not only those of the century that the run
\* turns through, lies in its month and in no other, and in its ISO week and no other
\* of the 53 that the service takes of the year.
THEOREM WeeksTileForEver == DaysSpec => WeeksTile
<1>1. today \in Nat /\ [TurnDay]_today
          => [TurnDay => InItsWeekAlone(today') /\ InItsMonthAlone(today')]_today
  <2> SUFFICES ASSUME today \in Nat, TurnDay PROVE InItsWeekAlone(today') /\ InItsMonthAlone(today')
    OBVIOUS
  <2>1. today' \in Nat
    BY DEF TurnDay
  <2>2. QED
    BY <2>1, WeekAlone, MonthFound
<1>2. QED
  BY <1>1, DaysTyped, PTL DEF DaysSpec, WeeksTile

\* The week the gateway asks for when none is named holds the day exactly if the day's
\* ISO week is of the day's own year, on every day there will be.
THEOREM DefaultWeekExplained == DaysSpec => []DefaultWeekHoldsToday
<1>1. today \in Nat => DefaultWeekHoldsToday
  <2> SUFFICES ASSUME NEW d \in Nat
               PROVE  d \in WeekRange(Year(d), ISOWeek(d)) <=> Year(d) = ISOYear(d)
    BY DEF DefaultWeekHoldsToday, DefaultWeek
  <2> DEFINE y == ISOYear(d)
             z == Year(d)
             week == ISOWeek(d)
  <2>1. /\ y \in Int /\ z \in Int /\ week \in Int
        /\ MondayOf(d) = FirstMonday(y) + 7 * (week - 1)
    BY WeekNumber, YearHolds
  <2> HIDE DEF y, z, week
  <2>2. d \in WeekRange(z, week) <=> MondayOf(d) = FirstMonday(z) + 7 * (week - 1)
    BY <2>1, InWeek
  <2>3. FirstMonday(y) \in Int /\ FirstMonday(z) \in Int
    BY <2>1, FirstMondays
  <2>4. FirstMonday(y) = FirstMonday(z) => y = z
    <3>1. (y < z => FirstMonday(y) + 359 <= FirstMonday(z)) /\ (z < y => FirstMonday(z) + 359 <= FirstMonday(y))
      BY <2>1, FirstMondaysDiffer
    <3>2. QED
      BY <2>1, <2>3, <3>1
  <2>5. d \in WeekRange(z, week) <=> z = y
    BY <2>1, <2>2, <2>3, <2>4
  <2>6. QED
    BY <2>5 DEF y, z, week
<1>2. QED
  BY <1>1, DaysTyped, PTL

-----------------------------------------------------------------------------
\* The events.

\* A request holds what it has read and been given; as long as nobody has written the
\* event since, what it has read is what the table has.
Fits(r, table) ==
    /\ r.step \in {"update", "delete"} => r.id \in Ids
    /\ r.step = "update" =>
           /\ r.span \in Span /\ r.edit \in Edit
           /\ Both(r.edit) => r.edit.start <= r.edit.end
           /\ table[r.id].state # "unused"
           /\ r.fresh => r.span = table[r.id].span

Holding == \A w \in Workers : Fits(req[w], event)

KeptHaveSpans == \A i \in Ids : Kept(i) => event[i].span \in Span /\ wanted[i] \in Span

Inv == CalendarTypeOK /\ Holding /\ KeptHaveSpans /\ EditsKept /\ EndFollowsStart

LEMMA IdleTyped == Idle \in Request /\ Idle.step = "idle" /\ Unused \in Event /\ Unused.state = "unused"
BY DEF Idle, Request, Unused, Event

\* Merging an edit gives a span: the edit itself if both bounds are given, and what it
\* is merged into if neither is.
LEMMA Merged ==
  ASSUME NEW span \in Span, NEW edit \in Edit
  PROVE  /\ Merge(span, edit) \in Span
         /\ Both(edit) => Merge(span, edit) = [start |-> edit.start, end |-> edit.end]
         /\ Neither(edit) => Merge(span, edit) = span
BY DEF Span, Edit, Merge, Both, Neither

\* The ghost is given what a merge into it would make.
LEMMA GivenIsMerged ==
  ASSUME NEW i \in Ids, wanted[i] \in Span, NEW edit \in Edit
  PROVE  Given(i, edit) = Merge(wanted[i], edit)
BY DEF Given, Merge, Span, Edit

\* Steps that move one request on, and nothing else, keep what holds.
LEMMA RequestKeeps ==
  ASSUME Inv, NEW w \in Workers, NEW r \in Request, Fits(r, event), Goto(w, r),
         UNCHANGED <<event, wanted, lopsided, overtaken>>
  PROVE  Inv'
<1>1. req' \in [Workers -> Request] /\ req'[w] = r /\ \A v \in Workers \ {w} : req'[v] = req[v]
  BY DEF Goto, Inv, CalendarTypeOK
<1>2. Holding'
  BY <1>1 DEF Inv, Holding, Fits
<1>3. CalendarTypeOK' /\ KeptHaveSpans' /\ EditsKept' /\ EndFollowsStart'
  BY <1>1 DEF Inv, CalendarTypeOK, KeptHaveSpans, EditsKept, EndFollowsStart, Kept
<1>4. QED
  BY <1>2, <1>3 DEF Inv

LEMMA FinishKeeps ==
  ASSUME Inv, NEW w \in Workers, Finish(w), UNCHANGED <<event, wanted, lopsided, overtaken>>
  PROVE  Inv'
<1>1. Idle \in Request /\ Fits(Idle, event)
  BY IdleTyped DEF Fits
<1>2. QED
  BY <1>1, RequestKeeps DEF Finish

LEMMA CreateKeeps ==
  ASSUME Inv, NEW w \in Workers, NEW i \in Ids, NEW span \in Span, CreateEvent(w, i, span)
  PROVE  Inv'
<1>1. /\ event[i].state = "unused" /\ span.start <= span.end
      /\ event' = [event EXCEPT ![i] = [state |-> "kept", span |-> span]]
      /\ wanted' = [wanted EXCEPT ![i] = span]
      /\ UNCHANGED <<req, lopsided, overtaken>>
  BY DEF CreateEvent
<1>2. /\ event'[i] = [state |-> "kept", span |-> span] /\ wanted'[i] = span
      /\ \A j \in Ids \ {i} : event'[j] = event[j] /\ wanted'[j] = wanted[j]
  BY <1>1 DEF Inv, CalendarTypeOK
<1>3. CalendarTypeOK'
  BY <1>1 DEF Inv, CalendarTypeOK, Event
<1>4. Holding'
  BY <1>1, <1>2 DEF Inv, Holding, Fits
<1>5. ~(span.end < span.start)
  <2>1. span.start \in Nat /\ span.end \in Nat
    BY ConstantsOK DEF Span
  <2>2. QED
    BY <1>1, <2>1
<1>6. KeptHaveSpans' /\ EditsKept'
  BY <1>1, <1>2 DEF Inv, KeptHaveSpans, EditsKept, Kept
<1>7. EndFollowsStart'
  BY <1>1, <1>2, <1>5 DEF Inv, EndFollowsStart, Kept
<1>8. QED
  BY <1>3, <1>4, <1>6, <1>7 DEF Inv

LEMMA ReadKeeps ==
  ASSUME Inv, NEW w \in Workers, NEW i \in Ids,
         (\E edit \in Edit : UpdateEvent(w, i, edit)) \/ DeleteEvent(w, i)
  PROVE  Inv'
<1>1. CASE DeleteEvent(w, i)
  <2> DEFINE r == [Idle EXCEPT !.step = "delete", !.id = i]
  <2>1. r \in Request /\ r.step = "delete" /\ r.id = i
    BY IdleTyped DEF Request
  <2>2. Goto(w, r) /\ UNCHANGED <<event, wanted, lopsided, overtaken>>
    BY <1>1 DEF DeleteEvent
  <2> HIDE DEF r
  <2>3. Fits(r, event)
    BY <2>1 DEF Fits
  <2>4. QED
    BY <2>1, <2>2, <2>3, RequestKeeps
<1>2. ASSUME NEW edit \in Edit, UpdateEvent(w, i, edit) PROVE Inv'
  <2> DEFINE r == [step |-> "update", id |-> i, span |-> event[i].span, edit |-> edit, fresh |-> TRUE]
  <2>1. /\ Kept(i) /\ (Both(edit) => edit.start <= edit.end)
        /\ Goto(w, r) /\ UNCHANGED <<event, wanted, lopsided, overtaken>>
    BY <1>2 DEF UpdateEvent
  <2>2. event[i].span \in Span /\ event[i].state = "kept"
    BY <2>1 DEF Inv, KeptHaveSpans, Kept
  <2>3. r \in Request /\ Fits(r, event)
    BY <2>1, <2>2 DEF Request, Fits
  <2> HIDE DEF r
  <2>4. QED
    BY <2>1, <2>3, RequestKeeps
<1>3. QED
  BY <1>1, <1>2

LEMMA DeleteKeeps == ASSUME Inv, NEW w \in Workers, Delete(w) PROVE Inv'
<1> DEFINE i == req[w].id
<1>1. /\ req[w].step = "delete" /\ Kept(i) /\ Finish(w)
      /\ event' = [event EXCEPT ![i].state = "deleted"]
      /\ UNCHANGED <<wanted, lopsided, overtaken>>
  BY DEF Delete
<1>2. i \in Ids
  BY <1>1 DEF Inv, Holding, Fits
<1> HIDE DEF i
<1>3. event[i] \in Event
  BY <1>2 DEF Inv, CalendarTypeOK
<1>4. /\ event' \in [Ids -> Event] /\ event'[i].state = "deleted" /\ event'[i].span = event[i].span
      /\ \A j \in Ids \ {i} : event'[j] = event[j]
  BY <1>1, <1>2, <1>3 DEF Inv, CalendarTypeOK, Event
<1>5. req' \in [Workers -> Request] /\ req'[w].step = "idle" /\ \A v \in Workers \ {w} : req'[v] = req[v]
  BY <1>1, IdleTyped DEF Finish, Goto, Inv, CalendarTypeOK
<1>6. CalendarTypeOK'
  BY <1>1, <1>4, <1>5 DEF Inv, CalendarTypeOK
<1>7. \A j \in Ids : event'[j].span = event[j].span /\ (event[j].state # "unused" => event'[j].state # "unused")
  BY <1>4
<1>8. Holding'
  <2>1. \A v \in Workers \ {w} : Fits(req'[v], event')
    BY <1>5, <1>7 DEF Inv, Holding, Fits
  <2>2. Fits(req'[w], event')
    BY <1>5 DEF Fits
  <2>3. QED
    BY <2>1, <2>2 DEF Holding
<1>9. KeptHaveSpans' /\ EditsKept' /\ EndFollowsStart'
  BY <1>1, <1>4 DEF Inv, KeptHaveSpans, EditsKept, EndFollowsStart, Kept
<1>10. QED
  BY <1>6, <1>8, <1>9 DEF Inv

LEMMA UpdateKeeps == ASSUME Inv, NEW w \in Workers, Update(w) PROVE Inv'
<1> DEFINE i == req[w].id
           edit == req[w].edit
           read == req[w].span
           fresh == req[w].fresh
           span == Merge(read, edit)
<1>1. /\ req[w].step = "update" /\ Kept(i)
      /\ event' = [event EXCEPT ![i].span = span]
      /\ req' = [v \in Workers |-> IF v = w THEN Idle
                                   ELSE IF req[v].id = i THEN [req[v] EXCEPT !.fresh = FALSE] ELSE req[v]]
      /\ wanted' = [wanted EXCEPT ![i] = Given(i, edit)]
      /\ lopsided' = IF Neither(edit) THEN lopsided ELSE Blame(lopsided, i, ~Both(edit))
      /\ overtaken' = Blame(overtaken, i, ~Both(edit) /\ (~fresh \/ i \in overtaken))
  BY DEF Update
<1>2. /\ i \in Ids /\ read \in Span /\ edit \in Edit /\ (Both(edit) => edit.start <= edit.end)
      /\ fresh => read = event[i].span
  BY <1>1 DEF Inv, Holding, Fits
<1>3. event[i] \in Event /\ event[i].state = "kept" /\ event[i].span \in Span /\ wanted[i] \in Span
  BY <1>1, <1>2 DEF Inv, CalendarTypeOK, KeptHaveSpans, Kept
<1>4. /\ span \in Span
      /\ Both(edit) => span = [start |-> edit.start, end |-> edit.end]
      /\ Neither(edit) => span = read
  BY <1>2, Merged
<1>5. /\ Given(i, edit) \in Span
      /\ Given(i, edit) = Merge(wanted[i], edit)
      /\ Both(edit) => Given(i, edit) = [start |-> edit.start, end |-> edit.end]
  BY <1>2, <1>3, Merged, GivenIsMerged
<1>6. fresh /\ read = wanted[i] => span = Given(i, edit)
  BY <1>5
<1>7. span.end < span.start => ~Both(edit)
  <2>1. CASE Both(edit)
    <3>1. edit.start \in Nat /\ edit.end \in Nat
      BY <1>2, <2>1, ConstantsOK DEF Edit, Both
    <3>2. QED
      BY <1>2, <1>4, <2>1, <3>1
  <2>2. QED
    BY <2>1
<1> DEFINE given == Given(i, edit)
           unheld == ~Both(edit) /\ (~fresh \/ i \in overtaken)
<1>8. /\ wanted' = [wanted EXCEPT ![i] = given]
      /\ overtaken' = IF unheld THEN overtaken \cup {i} ELSE overtaken \ {i}
      /\ Neither(edit) => lopsided' = lopsided
      /\ ~Neither(edit) /\ ~Both(edit) => lopsided' = lopsided \cup {i}
      /\ lopsided' \subseteq lopsided \cup {i} /\ lopsided \ {i} \subseteq lopsided'
  BY <1>1 DEF Blame
<1>9. /\ given \in Span
      /\ ~unheld => span = given
  <2>1. CASE Both(edit)
    BY <1>4, <1>5, <2>1
  <2>2. CASE ~Both(edit) /\ fresh /\ i \notin overtaken
    <3>1. event[i].span = wanted[i]
      BY <1>1, <1>2, <2>2 DEF Inv, EditsKept
    <3>2. QED
      BY <1>2, <1>5, <1>6, <2>2, <3>1
  <2>3. QED
    BY <1>5, <2>1, <2>2
<1>10. span.end < span.start => i \in lopsided' \cup overtaken'
  <2> SUFFICES ASSUME span.end < span.start PROVE i \in lopsided' \cup overtaken'
    OBVIOUS
  <2>1. CASE ~Neither(edit)
    BY <1>7, <1>8, <2>1
  <2>2. CASE Neither(edit) /\ (~fresh \/ i \in overtaken)
    BY <1>7, <1>8, <2>2
  <2>3. CASE Neither(edit) /\ fresh /\ i \notin overtaken
    <3>1. span = event[i].span
      BY <1>2, <1>4, <2>3
    <3>2. i \in lopsided
      BY <1>1, <1>2, <2>3, <3>1 DEF Inv, EndFollowsStart
    <3>3. QED
      BY <1>8, <2>3, <3>2
  <2>4. QED
    BY <2>1, <2>2, <2>3
<1>11. event' = [event EXCEPT ![i].span = span]
  BY <1>1
<1>12. /\ req' \in [Workers -> Request] /\ req'[w].step = "idle"
       /\ \A v \in Workers : \/ req'[v] = req[v] /\ req[v].id # i
                             \/ req'[v].step = "idle"
                             \/ /\ req'[v].step = req[v].step /\ req'[v].id = req[v].id
                                /\ req'[v].span = req[v].span /\ req'[v].edit = req[v].edit /\ ~req'[v].fresh
  <2>1. Idle \in Request /\ Idle.step = "idle"
    BY IdleTyped
  <2>2. \A v \in Workers : req[v] \in Request
    BY DEF Inv, CalendarTypeOK
  <2>3. \A v \in Workers : LET r == [req[v] EXCEPT !.fresh = FALSE]
                           IN  /\ r \in Request /\ r.step = req[v].step /\ r.id = req[v].id
                               /\ r.span = req[v].span /\ r.edit = req[v].edit /\ ~r.fresh
    BY <2>2 DEF Request
  <2>4. \A v \in Workers : req'[v] = IF v = w THEN Idle
                                     ELSE IF req[v].id = i THEN [req[v] EXCEPT !.fresh = FALSE] ELSE req[v]
    BY <1>1
  <2>5. req' = [v \in Workers |-> req'[v]]
    BY <1>1
  <2> HIDE DEF i
  <2>6. \A v \in Workers : req'[v] \in Request
    BY <2>1, <2>2, <2>3, <2>4
  <2>7. req' \in [Workers -> Request]
    BY <2>5, <2>6
  <2>8. QED
    BY <2>1, <2>3, <2>4, <2>7
<1> HIDE DEF i, edit, read, fresh, span, given, unheld
<1>13. /\ event' \in [Ids -> Event] /\ event'[i].state = "kept" /\ event'[i].span = span
       /\ wanted' \in [Ids -> Span \cup {None}] /\ wanted'[i] = given
       /\ \A j \in Ids \ {i} : event'[j] = event[j] /\ wanted'[j] = wanted[j]
  BY <1>2, <1>3, <1>4, <1>8, <1>9, <1>11 DEF Inv, CalendarTypeOK, Event
<1>14. CalendarTypeOK'
  BY <1>2, <1>8, <1>12, <1>13 DEF Inv, CalendarTypeOK
<1>15. \A j \in Ids : event[j].state # "unused" => event'[j].state # "unused"
  BY <1>13
<1>16. Holding'
  <2> SUFFICES ASSUME NEW v \in Workers PROVE Fits(req'[v], event')
    BY DEF Holding, Fits
  <2>1. Fits(req[v], event)
    BY DEF Inv, Holding
  <2>2. CASE req'[v].step = "idle"
    BY <2>2 DEF Fits
  <2>3. CASE req'[v] = req[v] /\ req[v].id # i
    BY <1>13, <1>15, <2>1, <2>3 DEF Fits
  <2>4. CASE /\ req'[v].step = req[v].step /\ req'[v].id = req[v].id
             /\ req'[v].span = req[v].span /\ req'[v].edit = req[v].edit /\ ~req'[v].fresh
    BY <1>15, <2>1, <2>4 DEF Fits
  <2>5. QED
    BY <1>12, <2>2, <2>3, <2>4
<1>17. KeptHaveSpans'
  BY <1>4, <1>9, <1>13 DEF Inv, KeptHaveSpans, Kept
<1>18. EditsKept'
  BY <1>8, <1>9, <1>13 DEF Inv, EditsKept, Kept
<1>19. EndFollowsStart'
  BY <1>8, <1>10, <1>13 DEF Inv, EndFollowsStart, Kept
<1>20. QED
  BY <1>14, <1>16, <1>17, <1>18, <1>19 DEF Inv

LEMMA InvStep == Inv /\ [NextEvents]_evars => Inv'
<1> SUFFICES ASSUME Inv, [NextEvents]_evars PROVE Inv'
  OBVIOUS
<1>1. ASSUME NEW w \in Workers, Begin(w) PROVE Inv'
  BY <1>1, CreateKeeps, ReadKeeps DEF Begin
<1>2. ASSUME NEW w \in Workers, Continue(w) \/ Stop(w) PROVE Inv'
  <2>1. CASE Vanished(w) \/ Stop(w)
    BY <2>1, FinishKeeps DEF Vanished, Stop
  <2>2. QED
    BY <1>2, <2>1, UpdateKeeps, DeleteKeeps DEF Continue
<1>3. CASE UNCHANGED evars
  BY <1>3 DEF evars, Inv, CalendarTypeOK, Holding, Fits, KeptHaveSpans, EditsKept, EndFollowsStart, Kept
<1>4. QED
  BY <1>1, <1>2, <1>3 DEF NextEvents

LEMMA InvInit == InitEvents => Inv
<1> SUFFICES ASSUME InitEvents PROVE Inv
  OBVIOUS
<1>1. CalendarTypeOK
  BY IdleTyped DEF InitEvents, CalendarTypeOK
<1>2. (\A i \in Ids : ~Kept(i)) /\ \A w \in Workers : req[w].step = "idle"
  BY IdleTyped DEF InitEvents, Kept
<1>3. Holding /\ KeptHaveSpans /\ EditsKept /\ EndFollowsStart
  BY <1>2 DEF Holding, Fits, KeptHaveSpans, EditsKept, EndFollowsStart
<1>4. QED
  BY <1>1, <1>3 DEF Inv

LEMMA InvAlways == EventsSpec => []Inv
BY InvInit, InvStep, PTL DEF EventsSpec

-----------------------------------------------------------------------------
\* What holds of every calendar.

\* Events and requests are of the types the code gives them.
THEOREM CalendarTypeCorrect == EventsSpec => []CalendarTypeOK
<1>1. Inv => CalendarTypeOK
  BY DEF Inv
<1>2. QED
  BY <1>1, InvAlways, PTL

\* With any number of events and requests, an event is when its creation and its edits
\* one after the other put it, unless an edit was written over a reading that another
\* had overtaken.
THEOREM EditsAreKept == EventsSpec => []EditsKept
<1>1. Inv => EditsKept
  BY DEF Inv
<1>2. QED
  BY <1>1, InvAlways, PTL

\* However requests interleave, an event ends before it starts only if the last bound
\* to be given was given alone, or a reading since overtaken was written back.
THEOREM EndsFollowStarts == EventsSpec => []EndFollowsStart
<1>1. Inv => EndFollowsStart
  BY DEF Inv
<1>2. QED
  BY <1>1, InvAlways, PTL
=============================================================================
