------------------------------ MODULE Calendar ------------------------------
(***************************************************************************)
(* Operation::formatted_time and days_to_ymd                               *)
(* (crates/arc-store-view/src/oplog.rs): the date that `arc op log` shows  *)
(* for a timestamp.  The state is the day of the timestamp; a step is one  *)
(* day.  The cycles of years are counted from 1970, where the rule of leap *)
(* years is not: the date shown is not always the civil one (in the years  *)
(* after leap years it is the next day's, and the 31st of December may be  *)
(* the first of a month 13), so only its order is stated here.             *)
(***************************************************************************)
EXTENDS Integers, Sequences

CONSTANTS
    StartDays, \* where the clock may start, in days since 1970-01-01
    LastDay    \* bound: the last day

ASSUME CalendarAssumption == LastDay \in Nat /\ StartDays \subseteq 0..LastDay

VARIABLE day   \* the day of a timestamp, in days since 1970-01-01

calendarVars == <<day>>

Least(a, b) == IF a <= b THEN a ELSE b

\* year.is_multiple_of(4) && !year.is_multiple_of(100) || ...(400).
leap(year) == year % 4 = 0 /\ (year % 100 # 0 \/ year % 400 = 0)

\* The days of each month, in a leap year or not.
dims == [l \in BOOLEAN |-> <<31, IF l THEN 29 ELSE 28, 31, 30, 31, 30, 31, 31, 30, 31, 30, 31>>]

\* The days before each month; month 13 is after the year.
days_before ==
    [l \in BOOLEAN |->
       LET sum[m \in 1..13] == IF m = 1 THEN 0 ELSE sum[m-1] + dims[l][m-1]
       IN  [m \in 1..13 |-> sum[m]]]

\* Mutant: the last year of a cycle of four is not capped.
split_year_uncapped(days) ==
    LET d400 == days % 146097
        year100 == Least(d400 \div 36524, 3)
        d100 == d400 - year100 * 36524
        d4 == d100 % 1461
        year1 == d4 \div 365
    IN  [y |-> (days \div 146097) * 400 + year100 * 100 + (d100 \div 1461) * 4 + year1 + 1970,
         rest |-> d4 - year1 * 365]

\* The year and the day in it: cycles of 400, 100, 4 and 1 years from 1970.
split_year(days) ==
    LET d400 == days % 146097
        year100 == Least(d400 \div 36524, 3)
        d100 == d400 - year100 * 36524
        year4 == d100 \div 1461
        d4 == d100 % 1461
        year1 == Least(d4 \div 365, 3)
    IN  [y |-> (days \div 146097) * 400 + year100 * 100 + year4 * 4 + year1 + 1970,
         rest |-> d4 - year1 * 365]

\* The loop over dims: the first month that the rest falls short of, or 13.
days_to_ymd(days) ==
    LET s == split_year(days)
        before == days_before[leap(s.y)]
        m == CHOOSE i \in 1..13 :
                /\ before[i] <= s.rest
                /\ i < 13 => s.rest < before[i + 1]
    IN  [y |-> s.y, m |-> m, d |-> s.rest - before[m] + 1]

-----------------------------------------------------------------------------
CalendarInit == day \in StartDays

Tick == day < LastDay /\ day' = day + 1

-----------------------------------------------------------------------------
(* Properties.                                                             *)

Before(a, b) ==
    \/ a.y < b.y
    \/ a.y = b.y /\ a.m < b.m
    \/ a.y = b.y /\ a.m = b.m /\ a.d < b.d

\* A later day is shown as a later date, on every day of a cycle of 400 years
\* and into the next: over months, leap days, years and centuries the log never
\* looks out of order, and no two days look the same.
DatesAdvance == [][Before(days_to_ymd(day), days_to_ymd(day'))]_calendarVars
=============================================================================
