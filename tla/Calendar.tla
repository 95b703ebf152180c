------------------------------ MODULE Calendar ------------------------------
(***************************************************************************)
(* Billing periods (traffic.rs): the month a moment belongs to under a     *)
(* reset schedule, and when that period ends.                              *)
(*                                                                         *)
(* A time is a number of units since 1970-01-01 00:00 UTC.  The code's     *)
(* unit is the second (86 400 a day); DayLength makes it coarser so that   *)
(* a time of day still exists.                                             *)
(***************************************************************************)
EXTENDS Integers

CONSTANT DayLength

ASSUME DayLengthAssumption == DayLength \in Nat \ {0}

LesserOf(a, b) == IF a < b THEN a ELSE b

\* Days from 1970-01-01 to a date, and back, in the proleptic Gregorian calendar: years
\* start in March and come in eras of 400.
days_from_civil(year, m, d) ==
    LET y == IF m <= 2 THEN year - 1 ELSE year
        yoe == y % 400
        mp == IF m > 2 THEN m - 3 ELSE m + 9
        doy == (153 * mp + 2) \div 5 + d - 1
        doe == yoe * 365 + yoe \div 4 - yoe \div 100 + doy
    IN (y \div 400) * 146097 + doe - 719468

civil_from_days(days) ==
    LET z == days + 719468
        doe == z % 146097
        yoe == (doe - doe \div 1460 + doe \div 36524 - doe \div 146096) \div 365
        doy == doe - (365 * yoe + yoe \div 4 - yoe \div 100)
        mp == (5 * doy + 2) \div 153
        d == doy - (153 * mp + 2) \div 5 + 1
        m == IF mp < 10 THEN mp + 3 ELSE mp - 9
    IN [y |-> yoe + (z \div 146097) * 400 + (IF m <= 2 THEN 1 ELSE 0), m |-> m, d |-> d]

next_month(p) == IF p.m = 12 THEN [y |-> p.y + 1, m |-> 1] ELSE [y |-> p.y, m |-> p.m + 1]

previous_month(p) == IF p.m = 1 THEN [y |-> p.y - 1, m |-> 12] ELSE [y |-> p.y, m |-> p.m - 1]

-----------------------------------------------------------------------------
(* A schedule is [mode, day, offset]: every period starts on the fixed day,*)
(* or on the day and at the time of day the instance was created, in local *)
(* time.  A creation time of 0 is unknown.                                 *)

anchor(s, created) ==
    IF s.mode = "creation" /\ created > 0
    THEN LET local == created + s.offset
         IN [day |-> civil_from_days(local \div DayLength).d, tod |-> local % DayLength]
    ELSE [day |-> s.day, tod |-> 0]

\* Mutated forms: the day is not clamped to the length of the month.
start_of_unclamped(a, p) == days_from_civil(p.y, p.m, a.day) * DayLength + a.tod

\* Local time at which the period of month p starts; the last day of shorter months.
start_of(a, p) ==
    LET n == next_month(p)
        days_in_month == days_from_civil(n.y, n.m, 1) - days_from_civil(p.y, p.m, 1)
    IN days_from_civil(p.y, p.m, LesserOf(a.day, days_in_month)) * DayLength + a.tod

\* The month in which the period that contains a time started.
period(s, created, time) ==
    LET local == time + s.offset
        date == civil_from_days(local \div DayLength)
        month == [y |-> date.y, m |-> date.m]
    IN IF local >= start_of(anchor(s, created), month) THEN month ELSE previous_month(month)

\* When that period ends.
next_reset(s, created, time) ==
    LET t == start_of(anchor(s, created), next_month(period(s, created, time))) - s.offset
    IN IF t < 0 THEN 0 ELSE t
=============================================================================
