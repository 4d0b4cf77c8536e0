------------------------------ MODULE Calendar ------------------------------
(* Dates, months of their real lengths and periods of months, as            *)
(* app/rules/base.py reckons them. A date is its month, counted from January *)
(* of year 0, and its day.                                                  *)
EXTENDS Integers

IsLeap(y) == y % 4 = 0 /\ (y % 100 # 0 \/ y % 400 = 0)

\* calendar.monthrange(year, month)[1]
MonthLength(m) ==
    CASE m % 12 = 1 -> IF IsLeap(m \div 12) THEN 29 ELSE 28
      [] m % 12 \in {3, 5, 8, 10} -> 30
      [] OTHER -> 31

Date == {d \in [month : Nat, day : 1..31] : d.day <= MonthLength(d.month)}

date(y, m, d) == [month |-> 12 * y + m - 1, day |-> d]

Before(d, e) == d.month < e.month \/ (d.month = e.month /\ d.day < e.day)
NoLater(d, e) == Before(d, e) \/ d = e

\* The corresponding day n months on, or the last of that month.
AddMonths(d, n) ==
    LET last == MonthLength(d.month + n)
    IN  [month |-> d.month + n, day |-> IF d.day <= last THEN d.day ELSE last]

-----------------------------------------------------------------------------
(* Differences in days.                                                     *)

DaysBeforeMonth == <<0, 31, 59, 90, 120, 151, 181, 212, 243, 273, 304, 334>>

LeapYearsBefore(y) == (y + 3) \div 4 - (y + 99) \div 100 + (y + 399) \div 400

DayNumber(d) ==
    LET y == d.month \div 12
        m == d.month % 12
    IN  365 * y + LeapYearsBefore(y) + DaysBeforeMonth[m + 1] + d.day
          + (IF m > 1 /\ IsLeap(y) THEN 1 ELSE 0)

DaysBetween(d, e) == DayNumber(e) - DayNumber(d)
=============================================================================
