------------------------------ MODULE Calendar ------------------------------
(***************************************************************************)
(* The calendar the program takes from chrono, as far as it uses it:       *)
(* NaiveDate::from_ymd_opt, ordinal, weekday, the order of date-times and  *)
(* the addition of a time to one.                                          *)
(***************************************************************************)
EXTENDS Integers

IsLeap(y) == y % 4 = 0 /\ (y % 100 # 0 \/ y % 400 = 0)
DaysIn(y, m) ==
  IF m = 2 THEN (IF IsLeap(y) THEN 29 ELSE 28) ELSE IF m \in {4, 6, 9, 11} THEN 30 ELSE 31
ValidDate(y, m, d) == m \in 1..12 /\ d \in 1..DaysIn(y, m)

(* Days before a year, and within it before a month.                        *)
DaysTo(y) == 365 * (y - 1) + (y - 1) \div 4 - (y - 1) \div 100 + (y - 1) \div 400
DaysBefore(y, m) ==
  <<0, 31, 59, 90, 120, 151, 181, 212, 243, 273, 304, 334>>[m] + (IF m > 2 /\ IsLeap(y) THEN 1 ELSE 0)
Ordinal(d) == DaysBefore(d.year, d.month) + d.day
DayNumber(d) == DaysTo(d.year) + Ordinal(d)

(* 0 is Monday, as is 1 January of the year 1.                              *)
Weekday(d) == (DayNumber(d) - 1) % 7

Day(y, m, d) ==
  [year |-> y, month |-> m, day |-> d, hour |-> 0, minute |-> 0, second |-> 0, nanos |-> 0]
Seconds(d) == (d.hour * 60 + d.minute) * 60 + d.second
NotAfter(d, e) ==
  \/ DayNumber(d) < DayNumber(e)
  \/ DayNumber(d) = DayNumber(e) /\ Seconds(d) < Seconds(e)
  \/ DayNumber(d) = DayNumber(e) /\ Seconds(d) = Seconds(e) /\ d.nanos <= e.nanos

NextDay(d) ==
  IF d.day < DaysIn(d.year, d.month) THEN [d EXCEPT !.day = @ + 1]
  ELSE IF d.month < 12 THEN [d EXCEPT !.day = 1, !.month = @ + 1]
  ELSE [d EXCEPT !.day = 1, !.month = 1, !.year = @ + 1]
PrevDay(d) ==
  IF d.day > 1 THEN [d EXCEPT !.day = @ - 1]
  ELSE IF d.month > 1 THEN [d EXCEPT !.month = @ - 1, !.day = DaysIn(d.year, d.month - 1)]
  ELSE [d EXCEPT !.year = @ - 1, !.month = 12, !.day = 31]
(* A time of less than a day later.                                         *)
Later(d, seconds) ==
  LET s == Seconds(d) + seconds
      day == IF s >= 86400 THEN NextDay(d) ELSE d
      t == s % 86400
  IN  [day EXCEPT !.hour = t \div 3600, !.minute = (t \div 60) % 60, !.second = t % 60]
=============================================================================
