------------------------------- MODULE Calendar -------------------------------
(***************************************************************************)
(* Dates: rfc3339 (crates/passalong-server-core, clock.rs) computes a civil *)
(* date from a number of days, and `tls self-signed` (api, tls.rs) makes    *)
(* the dates of a certificate from it.  The reference is the calendar       *)
(* itself, walked day by day from the first of January 1970.                *)
(***************************************************************************)
EXTENDS Integers, Sequences, FiniteSetsExt

CONSTANT LastDay    \* bound: how many days the calendar is walked

ASSUME CalendarAssumption == LastDay \in Nat

VARIABLES
  days,     \* days since 1970-01-01
  date      \* the date of that day, by the calendar: <<year, month, day>>

calendar == <<days, date>>

(* The calendar: the reference.                                            *)
Leap(year) == year % 4 = 0 /\ (year % 100 # 0 \/ year % 400 = 0)
Length(year, month) ==
  CASE month \in {4, 6, 9, 11} -> 30
    [] month = 2 -> IF Leap(year) THEN 29 ELSE 28
    [] OTHER -> 31
RealDate(d) == d[2] \in 1..12 /\ d[3] \in 1..Length(d[1], d[2])
NextDate(d) ==
  IF d[3] < Length(d[1], d[2]) THEN <<d[1], d[2], d[3] + 1>>
  ELSE IF d[2] < 12 THEN <<d[1], d[2] + 1, 1>>
  ELSE <<d[1] + 1, 1, 1>>
NotAfter(d, e) == d[1] * 372 + d[2] * 31 + d[3] <= e[1] * 372 + e[2] * 31 + e[3]

CalendarInit == days = 0 /\ date = <<1970, 1, 1>>

Tomorrow ==
  /\ days < LastDay
  /\ days' = days + 1
  /\ date' = NextDate(date)

CalendarSpec == CalendarInit /\ [][Tomorrow]_calendar

-----------------------------------------------------------------------------
\* Mutant of YearOfEra: the year that 400 divides is no leap year.
YearOfEraOfCenturies(doe) == (doe - doe \div 1460 + doe \div 36524) \div 365

YearOfEra(doe) == (doe - doe \div 1460 + doe \div 36524 - doe \div 146096) \div 365

(* The date rfc3339 writes for a day: years from the first of March, in eras
   of 400 of them.                                                         *)
Civil(n) ==
  LET z == n + 719468
      era == z \div 146097
      doe == z % 146097
      yoe == YearOfEra(doe)
      doy == doe - (365 * yoe + yoe \div 4 - yoe \div 100)
      mp == (5 * doy + 2) \div 153
      day == doy - (153 * mp + 2) \div 5 + 1
      month == IF mp < 10 THEN mp + 3 ELSE mp - 9
  IN <<yoe + era * 400 + (IF month <= 2 THEN 1 ELSE 0), month, day>>

SelfSignedYears == 10

(* `self_signed`: good from the day before, for clocks that differ ...     *)
NotBeforeDate(today) == Civil(Max({today - 1, 0}))

(* ... to the tenth anniversary: the 29th of February has none in most years. *)
NotAfterDate(today) ==
  LET from == NotBeforeDate(today)
  IN <<from[1] + SelfSignedYears, from[2], Min({from[3], 28})>>

-----------------------------------------------------------------------------
(* A self-signed certificate made today has two dates that exist, is good
   today and was yesterday, and stays good for ten years but for at most a
   month (tls.rs, self_signed).                                            *)
CertificateIsGood ==
  LET from == NotBeforeDate(days)
      until == NotAfterDate(days)
  IN /\ RealDate(from) /\ RealDate(until)
     /\ NotAfter(from, date) /\ NotAfter(date, until)
     /\ NotAfter(<<date[1] + SelfSignedYears, date[2] - 1, date[3]>>, until)

(* Every time the server writes has the date the calendar has, over four
   centuries with their leap years (clock.rs, rfc3339), and so have the two
   of a certificate made that day.                                         *)
DateIsRight == Civil(days) = date /\ CertificateIsGood

=============================================================================
