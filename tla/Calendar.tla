------------------------------ MODULE Calendar ------------------------------
(***************************************************************************)
(* days_to_ymd (conversation_log.rs): the date of a day, counted from the  *)
(* first of January 1970.  It names the files of the conversation log and  *)
(* stamps their entries.                                                   *)
(*                                                                         *)
(* Years of the algorithm begin in March and days of an era, 400 of them,  *)
(* are counted from its start, so that the leap day comes last.            *)
(***************************************************************************)
EXTENDS Integers

EraDays == 146097

YearOfEra(doe)        == (doe - doe \div 1460 + doe \div 36524 - doe \div 146096) \div 365
DayOfYear(doe, yoe)   == doe - (365 * yoe + yoe \div 4 - yoe \div 100)
MonthFromMarch(doy)   == (5 * doy + 2) \div 153
DayOfMonth(doy, mp)   == doy - (153 * mp + 2) \div 5 + 1
Month(mp)             == IF mp < 10 THEN mp + 3 ELSE mp - 9

DaysToYmd(days) ==
  LET z   == days + 719468
      era == z \div EraDays
      doe == z - era * EraDays
      yoe == YearOfEra(doe)
      doy == DayOfYear(doe, yoe)
      mp  == MonthFromMarch(doy)
      m   == Month(mp)
  IN  [y |-> yoe + era * 400 + (IF m <= 2 THEN 1 ELSE 0), m |-> m, d |-> DayOfMonth(doy, mp)]

-----------------------------------------------------------------------------
(* The calendar, as it is defined.                                         *)

IsLeap(y) == y % 4 = 0 /\ (y % 100 # 0 \/ y % 400 = 0)

MonthLength(y, m) ==
  IF m = 2 THEN (IF IsLeap(y) THEN 29 ELSE 28)
  ELSE IF m \in {4, 6, 9, 11} THEN 30 ELSE 31

\* Days of a common year before month m.
DaysBefore == <<0, 31, 59, 90, 120, 151, 181, 212, 243, 273, 304, 334>>

LeapDaysBefore(y) == (y - 1) \div 4 - (y - 1) \div 100 + (y - 1) \div 400

\* The day a date stands for.
DayNumber(date) ==
  365 * (date.y - 1970) + LeapDaysBefore(date.y) - LeapDaysBefore(1970)
  + DaysBefore[date.m] + (IF date.m > 2 /\ IsLeap(date.y) THEN 1 ELSE 0)
  + date.d - 1

IsDate(date) ==
  date.y \in Int /\ date.m \in 1 .. 12 /\ date.d \in 1 .. MonthLength(date.y, date.m)
=============================================================================
