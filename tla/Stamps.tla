------------------------------- MODULE Stamps -------------------------------
(***************************************************************************)
(* A time stamp on its way: given to a writer as its sender spells it, and *)
(* written again by whoever passes it on.                                  *)
(***************************************************************************)
EXTENDS Dates

CONSTANTS Years, Months, Days, Minutes, Offsets   \* what a sender may spell

ASSUME StampsAssumption ==
  Years \cup Months \cup Days \cup Minutes \cup Offsets \subseteq Int

VARIABLES
  told,    \* the time stamp as its sender spelt it, or none
  stamp,   \* as it was last written
  passed   \* it was written at least once

stampVars == <<told, stamp, passed>>

Spelt == [y : Years, m : Months, d : Days, at : Minutes, ahead : Offsets]

StampInit == told \in Spelt \cup {NoStamp} /\ stamp = told /\ passed = FALSE

\* A refused time stamp is written no more.
Write ==
  /\ stamp # NoStamp
  /\ stamp' = normalizedTimestamp(stamp)
  /\ passed' = TRUE
  /\ UNCHANGED told

StampSpec == StampInit /\ [][Write]_stampVars

-----------------------------------------------------------------------------

\* A day, counted from the first of March of year 0 by the days of the years,
\* the leap days and the days of the months (153 in five) that went before.
DayOf(y, m, d) ==
  LET year  == IF m > 2 THEN y ELSE y - 1
      month == (m + 9) % 12
  IN 365 * year + (year \div 4) - (year \div 100) + (year \div 400)
     + ((153 * month + 2) \div 5) + d - 1

\* The days and the minutes of a day that went before a time stamp's minute.
Days0(s) == DayOf(s.y, s.m, s.d) + ((s.at - s.ahead) \div 1440)
Instant(s) == <<Days0(s), (s.at - s.ahead) % 1440>>

NextMonth(y, m) == IF m = 12 THEN DayOf(y + 1, 1, 1) ELSE DayOf(y, m + 1, 1)

\* A date of the calendar, the days of a month being those to the next.
IsDate(s) ==
  Month(s.m) /\ s.d >= 1 /\ DayOf(s.y, s.m, s.d) < NextMonth(s.y, s.m)

\* What can be told: a minute of a calendar day, in UTC in the years 0 to 9999.
IsMoment(s) ==
  /\ IsDate(s) /\ Minute(s.at) /\ Offset(s.ahead)
  /\ Days0(s) \in DayOf(0, 1, 1)..DayOf(9999, 12, 31)

\* However often a time stamp is written it tells the minute it told, by a date
\* of the calendar and in UTC, and exactly what tells no minute, or one out of
\* the years of four digits, is refused: rec.go carries an offset over days,
\* months and years by hand (normalizedTimestamp).
StampKeepsInstant ==
  passed =>
    IF IsMoment(told)
    THEN /\ stamp # NoStamp /\ Instant(stamp) = Instant(told)
         /\ IsDate(stamp) /\ Minute(stamp.at) /\ stamp.ahead = 0
    ELSE stamp = NoStamp
=============================================================================
