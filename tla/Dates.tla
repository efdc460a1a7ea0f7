------------------------------- MODULE Dates -------------------------------
(***************************************************************************)
(* The time stamps of the generated codec, as dates: a day, the minutes of *)
(* its day and the minutes its offset is ahead of UTC.  What is finer than *)
(* a minute is left out: the writer refuses seconds past 59, which no      *)
(* offset moves, and cuts a fraction of up to nine digits to six.          *)
(***************************************************************************)
EXTENDS Integers

NoStamp == <<>>

\* What two digits or four may tell in their place.
Month(m)      == m \in 1..12
Minute(at)    == at \in 0..1439
Offset(ahead) == ahead \in -1439..1439
FourDigits(y) == y \in 0..9999

\* Mutant: every fourth year is a leap year.
timestampDaysJulian(y, m) ==
  CASE m = 2 -> IF y % 4 = 0 THEN 29 ELSE 28
    [] m \in {4, 6, 9, 11} -> 30
    [] OTHER -> 31

timestampDays(y, m) ==
  CASE m = 2 -> IF y % 4 = 0 /\ (y % 100 # 0 \/ y % 400 = 0) THEN 29 ELSE 28
    [] m \in {4, 6, 9, 11} -> 30
    [] OTHER -> 31

normalizedTimestamp(s) ==
  LET at   == s.at - s.ahead
      day  == IF at < 0 THEN s.d - 1 ELSE IF at >= 1440 THEN s.d + 1 ELSE s.d
      back == IF day > 0 THEN <<s.y, s.m>>
              ELSE IF s.m = 1 THEN <<s.y - 1, 12>> ELSE <<s.y, s.m - 1>>
      d    == IF day > 0 THEN day ELSE timestampDays(back[1], back[2])
      over == d > timestampDays(back[1], back[2])
      next == IF ~ over THEN back
              ELSE IF back[2] = 12 THEN <<back[1] + 1, 1>> ELSE <<back[1], back[2] + 1>>
  IN IF \/ ~ Month(s.m) \/ s.d \notin 1..timestampDays(s.y, s.m)
        \/ ~ Minute(s.at) \/ ~ Offset(s.ahead) \/ ~ FourDigits(next[1])
     THEN NoStamp
     ELSE [y |-> next[1], m |-> next[2], d |-> IF over THEN 1 ELSE d,
           at |-> at % 1440, ahead |-> 0]

wideTimestamp(s) == normalizedTimestamp(s) # NoStamp
=============================================================================
