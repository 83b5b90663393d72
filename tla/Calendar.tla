------------------------------ MODULE Calendar ------------------------------
(***************************************************************************)
(* The business days of Brazil: weekends, the fixed national holidays and  *)
(* the four that move with Easter. A day is its number in the Gregorian    *)
(* calendar, counted from the 1st of March of the year 0 (a Wednesday);    *)
(* the conversion from and to a date is the one of package time            *)
(* (external).                                                             *)
(***************************************************************************)
EXTENDS Integers

\* Years count from March here, so that the leap day is their last one.
DayOf(y, m, d) ==
  LET n == IF m > 2 THEN y ELSE y - 1
  IN  365 * n + n \div 4 - n \div 100 + n \div 400 + (153 * ((m + 9) % 12) + 2) \div 5 + d - 1

Sunday == 0
Weekday(day) == (day + 3) % 7

YearOf(day) ==
  CHOOSE n \in (day \div 366)..(day \div 365 + 1) :
    DayOf(n, 1, 1) <= day /\ day < DayOf(n + 1, 1, 1)

FixedHolidays == {<<1, 1>>, <<4, 21>>, <<5, 1>>, <<9, 7>>, <<10, 12>>,
                  <<11, 2>>, <<11, 15>>, <<11, 20>>, <<12, 25>>}

\* Faulty variant: neither the correction of the epact nor that of the last full moon.
EasterUncorrected(y) ==
  LET a == y % 19
      b == y \div 100
      c == y % 100
      h == (19 * a + b - b \div 4 - (b - (b + 8) \div 25) \div 3 + 15) % 30
      l == (32 + 2 * (b % 4) + 2 * (c \div 4) - h - (c % 4)) % 7
      n == h + l + 114
  IN  DayOf(y, n \div 31, (n % 31) + 1)

\* Meeus, Jones and Butcher.
Easter(y) ==
  LET a == y % 19
      b == y \div 100
      c == y % 100
      g == (b - (b + 8) \div 25 + 1) \div 3
      h == (19 * a + b - b \div 4 - g + 15) % 30
      l == (32 + 2 * (b % 4) + 2 * (c \div 4) - h - (c % 4)) % 7
      m == (a + 11 * h + 22 * l) \div 451
      n == h + l - 7 * m + 114
  IN  DayOf(y, n \div 31, (n % 31) + 1)

\* Monday and Tuesday of Carnival, Good Friday, Corpus Christi.
MovableOffsets == {-48, -47, -2, 60}

Holidays(y) == {DayOf(y, f[1], f[2]) : f \in FixedHolidays}
               \cup {Easter(y) + k : k \in MovableOffsets}

IsClosed(day) == Weekday(day) \in {Sunday, 6} \/ day \in Holidays(YearOf(day))

-----------------------------------------------------------------------------
(* The definition of Easter: the first Sunday after the ecclesiastical full moon that
   falls on or after the 21st of March, with the epact of the year in the tables of
   the calendar (Clavius). *)
FullMoon(y) ==
  LET golden  == (y % 19) + 1
      century == y \div 100 + 1
      solar   == (3 * century) \div 4 - 12
      lunar   == (8 * century + 5) \div 25 - 5
      e       == (11 * golden + 20 + lunar - solar) % 30
      epact   == IF (e = 25 /\ golden > 11) \/ e = 24 THEN e + 1 ELSE e
      march   == IF 44 - epact < 21 THEN 74 - epact ELSE 44 - epact
  IN  DayOf(y, 3, 1) + march - 1

EasterByDefinition(y) ==
  CHOOSE d \in (FullMoon(y) + 1)..(FullMoon(y) + 7) : Weekday(d) = Sunday

CheckedYears == 1900..2199

EasterIsRight == \A y \in CheckedYears : Easter(y) = EasterByDefinition(y)

ClosedRunsAreShort ==
  \A y \in CheckedYears : \A d \in DayOf(y, 1, 1)..(DayOf(y + 1, 1, 1) - 1) :
    \E k \in 0..4 : ~IsClosed(d + k)
=============================================================================
