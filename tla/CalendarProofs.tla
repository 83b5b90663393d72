---------------------------- MODULE CalendarProofs ----------------------------
(***************************************************************************)
(* Theorems about the calendar, for every year from 0 on, and about the    *)
(* due dates that it gives: the algorithm of Meeus, Jones and Butcher      *)
(* finds the Easter of the tables; no more than four closed days follow    *)
(* each other; and an installment is due when the banks work, no more than *)
(* four days late.                                                         *)
(***************************************************************************)
EXTENDS MCAgenda, AgendaProofs

-----------------------------------------------------------------------------
(* Easter *)

\* The date that follows day 21 + x of March, in March or in April.
LEMMA DayInSpring ==
  ASSUME NEW y \in Nat, NEW x \in 0..35
  PROVE  DayOf(y, (x + 114) \div 31, ((x + 114) % 31) + 1) = DayOf(y, 3, 1) + 21 + x
<1> DEFINE n == x + 114
<1>1. CASE x < 10
  <2>1. n \div 31 = 3 /\ n % 31 = x + 21
    BY <1>1
  <2> HIDE DEF n
  <2>2. DayOf(y, 3, (x + 21) + 1) = DayOf(y, 3, 1) + 21 + x
    BY DEF DayOf
  <2> QED BY <2>1, <2>2 DEF n
<1>2. CASE x >= 10
  <2>1. n \div 31 = 4 /\ n % 31 = x - 10
    BY <1>2
  <2>2. DayOf(y, 4, (x - 10) + 1) = DayOf(y, 3, 1) + 21 + x
    BY DEF DayOf
  <2> QED BY <2>1, <2>2
<1> QED BY <1>1, <1>2

\* The day of the week of the 1st of March.
LEMMA MarchBegins ==
  ASSUME NEW y \in Nat, NEW b \in Nat, NEW c \in 0..99, y = 100 * b + c
  PROVE  DayOf(y, 3, 1) = 36524 * b + 365 * c + (c \div 4) + (b \div 4)
<1>1. y \div 4 = 25 * b + (c \div 4) /\ y \div 100 = b /\ y \div 400 = b \div 4
  OBVIOUS
<1> QED
  BY <1>1 DEF DayOf

\* The terms of the algorithm.
Century(y) == y \div 100
Epact(y) ==
  (11 * ((y % 19) + 1) + 20 + ((8 * (Century(y) + 1) + 5) \div 25 - 5)
     - ((3 * (Century(y) + 1)) \div 4 - 12)) % 30
MoonAfter(y) ==
  (19 * (y % 19) + Century(y) - Century(y) \div 4
     - ((Century(y) - (Century(y) + 8) \div 25 + 1) \div 3) + 15) % 30
SundayAfter(y, h) ==
  (32 + 2 * (Century(y) % 4) + 2 * ((y % 100) \div 4) - h - ((y % 100) % 4)) % 7

LEMMA Terms ==
  ASSUME NEW y \in Nat
  PROVE  /\ y % 19 \in 0..18 /\ Century(y) \in Nat /\ y % 100 \in 0..99
         /\ y = 100 * Century(y) + (y % 100)
BY DEF Century

\* The algorithm counts the days from the 21st of March to the full moon as the epact does.
LEMMA MoonByEpact ==
  ASSUME NEW y \in Nat
  PROVE  /\ Epact(y) \in 0..29
         /\ MoonAfter(y) = IF Epact(y) <= 23 THEN 23 - Epact(y) ELSE 53 - Epact(y)
<1> DEFINE a == y % 19
           b == Century(y)
<1>1. a \in 0..18 /\ b \in Nat
  BY DEF Century
<1>2. Epact(y) = (11 * (a + 1) + 20 + ((8 * (b + 1) + 5) \div 25 - 5) - ((3 * (b + 1)) \div 4 - 12)) % 30
  BY DEF Epact
<1>3. MoonAfter(y) = (19 * a + b - b \div 4 - ((b - (b + 8) \div 25 + 1) \div 3) + 15) % 30
  BY DEF MoonAfter
<1> HIDE DEF a, b
<1>4. (8 * (b + 1) + 5) \div 25 = (b - (b + 8) \div 25 + 1) \div 3
  BY <1>1
<1>5. (3 * (b + 1)) \div 4 = b - b \div 4
  BY <1>1
<1> DEFINE s == b - b \div 4
           k == (b - (b + 8) \div 25 + 1) \div 3
<1>6. s \in Int /\ k \in Int
  BY <1>1
<1>7. /\ Epact(y) = (11 * (a + 1) + 20 + (k - 5) - (s - 12)) % 30
      /\ MoonAfter(y) = (19 * a + s - k + 15) % 30
  BY <1>2, <1>3, <1>4, <1>5
<1> HIDE DEF s, k
<1> QED BY <1>1, <1>6, <1>7

\* And it counts the days from there to the Sunday.
LEMMA SundayByWeekday ==
  ASSUME NEW y \in Nat, NEW h \in 0..29
  PROVE  /\ SundayAfter(y, h) \in 0..6
         /\ Weekday(DayOf(y, 3, 1) + 21 + h + SundayAfter(y, h)) = Sunday
<1> DEFINE b == Century(y)
           c == y % 100
           l == SundayAfter(y, h)
<1>1. b \in Nat /\ c \in 0..99 /\ y = 100 * b + c
  BY DEF Century
<1>2. l = (32 + 2 * (b % 4) + 2 * (c \div 4) - h - (c % 4)) % 7
  BY DEF SundayAfter
<1>3. l \in 0..6
  BY <1>1, <1>2
<1> HIDE DEF b, c, l
<1>4. DayOf(y, 3, 1) = 36524 * b + 365 * c + (c \div 4) + (b \div 4)
  BY <1>1, MarchBegins
<1>5. (36524 * b + 365 * c + (c \div 4) + (b \div 4) + 21 + h + l + 3) % 7 = 0
  BY <1>1, <1>2
<1> QED BY <1>3, <1>4, <1>5 DEF Weekday, Sunday, l

\* The full moon that the tables advance by a day.
Late(y) == MoonAfter(y) = 29 \/ (MoonAfter(y) = 28 /\ y % 19 > 10)

LEMMA MoonOfTables ==
  ASSUME NEW y \in Nat
  PROVE  FullMoon(y) = DayOf(y, 3, 1) + 20 + MoonAfter(y) - (IF Late(y) THEN 1 ELSE 0)
<1> DEFINE e == Epact(y)
           a == y % 19
           p == IF (e = 25 /\ a + 1 > 11) \/ e = 24 THEN e + 1 ELSE e
           D == DayOf(y, 3, 1)
<1>1. FullMoon(y) = D + (IF 44 - p < 21 THEN 74 - p ELSE 44 - p) - 1
  BY DEF FullMoon, Epact, Century
<1>2. D \in Int
  BY DEF DayOf
<1>3. a \in 0..18 /\ e \in 0..29 /\ MoonAfter(y) = IF e <= 23 THEN 23 - e ELSE 53 - e
  BY MoonByEpact
<1>4. Late(y) <=> MoonAfter(y) = 29 \/ (MoonAfter(y) = 28 /\ a > 10)
  BY DEF Late
<1>5. FullMoon(y) = D + 20 + MoonAfter(y) - (IF Late(y) THEN 1 ELSE 0)
  <2> HIDE DEF e, a, D
  <2>1. QED
    BY <1>1, <1>2, <1>3, <1>4
<1>6. QED
  BY <1>5

LEMMA EasterOfAlgorithm ==
  ASSUME NEW y \in Nat
  PROVE  LET h == MoonAfter(y)
             l == SundayAfter(y, h)
         IN  Easter(y) = DayOf(y, 3, 1) + 21 + h + l - (IF Late(y) /\ l = 6 THEN 7 ELSE 0)
<1> DEFINE h == MoonAfter(y)
           l == SundayAfter(y, h)
           a == y % 19
           m == (a + 11 * h + 22 * l) \div 451
           x == h + l - 7 * m
<1>1. Easter(y) = DayOf(y, (x + 114) \div 31, ((x + 114) % 31) + 1)
  BY DEF Easter, MoonAfter, SundayAfter, Century
<1>2. a \in 0..18 /\ h \in 0..29 /\ l \in 0..6
  BY MoonByEpact, SundayByWeekday
<1>3. Late(y) <=> h = 29 \/ (h = 28 /\ a > 10)
  BY DEF Late
<1>4. DayOf(y, 3, 1) \in Int
  BY DEF DayOf
<1>5. m = (a + 11 * h + 22 * l) \div 451
  OBVIOUS
<1> HIDE DEF h, l, a, m
<1>6. m = IF Late(y) /\ l = 6 THEN 1 ELSE 0
  BY <1>2, <1>3, <1>5
<1>7. x \in 0..35 /\ x = h + l - (IF Late(y) /\ l = 6 THEN 7 ELSE 0)
  BY <1>2, <1>3, <1>6
<1> HIDE DEF x
<1>8. Easter(y) = DayOf(y, 3, 1) + 21 + x
  BY <1>1, <1>7, DayInSpring
<1> QED BY <1>2, <1>4, <1>7, <1>8 DEF h, l

THEOREM EasterCorrect == \A y \in Nat : Easter(y) = EasterByDefinition(y)
<1> SUFFICES ASSUME NEW y \in Nat PROVE Easter(y) = EasterByDefinition(y)
  OBVIOUS
<1> DEFINE D == DayOf(y, 3, 1)
           h == MoonAfter(y)
           l == SundayAfter(y, h)
           F == FullMoon(y)
           E == Easter(y)
<1>1. D \in Int /\ h \in 0..29 /\ l \in 0..6
  <2>1. D \in Int
    BY DEF DayOf
  <2>2. h \in 0..29
    BY MoonByEpact
  <2>3. l \in 0..6
    BY <2>2, SundayByWeekday
  <2>4. QED
    BY <2>1, <2>2, <2>3
<1>2. F = D + 20 + h - (IF Late(y) THEN 1 ELSE 0)
  BY MoonOfTables
<1>3. E = D + 21 + h + l - (IF Late(y) /\ l = 6 THEN 7 ELSE 0)
  BY EasterOfAlgorithm
<1>4. (D + 21 + h + l + 3) % 7 = 0
  BY <1>1, SundayByWeekday DEF Weekday, Sunday
<1>5. EasterByDefinition(y) = CHOOSE d \in (F + 1)..(F + 7) : (d + 3) % 7 = 0
  BY DEF EasterByDefinition, Weekday, Sunday
<1> HIDE DEF D, h, l, F, E
<1>6. E \in (F + 1)..(F + 7) /\ (E + 3) % 7 = 0
  BY <1>1, <1>2, <1>3, <1>4
<1>7. ASSUME NEW d \in (F + 1)..(F + 7), (d + 3) % 7 = 0
      PROVE  d = E
  BY <1>1, <1>2, <1>6, <1>7
<1> QED BY <1>5, <1>6, <1>7 DEF E

-----------------------------------------------------------------------------
(* Years *)

\* A year begins 59 or 60 days before its 1st of March and ends 305 days after it.
LEMMA YearAroundMarch ==
  ASSUME NEW y \in Nat
  PROVE  /\ DayOf(y, 3, 1) \in Nat
         /\ DayOf(y, 1, 1) \in (DayOf(y, 3, 1) - 60)..(DayOf(y, 3, 1) - 59)
         /\ DayOf(y + 1, 1, 1) = DayOf(y, 3, 1) + 306
<1>1. DayOf(y, 3, 1) = 365 * y + y \div 4 - y \div 100 + y \div 400
  BY DEF DayOf
<1>2. DayOf(y + 1, 1, 1) = 365 * y + y \div 4 - y \div 100 + y \div 400 + 306
  BY DEF DayOf
<1>3. DayOf(y, 1, 1) = 365 * (y - 1) + (y - 1) \div 4 - (y - 1) \div 100 + (y - 1) \div 400 + 306
  BY DEF DayOf
<1>4. QED
  BY <1>1, <1>2, <1>3

\* No day belongs to two years.
LEMMA YearsApart ==
  ASSUME NEW y \in Nat, NEW z \in Nat, y < z
  PROVE  DayOf(y + 1, 1, 1) <= DayOf(z, 1, 1)
<1>1. DayOf(y + 1, 1, 1) = 365 * y + y \div 4 - y \div 100 + y \div 400 + 306
  BY DEF DayOf
<1>2. DayOf(z, 1, 1) = 365 * (z - 1) + (z - 1) \div 4 - (z - 1) \div 100 + (z - 1) \div 400 + 306
  BY DEF DayOf
<1>3. y \div 4 <= (z - 1) \div 4 /\ y \div 100 - y \div 400 <= (z - 1) \div 100 - (z - 1) \div 400 + (z - 1 - y)
  OBVIOUS
<1>4. QED
  BY <1>1, <1>2, <1>3

\* Every day belongs to a year.
LEMMA YearOfDay ==
  ASSUME NEW day \in Nat
  PROVE  /\ YearOf(day) \in Nat
         /\ DayOf(YearOf(day), 1, 1) <= day /\ day < DayOf(YearOf(day) + 1, 1, 1)
<1> DEFINE N == {k \in Nat : day < DayOf(k + 1, 1, 1)}
<1>1. day \in N
  <2>1. DayOf(day + 1, 1, 1) = DayOf(day, 3, 1) + 306
    BY YearAroundMarch
  <2>2. DayOf(day, 3, 1) = 365 * day + day \div 4 - day \div 100 + day \div 400
    BY DEF DayOf
  <2>3. day < DayOf(day + 1, 1, 1)
    BY <2>1, <2>2
  <2>4. QED
    BY <2>3
<1>2. PICK k \in N : \A n \in N : k <= n
  BY <1>1, LeastNumber
<1>3. k \in Nat /\ day < DayOf(k + 1, 1, 1)
  OBVIOUS
<1>4. DayOf(k, 1, 1) <= day
  <2>1. CASE k = 0
    BY <2>1 DEF DayOf
  <2>2. CASE k # 0
    <3>1. k - 1 \in Nat /\ k - 1 \notin N
      BY <1>2, <1>3, <2>2
    <3>2. DayOf(k, 1, 1) \in Int
      BY <1>3, YearAroundMarch
    <3>3. ~(day < DayOf((k - 1) + 1, 1, 1))
      BY <3>1
    <3>4. (k - 1) + 1 = k
      BY <1>3
    <3>5. QED
      BY <3>2, <3>3, <3>4
  <2>3. QED
    BY <2>1, <2>2
<1>5. k \in (day \div 366)..(day \div 365 + 1)
  <2>1. DayOf(k, 1, 1) = 365 * (k - 1) + (k - 1) \div 4 - (k - 1) \div 100 + (k - 1) \div 400 + 306
    BY <1>3 DEF DayOf
  <2>2. DayOf(k + 1, 1, 1) = 365 * k + k \div 4 - k \div 100 + k \div 400 + 306
    BY <1>3 DEF DayOf
  <2>3. k \div 4 - k \div 100 + k \div 400 <= k /\ 365 * (k - 1) <= day
    BY <1>3, <1>4, <2>1
  <2>4. day < 366 * (k + 1) /\ 365 * (k - 1) <= day
    BY <1>3, <2>2, <2>3
  <2>5. QED
    BY <1>3, <2>4
<1> HIDE DEF N
<1>6. \A n \in (day \div 366)..(day \div 365 + 1) :
        DayOf(n, 1, 1) <= day /\ day < DayOf(n + 1, 1, 1) => n \in Nat
  BY <1>3
<1>7. QED
  BY <1>3, <1>4, <1>5, <1>6 DEF YearOf

\* And the year of a day is the only one it belongs to.
LEMMA YearOfPlace ==
  ASSUME NEW y \in Nat, NEW day \in Nat,
         day \in (DayOf(y, 3, 1) - 59)..(DayOf(y, 3, 1) + 305)
  PROVE  YearOf(day) = y
<1> DEFINE n == YearOf(day)
<1>1. n \in Nat /\ DayOf(n, 1, 1) <= day /\ day < DayOf(n + 1, 1, 1)
  BY YearOfDay
<1>2. DayOf(y, 1, 1) \in Int /\ DayOf(y, 1, 1) <= day /\ day < DayOf(y + 1, 1, 1)
  BY YearAroundMarch
<1>3. DayOf(n, 1, 1) \in Int /\ DayOf(n + 1, 1, 1) \in Int /\ DayOf(y + 1, 1, 1) \in Int
  BY <1>1, YearAroundMarch
<1> HIDE DEF n
<1>4. ~(n < y) /\ ~(y < n)
  BY <1>1, <1>2, <1>3, YearsApart
<1>5. n = y
  BY <1>1, <1>4
<1>6. QED
  BY <1>5 DEF n

-----------------------------------------------------------------------------
(* Holidays *)

\* The days from the 1st of March to Easter.
EasterPlace(y) == Easter(y) - DayOf(y, 3, 1)

\* Easter is a Sunday from the 22nd of March to the 25th of April.
LEMMA EasterInSpring ==
  ASSUME NEW y \in Nat
  PROVE  /\ EasterPlace(y) \in 21..55
         /\ Easter(y) = DayOf(y, 3, 1) + EasterPlace(y)
         /\ (Easter(y) + 3) % 7 = 0
<1> DEFINE D == DayOf(y, 3, 1)
           h == MoonAfter(y)
           l == SundayAfter(y, h)
<1>1. D \in Nat
  BY YearAroundMarch
<1>2. h \in 0..29
  BY MoonByEpact
<1>3. l \in 0..6 /\ (D + 21 + h + l + 3) % 7 = 0
  BY <1>2, SundayByWeekday DEF Weekday, Sunday
<1> DEFINE s == IF Late(y) /\ l = 6 THEN 7 ELSE 0
<1>4. Easter(y) = D + 21 + h + l - s
  BY EasterOfAlgorithm
<1>5. s \in {0, 7} /\ (h = 29 /\ l = 6 => s = 7) /\ (s = 7 => l = 6 /\ h >= 28)
  BY DEF Late
<1>6. EasterPlace(y) = Easter(y) - D
  BY DEF EasterPlace
<1>7. /\ EasterPlace(y) \in 21..55
      /\ Easter(y) = D + EasterPlace(y)
      /\ (Easter(y) + 3) % 7 = 0
  <2> HIDE DEF D, h, l, s
  <2>1. EasterPlace(y) = 21 + h + l - s
    BY <1>1, <1>2, <1>3, <1>4, <1>5, <1>6
  <2>2. EasterPlace(y) \in 21..55
    BY <1>2, <1>3, <1>5, <2>1
  <2>3. Easter(y) = D + EasterPlace(y)
    BY <1>1, <1>2, <1>3, <1>4, <1>5, <2>1
  <2>4. (Easter(y) + 3) % 7 = 0
    BY <1>1, <1>2, <1>3, <1>4, <1>5
  <2>5. QED
    BY <2>2, <2>3, <2>4
<1>8. QED
  BY <1>7

\* A holiday that is not only a weekend.
IsHoliday(day) == day \in Holidays(YearOf(day))

\* The days from the 1st of March to each holiday but New Year, in a year whose Easter
\* comes e days after the 1st of March.
FixedPlaces    == {51, 61, 190, 225, 246, 259, 264, 299}
MovablePlaces(e) == {e - 48, e - 47, e - 2, e + 60}

\* The fixed holidays of a year, counted from its 1st of March.
LEMMA FixedHolidayPlaces ==
  ASSUME NEW y \in Nat, NEW f \in FixedHolidays
  PROVE  \/ DayOf(y, f[1], f[2]) = DayOf(y, 1, 1)
         \/ DayOf(y, f[1], f[2]) - DayOf(y, 3, 1) \in FixedPlaces
<1> DEFINE D == DayOf(y, 3, 1)
<1>1. D \in Nat /\ DayOf(y, 1, 1) \in (D - 60)..(D - 59)
  BY YearAroundMarch
<1>2. /\ DayOf(y, 4, 21) = D + 51 /\ DayOf(y, 5, 1) = D + 61 /\ DayOf(y, 9, 7) = D + 190
      /\ DayOf(y, 10, 12) = D + 225 /\ DayOf(y, 11, 2) = D + 246
      /\ DayOf(y, 11, 15) = D + 259 /\ DayOf(y, 11, 20) = D + 264
      /\ DayOf(y, 12, 25) = D + 299
  BY DEF DayOf
<1>3. DayOf(y, f[1], f[2]) \in {DayOf(y, 1, 1), DayOf(y, 4, 21), DayOf(y, 5, 1),
        DayOf(y, 9, 7), DayOf(y, 10, 12), DayOf(y, 11, 2), DayOf(y, 11, 15),
        DayOf(y, 11, 20), DayOf(y, 12, 25)}
  BY DEF FixedHolidays
<1> HIDE DEF D
<1>4. DayOf(y, f[1], f[2]) = DayOf(y, 1, 1) \/ DayOf(y, f[1], f[2]) - D \in FixedPlaces
  BY <1>1, <1>2, <1>3 DEF FixedPlaces
<1>5. QED
  BY <1>4 DEF D

\* Each holiday has one of the places.
LEMMA HolidayPlaces ==
  ASSUME NEW y \in Nat, NEW day \in Nat, day \in Holidays(y)
  PROVE  \/ day = DayOf(y, 1, 1)
         \/ day - DayOf(y, 3, 1) \in FixedPlaces \cup MovablePlaces(EasterPlace(y))
<1> DEFINE D == DayOf(y, 3, 1)
           e == EasterPlace(y)
<1>1. D \in Nat /\ e \in 21..55 /\ Easter(y) = D + e
  BY YearAroundMarch, EasterInSpring
<1>2. CASE day \in {DayOf(y, f[1], f[2]) : f \in FixedHolidays}
  BY <1>2, FixedHolidayPlaces
<1>3. CASE day \in {Easter(y) + k : k \in MovableOffsets}
  <2>1. PICK k \in MovableOffsets : day = Easter(y) + k
    BY <1>3
  <2>2. day - D \in MovablePlaces(e)
    <3> HIDE DEF D, e
    <3>1. QED
      BY <1>1, <2>1 DEF MovableOffsets, MovablePlaces
  <2>3. QED
    BY <2>2
<1>4. QED
  BY <1>2, <1>3 DEF Holidays

\* The place of a holiday in a year that has the day.
LEMMA HolidayOfYear ==
  ASSUME NEW y \in Nat, NEW day \in Nat, IsHoliday(day),
         day \in (DayOf(y, 3, 1) - 59)..(DayOf(y, 3, 1) + 305)
  PROVE  \/ day = DayOf(y, 1, 1)
         \/ day - DayOf(y, 3, 1) \in FixedPlaces \cup MovablePlaces(EasterPlace(y))
BY YearOfPlace, HolidayPlaces DEF IsHoliday

\* Two holidays follow each other at Carnival, and where Good Friday is the day before or
\* after Tiradentes' day.
LEMMA NeighbouringHolidays ==
  ASSUME NEW p \in Nat, IsHoliday(p), IsHoliday(p + 1)
  PROVE  \E y \in Nat :
           LET D == DayOf(y, 3, 1)
               e == EasterPlace(y)
           IN  \/ p = D + e - 48
               \/ e = 54 /\ p = D + 51
               \/ e = 52 /\ p = D + 50
<1> DEFINE y == YearOf(p)
           D == DayOf(y, 3, 1)
           e == EasterPlace(y)
           x == p - D
<1>1. y \in Nat /\ DayOf(y, 1, 1) <= p /\ p < DayOf(y + 1, 1, 1)
  BY YearOfDay
<1>2. /\ D \in Nat
      /\ DayOf(y, 1, 1) \in (D - 60)..(D - 59)
      /\ DayOf(y + 1, 1, 1) = D + 306
  BY <1>1, YearAroundMarch
<1>3. x \in -60..305
  <2> HIDE DEF D
  <2>1. QED
    BY <1>1, <1>2
<1>4. e \in 21..55
  BY <1>1, EasterInSpring
<1>5. p = DayOf(y, 1, 1) \/ x \in FixedPlaces \cup MovablePlaces(e)
  BY <1>1, HolidayPlaces DEF IsHoliday
<1>6. x # 305
  <2>1. p = D + x /\ p \in Int
    BY <1>2
  <2> HIDE DEF x, e, D
  <2>2. p = DayOf(y, 1, 1) => x # 305
    BY <1>2, <2>1
  <2>3. QED
    BY <1>4, <1>5, <2>2 DEF FixedPlaces, MovablePlaces
<1>7. p + 1 \in (D - 59)..(D + 305)
  <2> HIDE DEF D
  <2>1. QED
    BY <1>2, <1>3, <1>6
<1>8. p + 1 = DayOf(y, 1, 1) \/ (p + 1) - D \in FixedPlaces \cup MovablePlaces(e)
  <2>1. p + 1 \in Nat
    OBVIOUS
  <2>2. QED
    BY <1>1, <1>7, <2>1, HolidayOfYear
<1>9. x + 1 \in FixedPlaces \cup MovablePlaces(e)
  <2>1. (p + 1) - D = x + 1 /\ ~(p + 1 = DayOf(y, 1, 1))
    BY <1>1, <1>2
  <2>2. QED
    BY <1>8, <2>1
<1>10. x = e - 48 \/ (e = 54 /\ x = 51) \/ (e = 52 /\ x = 50)
  <2>1. p = D + x /\ p \in Int
    BY <1>2
  <2> HIDE DEF x, e, D
  <2>2. ~(p = DayOf(y, 1, 1))
    BY <1>2, <1>3, <1>4, <1>9, <2>1 DEF FixedPlaces, MovablePlaces
  <2>3. QED
    BY <1>4, <1>5, <1>9, <2>2 DEF FixedPlaces, MovablePlaces
<1>11. D \in Int /\ p = D + x /\ (p = D + e - 48 <=> x = e - 48)
  BY <1>2, <1>4
<1>12. \/ p = D + e - 48
       \/ e = 54 /\ p = D + 51
       \/ e = 52 /\ p = D + 50
  <2> HIDE DEF x, e, D
  <2>1. QED
    BY <1>10, <1>11
<1>13. QED
  BY <1>1, <1>12

-----------------------------------------------------------------------------
(* Closed days *)

\* A closed day from Monday to Friday is a holiday.
LEMMA ClosedOnWeekday ==
  ASSUME NEW day \in Nat, IsClosed(day), Weekday(day) \in 1..5
  PROVE  IsHoliday(day)
BY DEF IsClosed, IsHoliday, Sunday

\* Of two holidays that follow each other, the first is a Monday, a Thursday or a Friday.
LEMMA NeighboursByWeekday ==
  ASSUME NEW p \in Nat, IsHoliday(p), IsHoliday(p + 1)
  PROVE  \E y \in Nat :
           LET D == DayOf(y, 3, 1)
               e == EasterPlace(y)
           IN  \/ Weekday(p) = 1 /\ p = D + e - 48
               \/ Weekday(p) = 4 /\ e = 54 /\ p = D + 51
               \/ Weekday(p) = 5 /\ e = 52 /\ p = D + 50
<1>1. PICK y \in Nat :
        \/ p = DayOf(y, 3, 1) + EasterPlace(y) - 48
        \/ EasterPlace(y) = 54 /\ p = DayOf(y, 3, 1) + 51
        \/ EasterPlace(y) = 52 /\ p = DayOf(y, 3, 1) + 50
  BY NeighbouringHolidays
<1> DEFINE D == DayOf(y, 3, 1)
           e == EasterPlace(y)
<1>2. D \in Nat /\ e \in 21..55 /\ (D + e + 3) % 7 = 0
  BY YearAroundMarch, EasterInSpring
<1>3. Weekday(p) = (p + 3) % 7
  BY DEF Weekday
<1>4. \/ Weekday(p) = 1 /\ p = D + e - 48
      \/ Weekday(p) = 4 /\ e = 54 /\ p = D + 51
      \/ Weekday(p) = 5 /\ e = 52 /\ p = D + 50
  <2>1. \/ p = D + e - 48
        \/ e = 54 /\ p = D + 51
        \/ e = 52 /\ p = D + 50
    BY <1>1
  <2> HIDE DEF D, e
  <2>2. CASE p = D + e - 48
    BY <1>2, <1>3, <2>2
  <2>3. CASE e = 54 /\ p = D + 51
    BY <1>2, <1>3, <2>3
  <2>4. CASE e = 52 /\ p = D + 50
    BY <1>2, <1>3, <2>4
  <2>5. QED
    BY <2>1, <2>2, <2>3, <2>4
<1>5. QED
  BY <1>4

\* Neither the Friday before Carnival nor the fourth day after Tiradentes' day, when Good
\* Friday follows that, is a holiday.
LEMMA NoHolidayAround ==
  ASSUME NEW y \in Nat, NEW q \in Nat, IsHoliday(q)
  PROVE  /\ q # DayOf(y, 3, 1) + EasterPlace(y) - 51
         /\ ~(EasterPlace(y) = 54 /\ q = DayOf(y, 3, 1) + 55)
<1> DEFINE D == DayOf(y, 3, 1)
           e == EasterPlace(y)
<1>1. /\ D \in Nat /\ e \in 21..55
      /\ DayOf(y, 1, 1) \in (D - 60)..(D - 59)
  BY YearAroundMarch, EasterInSpring
<1>2. q \in (D - 59)..(D + 305) =>
        q = DayOf(y, 1, 1) \/ q - D \in FixedPlaces \cup MovablePlaces(e)
  BY HolidayOfYear
<1>3. q # D + e - 51 /\ ~(e = 54 /\ q = D + 55)
  <2> HIDE DEF D, e
  <2>1. ASSUME q = D + e - 51 PROVE FALSE
    BY <1>1, <1>2, <2>1 DEF FixedPlaces, MovablePlaces
  <2>2. ASSUME e = 54, q = D + 55 PROVE FALSE
    BY <1>1, <1>2, <2>2 DEF FixedPlaces, MovablePlaces
  <2>3. QED
    BY <2>1, <2>2
<1>4. QED
  BY <1>3

\* Nowhere in the calendar do more than four closed days follow each other: holidays of a
\* Tuesday and a Wednesday, or a Wednesday and a Thursday, would have to, or the two days
\* of Carnival with the Friday before them, or Tiradentes' day, Good Friday and the Monday
\* after them.
THEOREM ShortRuns == \A d \in Nat : \E k \in 0..4 : ~IsClosed(d + k)
<1> SUFFICES ASSUME NEW d \in Nat, \A k \in 0..4 : IsClosed(d + k)
             PROVE  FALSE
  OBVIOUS
<1>1. /\ IsClosed(d) /\ IsClosed(d + 1) /\ IsClosed(d + 2)
      /\ IsClosed(d + 3) /\ IsClosed(d + 4)
  <2>1. \A k \in 0..4 : IsClosed(d + k)
    OBVIOUS
  <2>2. d + 0 = d /\ 0 \in 0..4 /\ 1 \in 0..4 /\ 2 \in 0..4 /\ 3 \in 0..4 /\ 4 \in 0..4
    OBVIOUS
  <2>3. QED
    BY <2>1, <2>2
<1>2. ASSUME NEW p \in Nat, IsClosed(p), IsClosed(p + 1), Weekday(p) \in 1..4
      PROVE  /\ IsHoliday(p) /\ IsHoliday(p + 1)
             /\ Weekday(p) \in {1, 4}
  <2>1. IsHoliday(p)
    BY <1>2, ClosedOnWeekday
  <2>2. p + 1 \in Nat /\ Weekday(p + 1) \in 1..5
    BY <1>2 DEF Weekday
  <2>3. IsHoliday(p + 1)
    BY <1>2, <2>2, ClosedOnWeekday
  <2>4. Weekday(p) \in {1, 4, 5}
    BY <2>1, <2>3, NeighboursByWeekday
  <2>5. QED
    BY <1>2, <2>1, <2>3, <2>4
<1>3. /\ d + 1 \in Nat /\ d + 2 \in Nat /\ d + 3 \in Nat /\ d + 4 \in Nat
      /\ (d + 1) + 1 = d + 2 /\ (d + 2) + 1 = d + 3 /\ (d + 3) + 1 = d + 4
  OBVIOUS
<1>4. /\ Weekday(d) \in 0..6
      /\ Weekday(d + 1) = (Weekday(d) + 1) % 7 /\ Weekday(d + 2) = (Weekday(d) + 2) % 7
      /\ Weekday(d + 3) = (Weekday(d) + 3) % 7 /\ Weekday(d + 4) = (Weekday(d) + 4) % 7
  BY DEF Weekday
<1>5. CASE Weekday(d) = 0
  <2>1. Weekday(d + 2) = 2
    BY <1>4, <1>5
  <2>2. QED
    BY <1>1, <1>2, <1>3, <2>1
<1>6. CASE Weekday(d) = 1
  <2>1. Weekday(d + 1) = 2
    BY <1>4, <1>6
  <2>2. QED
    BY <1>1, <1>2, <1>3, <2>1
<1>7. CASE Weekday(d) = 2 \/ Weekday(d) = 3
  BY <1>1, <1>2, <1>7
<1>8. CASE Weekday(d) = 4
  <2>1. IsHoliday(d) /\ IsHoliday(d + 1)
    BY <1>1, <1>2, <1>8
  <2>2. PICK y \in Nat : EasterPlace(y) = 54 /\ d = DayOf(y, 3, 1) + 51
    BY <1>8, <2>1, NeighboursByWeekday
  <2>3. DayOf(y, 3, 1) \in Nat
    BY YearAroundMarch
  <2>4. d + 4 = DayOf(y, 3, 1) + 55
    BY <2>2, <2>3
  <2>5. Weekday(d + 4) = 1
    BY <1>4, <1>8
  <2>6. IsHoliday(d + 4)
    BY <1>1, <1>3, <2>5, ClosedOnWeekday
  <2>7. QED
    BY <1>3, <2>2, <2>4, <2>6, NoHolidayAround
<1>9. CASE Weekday(d) = 5
  <2>1. Weekday(d + 3) = 1
    BY <1>4, <1>9
  <2>2. IsHoliday(d + 3) /\ IsHoliday(d + 4)
    BY <1>1, <1>2, <1>3, <2>1
  <2>3. PICK y \in Nat : d + 3 = DayOf(y, 3, 1) + EasterPlace(y) - 48
    BY <1>3, <2>1, <2>2, NeighboursByWeekday
  <2>4. DayOf(y, 3, 1) \in Nat /\ EasterPlace(y) \in 21..55
    BY YearAroundMarch, EasterInSpring
  <2>5. d = DayOf(y, 3, 1) + EasterPlace(y) - 51
    BY <2>3, <2>4
  <2>6. IsHoliday(d)
    BY <1>1, <1>9, ClosedOnWeekday
  <2>7. QED
    BY <2>5, <2>6, NoHolidayAround
<1>10. CASE Weekday(d) = 6
  <2>1. Weekday(d + 3) = 2
    BY <1>4, <1>10
  <2>2. QED
    BY <1>1, <1>2, <1>3, <2>1
<1>11. QED
  BY <1>4, <1>5, <1>6, <1>7, <1>8, <1>9, <1>10

\* So the checks of the runs, over three centuries, hold of every year.
LEMMA CalendarRight == EasterIsRight /\ ClosedRunsAreShort
<1>1. EasterIsRight
  BY EasterCorrect DEF EasterIsRight, CheckedYears
<1>2. ASSUME NEW y \in CheckedYears,
             NEW d \in DayOf(y, 1, 1)..(DayOf(y + 1, 1, 1) - 1)
      PROVE  \E k \in 0..4 : ~IsClosed(d + k)
  <2>1. /\ DayOf(y, 1, 1) \in Int /\ DayOf(y, 1, 1) >= 0
        /\ DayOf(y + 1, 1, 1) \in Int
    <3>1. y \in Nat /\ y >= 1900
          /\ DayOf(y, 3, 1) = 365 * y + y \div 4 - y \div 100 + y \div 400
      BY DEF DayOf, CheckedYears
    <3>2. DayOf(y, 3, 1) > 60
      BY <3>1
    <3>3. QED
      BY <3>1, <3>2, YearAroundMarch
  <2>2. d \in Nat
    BY <2>1
  <2>3. QED
    BY <2>2, ShortRuns
<1>3. ClosedRunsAreShort
  BY <1>2, Zenon DEF ClosedRunsAreShort
<1>4. QED
  BY <1>1, <1>3

-----------------------------------------------------------------------------
(* Due dates in the calendar *)

\* The days from the capture to the day that counts are a number.
LEMMA TermsTyped == \A r \in Rcv : TermOf(r) \in Nat
<1> SUFFICES ASSUME NEW r \in Rcv PROVE TermOf(r) \in Nat
  OBVIOUS
<1>1. Period \in Nat /\ InstallmentNo[r] \in Nat
  BY AgendaAssumption, ScheduleAssumption
<1>2. Period * InstallmentNo[r] \in Nat
  BY <1>1
<1>3. QED
  BY <1>2 DEF TermOf, Term

\* The day that counts and the day on which an installment is due are days of the calendar.
LEMMA DueDatesTyped ==
  ASSUME TypeOK, NEW r \in Rcv
  PROVE  /\ CountedDay(r) \in Nat /\ CountedDay(r) <= LastDay + TermOf(r)
         /\ DueDate(r) \in Nat
<1>1. capturedAt[TxOf[r]] \in 0..LastDay /\ LastDay \in Nat /\ TermOf(r) \in Nat
  BY AgendaAssumption, TermsTyped DEF TypeOK
<1>2. CountedDay(r) \in Nat /\ CountedDay(r) <= LastDay + TermOf(r)
  BY <1>1 DEF CountedDay
<1>3. DueDate(r) \in CountedDay(r)..(CountedDay(r) + Cardinality(Closed))
  <2>1. DueDate(r) = NextBusinessDay(CountedDay(r))
    BY DEF DueDate, DueDateOf, CountedDay, TermOf
  <2>2. QED
    BY <1>2, <2>1, NextBusinessDayFirst
<1>4. Cardinality(Closed) \in Nat
  BY ScheduleAssumption, FS_CardinalityType
<1>5. QED
  BY <1>2, <1>3, <1>4

\* In a state whose due dates are each the first business day, by the days in Closed, from
\* the one that counts, the banks work on that day and it comes four days later at most.
LEMMA OpenByCalendar ==
  ASSUME TypeOK, DueOnFirstOpenDay, NEW First \in Nat, NEW Last \in Nat,
         Closed = {d \in 0..Last : IsClosed(First + d)},
         \A r \in Rcv : LastDay + TermOf(r) + 4 <= Last
  PROVE  OpenWhenDue(First)
<1> SUFFICES ASSUME NEW r \in Rcv
             PROVE  /\ DueDate(r) \in CountedDay(r)..(CountedDay(r) + 4)
                    /\ ~IsClosed(First + DueDate(r))
  BY DEF OpenWhenDue
<1> DEFINE c == CountedDay(r)
           due == DueDate(r)
<1>1. /\ c \in Nat /\ c <= LastDay + TermOf(r) /\ due \in Nat
      /\ LastDay \in Nat /\ TermOf(r) \in Nat
  BY AgendaAssumption, TermsTyped, DueDatesTyped
<1>2. c \in Nat /\ c + 4 <= Last
  <2>1. LastDay + TermOf(r) + 4 <= Last
    OBVIOUS
  <2> HIDE DEF c
  <2>2. QED
    BY <1>1, <2>1
<1>3. /\ due \in Nat /\ due >= c
      /\ due \notin Closed
      /\ \A e \in c..(due - 1) : e \in Closed
  BY <1>1 DEF DueOnFirstOpenDay, IsBusinessDay
<1> HIDE DEF c, due
<1>4. PICK k \in 0..4 : ~IsClosed((First + c) + k)
  BY <1>2, ShortRuns
<1>5. c + k \notin Closed
  <2>1. (First + c) + k = First + (c + k)
    BY <1>2
  <2>2. QED
    BY <1>4, <2>1
<1>6. due <= c + k
  <2>1. c + k \notin c..(due - 1)
    BY <1>3, <1>5, Zenon
  <2>2. c \in Nat /\ due \in Nat /\ k \in 0..4
    BY <1>2, <1>3
  <2>3. QED
    BY <2>1, <2>2
<1>7. due \in 0..Last /\ due \in c..(c + 4)
  BY <1>2, <1>3, <1>6
<1>8. ~IsClosed(First + due)
  <2>1. IsClosed(First + due) => due \in Closed
    BY <1>7, Zenon
  <2>2. QED
    BY <1>3, <2>1
<1>9. QED
  BY <1>7, <1>8 DEF c, due

\* Every state satisfies: whatever the first day of the behaviour, if Closed is what the
\* calendar closes from that day to four days after the last installment can fall due,
\* then every installment is due on a day on which the banks work, at the latest four
\* days after the card scheme counts it due.
THEOREM DueDatesInCalendar ==
  ASSUME NEW First \in Nat, NEW Last \in Nat,
         Closed = {d \in 0..Last : IsClosed(First + d)},
         \A r \in Rcv : LastDay + TermOf(r) + 4 <= Last
  PROVE  Spec => []OpenWhenDue(First)
<1>1. TypeOK /\ DueOnFirstOpenDay => OpenWhenDue(First)
  BY OpenByCalendar
<1>2. QED
  BY <1>1, TypeCorrect, DueDatesCorrect, PTL

\* Every state satisfies DueWhenBanksOpen, for sales and installments of any number and
\* kind whose term lies within the calendar that the runs lay out.
THEOREM BanksOpenCorrect ==
  ASSUME Closed = ClosedDays, \A r \in Rcv : TermOf(r) <= 3
  PROVE  Spec => []DueWhenBanksOpen
<1>1. FirstDay \in Nat
  BY DEF FirstDay, DayOf
<1>2. LastDay + 7 \in Nat /\ \A r \in Rcv : TermOf(r) \in Nat
  <2>1. LastDay \in Nat
    BY AgendaAssumption
  <2>2. QED
    BY <2>1, TermsTyped
<1>3. \A r \in Rcv : LastDay + TermOf(r) + 4 <= LastDay + 7
  <2>1. LastDay \in Nat
    BY AgendaAssumption
  <2>2. QED
    BY <1>2, <2>1
<1>4. Closed = {d \in 0..(LastDay + 7) : IsClosed(FirstDay + d)}
  BY DEF ClosedDays
<1> HIDE DEF FirstDay
<1>5. TypeOK /\ DueOnFirstOpenDay => OpenWhenDue(FirstDay)
  BY <1>1, <1>2, <1>3, <1>4, OpenByCalendar
<1>6. TypeOK /\ DueOnFirstOpenDay => DueWhenBanksOpen
  BY <1>5, CalendarRight DEF DueWhenBanksOpen
<1>7. QED
  BY <1>6, TypeCorrect, DueDatesCorrect, PTL
=============================================================================
