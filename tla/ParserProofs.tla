---------------------------- MODULE ParserProofs ----------------------------
(***************************************************************************)
(* Proofs about the parsers of PostgreSQL's types: whatever an own column  *)
(* stores, in whatever zone the server prints it, what is read back of it  *)
(* is what it stores, or an error that says why it cannot be said.         *)
(*                                                                         *)
(* The calendar: for every day of every year, the code's divisions find    *)
(* the date that counting the days of years and months finds.  A day of an *)
(* era of 400 years is cut up into centuries, four years, years and a rest *)
(* (EraParts); of the parts each quotient of the code is read off.         *)
(*                                                                         *)
(* Instants: the offset that the printed time has added is taken away      *)
(* again, and the instant is cut to milliseconds toward 1970.              *)
(*                                                                         *)
(* Arrays of any length, of texts of any length: what the scanner and the  *)
(* splitter are, is a recursive function; each is first shown to obey its  *)
(* recursion (Closing, Unescaping, Splitting, Flattening), then what it    *)
(* computes is shown place by place, from the end (FromTheEnd) or from the *)
(* start (FromTheStart): by the least place where it would fail.           *)
(***************************************************************************)
EXTENDS TypeParsers, WellFoundedInduction, SequenceTheorems, TLAPS
----------------------------------------------------------------------------
(* The calendar: daysFromCivil and civilFromDays                          *)

\* A day of an era is 36524 days for each century, 1461 for each four years, 365
\* for each year and a rest; the rest is 365 only at the end of a leap year.
IsPart(d, b, k, j, r) ==
  /\ 0 <= b /\ b <= 3 /\ 0 <= k /\ k <= 24 /\ 0 <= j /\ j <= 3 /\ 0 <= r /\ r <= 365
  /\ d = 36524 * b + 1461 * k + 365 * j + r
  /\ r = 365 => j = 3 /\ (k = 24 => b = 3)

\* Every day of an era is cut up so: what civilFromDays does by dividing.
LEMMA EraParts ==
  ASSUME NEW d \in Int, 0 <= d, d <= 146096
  PROVE  \E b, k, j, r \in Int : IsPart(d, b, k, j, r)
<1> DEFINE b == IF d < 36524 THEN 0 ELSE IF d < 73048 THEN 1 ELSE IF d < 109572 THEN 2 ELSE 3
           c == d - 36524 * b
           k == c \div 1461
           e == c - 1461 * k
           j == IF e < 365 THEN 0 ELSE IF e < 730 THEN 1 ELSE IF e < 1095 THEN 2 ELSE 3
           r == e - 365 * j
<1>1. /\ b \in Int /\ 0 <= b /\ b <= 3
      /\ c \in Int /\ 0 <= c /\ c <= 36524 /\ (c = 36524 => b = 3)
      /\ d = 36524 * b + c
  BY SMTT(30)
<1>2. /\ k \in Int /\ 0 <= k /\ k <= 24
      /\ e \in Int /\ 0 <= e /\ e <= 1460 /\ c = 1461 * k + e
  <2> HIDE DEF c
  <2> QED
    BY <1>1, SMTT(30)
<1>3. /\ j \in Int /\ 0 <= j /\ j <= 3
      /\ r \in Int /\ 0 <= r /\ r <= 365 /\ e = 365 * j + r /\ (r = 365 => j = 3)
  <2> HIDE DEF e
  <2> QED
    BY <1>2, SMTT(30)
<1>4. IsPart(d, b, k, j, r)
  <2> HIDE DEF b, c, k, e, j, r
  <2> QED
    BY <1>1, <1>2, <1>3, SMTT(30) DEF IsPart
<1> HIDE DEF b, c, k, e, j, r
<1> QED
  BY <1>1, <1>2, <1>3, <1>4, SMTT(30)

\* A number that is written by a divisor shows its quotient.
LEMMA Quotients ==
  ASSUME NEW q \in Int, NEW s \in Int, 0 <= s
  PROVE  /\ s < 4 => (4 * q + s) \div 4 = q
         /\ s < 100 => (100 * q + s) \div 100 = q
         /\ s < 365 => (365 * q + s) \div 365 = q
         /\ s < 400 => (400 * q + s) \div 400 = q
         /\ s < 1460 => (1460 * q + s) \div 1460 = q
         /\ s < 36524 => (36524 * q + s) \div 36524 = q
         /\ s < 146097 => (146097 * q + s) \div 146097 = q
  BY SMTT(30)

\* The year of an era, as civilFromDays finds it from a day.
LEMMA YearOfEra ==
  ASSUME NEW d \in Int, NEW b \in Int, NEW k \in Int, NEW j \in Int, NEW r \in Int,
         IsPart(d, b, k, j, r)
  PROVE  (d - d \div 1460 + d \div 36524 - d \div 146096) \div 365 = 100 * b + 4 * k + j
<1> DEFINE t == 24 * b + k + 365 * j + r
           late == IF t >= 1460 THEN 1 ELSE 0
           last == IF d = 146096 THEN 1 ELSE 0
<1>0. /\ 0 <= b /\ b <= 3 /\ 0 <= k /\ k <= 24 /\ 0 <= j /\ j <= 3 /\ 0 <= r /\ r <= 365
      /\ r = 365 => j = 3 /\ (k = 24 => b = 3)
  BY SMTT(30) DEF IsPart
<1>1. d = 36524 * b + (1461 * k + 365 * j + r) /\ d = 1460 * (25 * b + k) + t
  BY SMTT(30) DEF IsPart
<1>2. t \in Int /\ 0 <= t /\ t < 2920
  BY <1>0, SMTT(30)
<1>3. d \div 1460 = 25 * b + k + late
  <2>1. CASE t < 1460
    BY <1>1, <1>2, <2>1, Quotients, SMTT(30)
  <2>2. CASE t >= 1460
    <3>1. d = 1460 * (25 * b + k + 1) + (t - 1460)
      BY <1>1, <1>2, SMTT(30)
    <3> QED
      BY <1>2, <2>2, <3>1, Quotients, SMTT(30)
  <2> QED
    BY <1>2, <2>1, <2>2, SMTT(30)
<1>4. d \div 36524 = b + last /\ d \div 146096 = last
  <2>1. CASE d = 146096
    BY <1>0, <1>1, <2>1, SMTT(30)
  <2>2. CASE d # 146096
    <3>1. 1461 * k + 365 * j + r < 36524 /\ 0 <= d /\ d < 146096
      BY <1>0, <1>1, <2>2, SMTT(30)
    <3> QED
      BY <1>0, <1>1, <2>2, <3>1, Quotients, SMTT(30)
  <2> QED
    BY <2>1, <2>2
<1>5. r - late - 0 \in Int /\ 0 <= r - late /\ r - late < 365
  BY <1>0, SMTT(30)
<1>6. d - d \div 1460 + d \div 36524 - d \div 146096 = 365 * (100 * b + 4 * k + j) + (r - late)
  <2> HIDE DEF late, last
  <2>1. late \in Int /\ last \in Int
    BY SMTT(30) DEF late, last
  <2> QED
    BY <1>1, <1>3, <1>4, <2>1, SMTT(30) DEF t
<1> HIDE DEF late
<1>7. r - late \in Int /\ 100 * b + 4 * k + j \in Int
  BY <1>5, SMTT(30) DEF late
<1> QED
  BY <1>5, <1>6, <1>7, Quotients, SMTT(30)

\* The days before a year, counted from the year 0.
LEMMA YearOfPart ==
  ASSUME NEW d \in Int, NEW b \in Int, NEW k \in Int, NEW j \in Int, NEW r \in Int,
         IsPart(d, b, k, j, r), NEW y \in Int, y = 100 * b + 4 * k + j
  PROVE  /\ 0 <= y /\ y <= 399
         /\ 365 * y + y \div 4 - y \div 100 = d - r
         /\ r = 365 => isLeapYear(y + 1)
<1>0. /\ 0 <= b /\ b <= 3 /\ 0 <= k /\ k <= 24 /\ 0 <= j /\ j <= 3 /\ 0 <= r /\ r <= 365
      /\ r = 365 => j = 3 /\ (k = 24 => b = 3)
  BY SMTT(30) DEF IsPart
<1>1. y = 4 * (25 * b + k) + j /\ y = 100 * b + (4 * k + j)
  BY <1>0, SMTT(30)
<1>2. y \div 4 = 25 * b + k /\ y \div 100 = b
  BY <1>0, <1>1, Quotients, SMTT(30)
<1>3. 0 <= y /\ y <= 399
  BY <1>0, SMTT(30)
<1>4. 365 * y + y \div 4 - y \div 100 = d - r
  BY <1>0, <1>2, SMTT(30) DEF IsPart
<1>5. ASSUME r = 365 PROVE isLeapYear(y + 1)
  <2>1. CASE k = 24
    BY <1>0, <1>5, <2>1, SMTT(30) DEF isLeapYear
  <2>2. CASE k # 24
    <3>1. y + 1 = 4 * (25 * b + k + 1) /\ y + 1 = 100 * b + (4 * k + 4)
      BY <1>0, <1>5, SMTT(30)
    <3>2. (y + 1) % 4 = 0 /\ (y + 1) % 100 # 0
      BY <1>0, <2>2, <3>1, SMTT(30)
    <3> QED
      BY <3>2, SMTT(30) DEF isLeapYear
  <2> QED
    BY <2>1, <2>2
<1> QED
  BY <1>3, <1>4, <1>5

\* The code's count of days is the calendar's, for any year.
THEOREM DaysFromCivilIsDayNumber ==
  ASSUME NEW year \in Int, NEW month \in 1 .. 12, NEW day \in Int
  PROVE  daysFromCivil(year, month, day) = DayNumber(year, month, day)
  BY SMTT(60) DEF daysFromCivil, DayNumber, YearStart, MonthStart, isLeapYear

\* The days of the calendar are numbers.
LEMMA DayNumberType ==
  ASSUME NEW year \in Int, NEW month \in 1 .. 12, NEW day \in Int
  PROVE  /\ YearStart(year) \in Int /\ MonthStart(year, month) \in Int
         /\ DayNumber(year, month, day) \in Int
  BY SMTT(60) DEF DayNumber, YearStart, MonthStart, isLeapYear

\* The month of a day r of a year that begins with March.
Cum(m) == (153 * m + 2) \div 5
\* civilFromDays finds the month of a day r of a year that begins with March.
LEMMA MonthOfDay ==
  ASSUME NEW r \in Int, 0 <= r, r <= 365, NEW m \in Int, m = (5 * r + 2) \div 153
  PROVE  /\ 0 <= m /\ m <= 11
         /\ Cum(m) <= r /\ r < Cum(m + 1)
         /\ Cum(m) \in Int
  BY SMTT(30) DEF Cum

\* The leap years of an era recur in the next: isLeapYear asks for 400 years.
LEMMA LeapsRecur ==
  ASSUME NEW y \in Int, NEW e \in Int
  PROVE  isLeapYear(y + e * 400) <=> isLeapYear(y)
<1>1. y + e * 400 = 400 * e + y
  BY SMTT(30)
<1>2. (400 * e + y) % 4 = y % 4 /\ (400 * e + y) % 100 = y % 100 /\ (400 * e + y) % 400 = y % 400
  BY SMTT(30)
<1> QED
  BY <1>1, <1>2 DEF isLeapYear

\* The code's civil date of a day is a date of the calendar, and of that day.
LEMMA CivilFromDays ==
  ASSUME NEW n \in Int
  PROVE  LET c == civilFromDays(n) IN
         /\ c = [year |-> c.year, month |-> c.month, day |-> c.day]
         /\ c.year \in Int /\ c.month \in 1 .. 12 /\ c.day \in Int
         /\ isCivilDate(c.year, c.month, c.day)
         /\ DayNumber(c.year, c.month, c.day) = n
<1> DEFINE z == n + 719468
           era == z \div 146097
           doe == z - era * 146097
           yoe == (doe - doe \div 1460 + doe \div 36524 - doe \div 146096) \div 365
           doy == doe - (365 * yoe + yoe \div 4 - yoe \div 100)
           mi == (5 * doy + 2) \div 153
           month == IF mi < 10 THEN mi + 3 ELSE mi - 9
           year == yoe + era * 400 + (IF month <= 2 THEN 1 ELSE 0)
           day == doy - (153 * mi + 2) \div 5 + 1
<1>1. civilFromDays(n) = [year |-> year, month |-> month, day |-> day]
  BY DEF civilFromDays
<1>2. era \in Int /\ doe \in Int /\ 0 <= doe /\ doe <= 146096 /\ z = 146097 * era + doe
  BY SMTT(30)
<1>3. PICK b, k, j, r \in Int : IsPart(doe, b, k, j, r)
  <2> HIDE DEF doe
  <2> QED
    BY <1>2, EraParts, SMTT(30)
<1>4. yoe \in Int /\ 0 <= yoe /\ yoe <= 399 /\ doy = r /\ (r = 365 => isLeapYear(yoe + 1))
  <2> HIDE DEF doe
  <2>1. yoe = 100 * b + 4 * k + j
    BY <1>2, <1>3, YearOfEra, SMTT(30)
  <2> HIDE DEF yoe
  <2>2. yoe \in Int
    BY <2>1, SMTT(30)
  <2>3. /\ 0 <= yoe /\ yoe <= 399 /\ (r = 365 => isLeapYear(yoe + 1))
        /\ 365 * yoe + yoe \div 4 - yoe \div 100 = doe - r
    BY <1>2, <1>3, <2>1, <2>2, YearOfPart, SMTT(30)
  <2> QED
    BY <1>2, <2>2, <2>3, SMTT(30)
<1>5. 0 <= r /\ r <= 365
  BY <1>3, SMTT(30) DEF IsPart
<1>6. /\ mi \in Int /\ 0 <= mi /\ mi <= 11
      /\ Cum(mi) <= r /\ r < Cum(mi + 1) /\ Cum(mi) \in Int
  <2> HIDE DEF doy
  <2>1. mi \in Int
    BY <1>4, SMTT(30)
  <2>2. mi = (5 * r + 2) \div 153
    BY <1>4, SMTT(30)
  <2> HIDE DEF mi
  <2> QED
    BY <1>5, <2>1, <2>2, MonthOfDay, SMTT(30)
<1>7. /\ month \in Int /\ 1 <= month /\ month <= 12
      /\ (month + 9) % 12 = mi
      /\ day \in Int /\ day = r - Cum(mi) + 1 /\ day >= 1
  <2> HIDE DEF mi, doy
  <2> QED
    BY <1>4, <1>6, SMTT(30) DEF Cum
<1>8. /\ year \in Int
      /\ (IF month <= 2 THEN year - 1 ELSE year) = 400 * era + yoe
  <2> HIDE DEF month, yoe, era
  <2> QED
    BY <1>2, <1>4, <1>7, SMTT(30)
<1>9. daysFromCivil(year, month, day) = n
  <2> DEFINE y == IF month <= 2 THEN year - 1 ELSE year
  <2> HIDE DEF z, era, doe, yoe, doy, mi, month, year, day
  <2>1. y \div 400 = era
    BY <1>2, <1>4, <1>8, Quotients, SMTT(30)
  <2>2. y - era * 400 = yoe
    BY <1>2, <1>4, <1>8, SMTT(30)
  <2>3. (153 * ((month + 9) % 12) + 2) \div 5 + day - 1 = r
    BY <1>6, <1>7, SMTT(30) DEF Cum
  <2>4. yoe * 365 + yoe \div 4 - yoe \div 100 + r = doe
    BY <1>2, <1>4, SMTT(30) DEF doy
  <2> HIDE DEF y
  <2>5. daysFromCivil(year, month, day) = era * 146097 + doe - 719468
    BY <2>1, <2>2, <2>3, <2>4 DEF daysFromCivil, y
  <2> QED
    BY <1>2, <2>5, SMTT(30) DEF z
<1>10. isCivilDate(year, month, day)
  <2> HIDE DEF z, era, doe, yoe, doy, mi, month, year, day
  <2>1. CASE mi < 11
    <3>1. day <= Cum(mi + 1) - Cum(mi)
      BY <1>6, <1>7, SMTT(30) DEF Cum
    <3>2. month # 2
      BY <1>6, <1>7, <2>1, SMTT(30)
    <3>3. Cum(mi + 1) - Cum(mi) <= (IF month \in {4, 6, 9, 11} THEN 30 ELSE 31)
      BY <1>6, <1>7, <2>1, SMTT(30) DEF Cum, month
    <3>4. daysInMonth(year, month) = IF month \in {4, 6, 9, 11} THEN 30 ELSE 31
      BY <3>2, SMTT(30) DEF daysInMonth
    <3>5. Cum(mi + 1) - Cum(mi) \in Int
      BY <1>6, SMTT(30) DEF Cum
    <3>6. day <= daysInMonth(year, month)
      BY <1>7, <3>1, <3>3, <3>4, <3>5, SMTT(30)
    <3>7. month \in 1 .. 12
      BY <1>7, SMTT(30)
    <3> QED
      BY <1>7, <3>6, <3>7 DEF isCivilDate
  <2>2. CASE mi = 11
    <3>1. month = 2 /\ day = r - 336
      BY <1>7, <2>2, SMTT(30) DEF Cum, month
    <3>2. year = yoe + 1 + era * 400
      BY <1>2, <1>4, <1>8, <3>1, SMTT(30)
    <3>3. r = 365 => isLeapYear(year)
      <4>1. yoe + 1 \in Int
        BY <1>4, SMTT(30)
      <4>2. isLeapYear(yoe + 1 + era * 400) <=> isLeapYear(yoe + 1)
        BY <1>2, <4>1, LeapsRecur
      <4> QED
        BY <1>4, <3>2, <4>2
    <3> QED
      BY <1>5, <1>7, <3>1, <3>3, SMTT(30) DEF isCivilDate, daysInMonth
  <2> QED
    BY <1>6, <2>1, <2>2, SMTT(30)
<1> QED
  <2> HIDE DEF z, era, doe, yoe, doy, mi, month, year, day
  <2>1. month \in 1 .. 12
    BY <1>7, SMTT(30)
  <2>2. DayNumber(year, month, day) = n
    BY <1>7, <1>8, <1>9, <2>1, DaysFromCivilIsDayNumber, SMTT(30)
  <2> QED
    BY <1>1, <1>7, <1>8, <1>10, <2>1, <2>2

\* Years follow one another, and have 365 or 366 days.
LEMMA LeapStep ==
  ASSUME NEW y \in Int
  PROVE  /\ YearStart(y) \in Int
         /\ YearStart(y + 1) = YearStart(y) + (IF isLeapYear(y) THEN 366 ELSE 365)
  BY SMTT(30) DEF YearStart, isLeapYear

\* A year ends before a later one begins.
LEMMA YearsInOrder ==
  ASSUME NEW y \in Int, NEW z \in Int, y < z
  PROVE  YearStart(y + 1) <= YearStart(z)
<1> DEFINE a == y \div 100
           b == (z - 1) \div 100
           s == y - 100 * a
           t == z - 1 - 100 * b
<1>1. /\ a \in Int /\ b \in Int /\ s \in Int /\ t \in Int /\ a <= b
      /\ 0 <= s /\ s < 100 /\ 0 <= t /\ t < 100 /\ y = 100 * a + s /\ z - 1 = 100 * b + t
  BY SMTT(30)
<1>2. y \div 4 = 25 * a + s \div 4 /\ (z - 1) \div 4 = 25 * b + t \div 4
  <2> HIDE DEF a, b, s, t
  <2> QED
    BY <1>1, SMTT(30)
<1>3. y \div 4 - y \div 100 <= (z - 1) \div 4 - (z - 1) \div 100
  <2>0. s \div 4 \in Int /\ s \div 4 <= 24 /\ t \div 4 \in Int /\ 0 <= t \div 4
    <3> HIDE DEF s, t
    <3> QED
      BY <1>1, SMTT(30)
  <2> HIDE DEF s, t
  <2>1. CASE a = b
    <3>1. s <= t
      BY <1>1, <2>1, SMTT(30)
    <3>2. s \div 4 <= t \div 4
      BY <1>1, <3>1, SMTT(30)
    <3> QED
      BY <1>1, <1>2, <2>0, <2>1, <3>2, SMTT(30)
  <2>2. CASE a < b
    BY <1>1, <1>2, <2>0, <2>2, SMTT(30)
  <2> QED
    BY <1>1, <2>1, <2>2, SMTT(30)
<1>4. y \div 400 <= (z - 1) \div 400
  BY SMTT(30)
<1>5. 365 * y <= 365 * (z - 1)
  BY SMTT(30)
<1> QED
  BY <1>3, <1>4, <1>5, SMTT(30) DEF YearStart

\* A year begins no less than 365 and no more than 366 days for each year since 1.
LEMMA YearNear ==
  ASSUME NEW y \in Int
  PROVE  /\ y >= 1 => 365 * (y - 1) <= YearStart(y) + 719162 /\ YearStart(y) + 719162 <= 366 * (y - 1)
         /\ y <= 1 => 366 * (y - 1) <= YearStart(y) + 719162 /\ YearStart(y) + 719162 <= 365 * (y - 1)
  BY SMTT(30) DEF YearStart

\* The years the reference searches for a day hold the one it is in.
LEMMA YearIsNear ==
  ASSUME NEW y \in Int, NEW n \in Int, YearStart(y) <= n, n < YearStart(y + 1)
  PROVE  y \in ((n + 719162) \div 366 - 1 .. (n + 719162) \div 365 + 2)
           \cup ((n + 719162) \div 365 - 1 .. (n + 719162) \div 366 + 2)
<1>1. YearStart(y) \in Int /\ YearStart(y + 1) \in Int
  BY LeapStep
<1>2. CASE y >= 1
  <2>1. 365 * (y - 1) <= n + 719162 /\ n + 719162 < 366 * y
    BY <1>1, <1>2, YearNear, SMTT(30)
  <2> QED
    BY <2>1, SMTT(30)
<1>3. CASE y < 1
  <2>1. 366 * (y - 1) <= n + 719162 /\ n + 719162 < 365 * y
    BY <1>1, <1>3, YearNear, SMTT(30)
  <2> QED
    BY <2>1, SMTT(30)
<1> QED
  BY <1>2, <1>3, SMTT(30)

\* The days of a date are within its year and its month, and only there.
LEMMA DateInItsYear ==
  ASSUME NEW y \in Int, NEW m \in 1 .. 12, NEW d \in Int, isCivilDate(y, m, d)
  PROVE  /\ YearStart(y) <= DayNumber(y, m, d) /\ DayNumber(y, m, d) < YearStart(y + 1)
         /\ YearStart(y) + MonthStart(y, m) <= DayNumber(y, m, d)
         /\ m < 12 => DayNumber(y, m, d) < YearStart(y) + MonthStart(y, m + 1)
<1>1. YearStart(y) \in Int /\ YearStart(y + 1) = YearStart(y) + (IF isLeapYear(y) THEN 366 ELSE 365)
  BY LeapStep
<1>2. 0 <= MonthStart(y, m) + d - 1 /\ MonthStart(y, m) + d - 1 < (IF isLeapYear(y) THEN 366 ELSE 365)
  BY SMTT(30) DEF isCivilDate, daysInMonth, MonthStart
<1>3. MonthStart(y, m) \in Int /\ 1 <= d
  BY SMTT(30) DEF isCivilDate, MonthStart
<1>4. m < 12 => MonthStart(y, m + 1) \in Int /\ MonthStart(y, m) + d - 1 < MonthStart(y, m + 1)
  BY SMTT(30) DEF isCivilDate, daysInMonth, MonthStart
<1> QED
  BY <1>1, <1>2, <1>3, <1>4, SMTT(30) DEF DayNumber

\* A month ends before a later one of its year begins.
LEMMA MonthsInOrder ==
  ASSUME NEW y \in Int, NEW m \in 1 .. 12, NEW k \in 1 .. 12, m < k
  PROVE  MonthStart(y, m + 1) <= MonthStart(y, k)
  BY SMTT(60) DEF MonthStart

\* The reference finds the date of a day.
LEMMA CivilOfDate ==
  ASSUME NEW y \in Int, NEW m \in 1 .. 12, NEW d \in Int, isCivilDate(y, m, d)
  PROVE  CivilOf(DayNumber(y, m, d)) = [year |-> y, month |-> m, day |-> d]
<1> DEFINE n == DayNumber(y, m, d)
           near == (n + 719162) \div 366 - 1 .. (n + 719162) \div 365 + 2
           far == (n + 719162) \div 365 - 1 .. (n + 719162) \div 366 + 2
           P(x) == YearStart(x) <= n /\ n < YearStart(x + 1)
           year == CHOOSE x \in near \cup far : P(x)
           Q(x) == /\ YearStart(year) + MonthStart(year, x) <= n
                   /\ x < 12 => n < YearStart(year) + MonthStart(year, x + 1)
           month == CHOOSE x \in 1 .. 12 : Q(x)
<1>1. n \in Int /\ YearStart(y) \in Int
  BY DayNumberType
<1>2. P(y)
  BY DateInItsYear
<1>3. y \in near \cup far
  <2> HIDE DEF n
  <2> QED
    BY <1>1, <1>2, YearIsNear
<1>4. \A x \in near \cup far : x \in Int
  <2> HIDE DEF n
  <2> QED
    BY <1>1, SMTT(30)
<1>5. year \in near \cup far /\ P(year)
  <2> HIDE DEF n, near, far, P
  <2> QED
    BY <1>2, <1>3
<1>6. year \in Int
  <2> HIDE DEF near, far, year
  <2> QED
    BY <1>4, <1>5
<1>7. year = y
  <2> HIDE DEF n, near, far, year
  <2>0. YearStart(year) \in Int /\ YearStart(year + 1) \in Int /\ YearStart(y + 1) \in Int
    BY <1>6, LeapStep, SMTT(30)
  <2>1. CASE year < y
    BY <1>1, <1>2, <1>5, <1>6, <2>0, <2>1, YearsInOrder, SMTT(30)
  <2>2. CASE y < year
    BY <1>1, <1>2, <1>5, <1>6, <2>0, <2>2, YearsInOrder, SMTT(30)
  <2> QED
    BY <1>6, <2>1, <2>2, SMTT(30)
<1> HIDE DEF year
<1>8. Q(m)
  BY <1>7, DateInItsYear
<1>9. month \in 1 .. 12 /\ Q(month)
  <2> HIDE DEF Q
  <2> QED
    BY <1>8
<1> HIDE DEF month
<1>10. month = m
  <2> HIDE DEF n
  <2>0. \A x \in 1 .. 12 : MonthStart(y, x) \in Int
    BY DayNumberType
  <2>1. CASE month < m
    <3>1. MonthStart(y, month + 1) <= MonthStart(y, m) /\ month + 1 \in 1 .. 12 /\ month < 12
      BY <1>9, <2>1, MonthsInOrder, SMTT(30)
    <3>2. n < YearStart(y) + MonthStart(y, month + 1) /\ YearStart(y) + MonthStart(y, m) <= n
      BY <1>7, <1>8, <1>9, <3>1
    <3>3. MonthStart(y, month + 1) \in Int /\ MonthStart(y, m) \in Int
      BY <2>0, <3>1
    <3> QED
      BY <1>1, <3>1, <3>2, <3>3, SMTT(30)
  <2>2. CASE m < month
    <3>1. MonthStart(y, m + 1) <= MonthStart(y, month) /\ m + 1 \in 1 .. 12 /\ m < 12
      BY <1>9, <2>2, MonthsInOrder, SMTT(30)
    <3>2. n < YearStart(y) + MonthStart(y, m + 1) /\ YearStart(y) + MonthStart(y, month) <= n
      BY <1>7, <1>8, <1>9, <3>1
    <3>3. MonthStart(y, m + 1) \in Int /\ MonthStart(y, month) \in Int
      BY <1>9, <2>0, <3>1
    <3> QED
      BY <1>1, <3>1, <3>2, <3>3, SMTT(30)
  <2> QED
    BY <1>9, <2>1, <2>2, SMTT(30)
<1>11. CivilOf(n) = [year |-> year, month |-> month, day |-> n - DayNumber(year, month, 1) + 1]
  BY DEF CivilOf, year, month
<1>12. n - DayNumber(y, m, 1) + 1 = d
  <2>1. YearStart(y) \in Int /\ MonthStart(y, m) \in Int
    BY DayNumberType
  <2> QED
    BY <2>1, SMTT(30) DEF DayNumber
<1> QED
  BY <1>7, <1>10, <1>11, <1>12

\* The code finds what the calendar says, of any day.
THEOREM CivilOfIsCivilFromDays ==
  ASSUME NEW n \in Int
  PROVE  CivilOf(n) = civilFromDays(n)
  BY CivilFromDays, CivilOfDate

----------------------------------------------------------------------------
(* Instants: parseTimestamptz                                             *)

\* An instant is a day and milliseconds in it.
LEMMA InstantType ==
  ASSUME NEW day \in Int, NEW ms \in Int
  PROVE  /\ Instant(day, ms).day \in Int /\ Instant(day, ms).ms \in Int
         /\ 0 <= Instant(day, ms).ms /\ Instant(day, ms).ms < MS_PER_DAY
         /\ Instant(day, ms).day * MS_PER_DAY + Instant(day, ms).ms = day * MS_PER_DAY + ms
  BY SMTT(30) DEF Instant, MS_PER_DAY

\* A day and milliseconds in it are one instant only.
LEMMA InstantIs ==
  ASSUME NEW day \in Int, NEW ms \in Int, NEW d \in Int, NEW m \in Int, 0 <= m, m < MS_PER_DAY,
         d * MS_PER_DAY + m = day * MS_PER_DAY + ms
  PROVE  Instant(day, ms) = [day |-> d, ms |-> m]
<1>1. ms = MS_PER_DAY * (d - day) + m
  BY SMTT(30) DEF MS_PER_DAY
<1>2. day + ms \div MS_PER_DAY = d /\ ms % MS_PER_DAY = m
  BY <1>1, SMTT(30) DEF MS_PER_DAY
<1> QED
  BY <1>2, SMTT(30) DEF Instant

\* The hours, minutes and seconds of a number of seconds.
LEMMA ClockFields ==
  ASSUME NEW s \in Int, 0 <= s
  PROVE  /\ s \div 3600 \in Int /\ (s % 3600) \div 60 \in Int /\ s % 60 \in Int
         /\ 0 <= s \div 3600 /\ (s < 86400 => s \div 3600 <= 23)
         /\ 0 <= (s % 3600) \div 60 /\ (s % 3600) \div 60 <= 59 /\ 0 <= s % 60 /\ s % 60 <= 59
         /\ (s \div 3600) * 3600 + ((s % 3600) \div 60) * 60 + (s % 60) = s
  BY SMTT(30)

\* The seconds of a day, as the milliseconds count them.
LEMMA SecondsOfDay ==
  ASSUME NEW x \in Int, 0 <= x, x < MS_PER_DAY
  PROVE  x \div 1000 \in Int /\ 0 <= x \div 1000 /\ x \div 1000 < 86400
  BY SMTT(30) DEF MS_PER_DAY

\* epochMsOf takes away the offset that the printed time has added.
LEMMA ShiftBack ==
  ASSUME NEW a \in Int, NEW b \in Int, NEW c \in Int, NEW d \in Int, NEW o \in Int,
         a * MS_PER_DAY + b = c * MS_PER_DAY + (d + o * 1000)
  PROVE  /\ b - o * 1000 \in Int
         /\ c * MS_PER_DAY + d = a * MS_PER_DAY + (b - o * 1000)
  BY SMTT(30) DEF MS_PER_DAY

\* What a clock in the zone shows of an instant, and the seconds of a printed time.
LocalOf(i, offset) == Instant(i.day, i.ms + offset * 1000)
SecondsOf(t) == t.hour * 3600 + t.minute * 60 + t.second

\* What the fields of a printed instant say.
Says(t, local, us, offset) ==
  /\ OffsetOf(t) = offset
  /\ YearOf(t) \in Int /\ t.month \in 1 .. 12 /\ t.day \in Int
  /\ DayNumber(YearOf(t), t.month, t.day) = local.day
  /\ SecondsOf(t) = local.ms \div 1000
  /\ t.microseconds = (local.ms % 1000) * 1000 + us
  /\ SecondsOf(t) \in Int

\* A day's length is a number: it stays folded in the proofs.
LEMMA DayLength == MS_PER_DAY \in Int
  BY SMTT(30) DEF MS_PER_DAY

\* The fields of an instant are numbers, each within its bounds.
LEMMA InstantFields ==
  ASSUME NEW i \in [day : Int, ms : 0 .. MS_PER_DAY - 1, us : 0 .. 999]
  PROVE /\ i.day \in Int /\ i.ms \in Int /\ 0 <= i.ms /\ i.ms < MS_PER_DAY
        /\ i.us \in Int /\ 0 <= i.us /\ i.us < 1000
<1>1. MS_PER_DAY \in Int
  BY DayLength
<1>2. i.day \in Int /\ i.ms \in 0 .. MS_PER_DAY - 1 /\ i.us \in 0 .. 999
  BY SMTT(30)
<1>3. i.ms \in Int /\ 0 <= i.ms /\ i.ms < MS_PER_DAY
  BY <1>1, <1>2, SMTT(30)
<1>4. i.us \in Int /\ 0 <= i.us /\ i.us < 1000
  BY <1>2, SMTT(30)
<1> QED
  BY <1>2, <1>3, <1>4, SMTT(30)

\* What the server prints of an instant says its local date and time, and
\* parseTimestamptz's checks of the ranges let it pass.
LEMMA PrintedIsReadable ==
  ASSUME NEW i \in [day : Int, ms : 0 .. MS_PER_DAY - 1, us : 0 .. 999], NEW offset \in Int
  PROVE  /\ isReadable(Printed(i, offset))
         /\ Says(Printed(i, offset), LocalOf(i, offset), i.us, offset)
<1> DEFINE local == Instant(i.day, i.ms + offset * 1000)
           civil == CivilOf(local.day)
           second == local.ms \div 1000
           size == IF offset < 0 THEN -offset ELSE offset
           t == Printed(i, offset)
<1>1. local.day \in Int /\ local.ms \in Int /\ 0 <= local.ms /\ local.ms < MS_PER_DAY
  <2>1. i.day \in Int /\ i.ms + offset * 1000 \in Int
    BY SMTT(30)
  <2> QED
    BY <2>1, InstantType, SMTT(30)
<1>2. second \in Int /\ 0 <= second /\ second < 86400
  <2> HIDE DEF local
  <2> QED
    BY <1>1, SecondsOfDay
<1>20. size \in Int /\ 0 <= size
  BY SMTT(30)
<1>3. /\ civil.year \in Int /\ civil.month \in 1 .. 12 /\ civil.day \in Int
      /\ isCivilDate(civil.year, civil.month, civil.day)
      /\ DayNumber(civil.year, civil.month, civil.day) = local.day
  <2> HIDE DEF local
  <2> QED
    BY <1>1, CivilFromDays, CivilOfIsCivilFromDays, SMTT(30)
<1>4. t = [matched |-> TRUE,
           year |-> IF civil.year >= 1 THEN civil.year ELSE 1 - civil.year,
           bc |-> civil.year < 1, month |-> civil.month, day |-> civil.day,
           hour |-> second \div 3600, minute |-> (second % 3600) \div 60, second |-> second % 60,
           microseconds |-> (local.ms % 1000) * 1000 + i.us,
           sign |-> IF offset < 0 THEN -1 ELSE 1,
           offsetHours |-> size \div 3600, offsetMinutes |-> (size % 3600) \div 60,
           offsetSeconds |-> size % 60]
  BY SMTT(30) DEF Printed
<1> HIDE DEF local, civil, second, t
<1>5. YearOf(t) = civil.year
  <2>1. t.bc = (civil.year < 1) /\ t.year = IF civil.year >= 1 THEN civil.year ELSE 1 - civil.year
    BY <1>4, SMTT(30)
  <2>2. YearOf(t) = IF civil.year < 1 THEN 1 - t.year ELSE t.year
    BY <2>1, ZenonT(60) DEF YearOf
  <2> QED
    BY <1>3, <2>1, <2>2, SMTT(30)
<1>6. OffsetOf(t) = offset
  <2>1. (size \div 3600) * 3600 + ((size % 3600) \div 60) * 60 + (size % 60) = size
    BY <1>20, ClockFields, SMTT(30)
  <2>2. OffsetOf(t) = (IF offset < 0 THEN -1 ELSE 1)
                         * ((size \div 3600) * 3600 + ((size % 3600) \div 60) * 60 + (size % 60))
    BY <1>4, SMTT(30) DEF OffsetOf
  <2>3. OffsetOf(t) = (IF offset < 0 THEN -1 ELSE 1) * size
    BY <2>1, <2>2, SMTT(30)
  <2> QED
    BY <2>3, SMTT(30)
<1>7. isReadable(t)
  <2>1. second \div 3600 <= 23 /\ (second % 3600) \div 60 <= 59 /\ second % 60 <= 59
    BY <1>2, ClockFields, SMTT(30)
  <2>2. (size % 3600) \div 60 <= 59 /\ size % 60 <= 59
    BY <1>20, ClockFields, SMTT(30)
  <2> QED
    BY <1>3, <1>4, <1>5, <2>1, <2>2, SMTT(30) DEF isReadable
<1>8. SecondsOf(t) = second
  BY <1>2, <1>4, ClockFields, SMTT(30) DEF SecondsOf
<1> QED
  <2>1. Says(t, local, i.us, offset)
    BY <1>2, <1>3, <1>4, <1>5, <1>6, <1>8, SMTT(30) DEF Says, second
  <2> QED
    BY <1>7, <2>1 DEF t, local, LocalOf

\* Of milliseconds and microseconds in one number, each is read off again.
LEMMA Micro ==
  ASSUME NEW m \in Int, NEW u \in Int, 0 <= u, u < 1000
  PROVE  (m * 1000 + u) \div 1000 = m /\ (m * 1000 + u) % 1000 = u
  BY SMTT(60)

\* The code's instant is the exact one, cut toward 1970.
LEMMA EpochIsCut ==
  ASSUME NEW i \in [day : Int, ms : 0 .. MS_PER_DAY - 1, us : 0 .. 999], NEW offset \in Int
  PROVE  epochMsOf(Printed(i, offset)) = TowardZero(i)
<1> DEFINE t == Printed(i, offset)
           local == LocalOf(i, offset)
           whole == Instant(daysFromCivil(YearOf(t), t.month, t.day),
                            (SecondsOf(t) - OffsetOf(t)) * 1000 + t.microseconds \div 1000)
<1>0. i.day \in Int /\ i.ms \in Int /\ 0 <= i.ms /\ i.ms < MS_PER_DAY
        /\ i.us \in Int /\ 0 <= i.us /\ i.us < 1000
  BY InstantFields
<1>1. /\ local.day \in Int /\ local.ms \in Int /\ 0 <= local.ms
      /\ local.day * MS_PER_DAY + local.ms = i.day * MS_PER_DAY + (i.ms + offset * 1000)
  <2>1. i.ms + offset * 1000 \in Int
    BY <1>0, SMTT(30)
  <2> QED
    BY <1>0, <2>1, InstantType, SMTT(30) DEF LocalOf
<1>s. Says(t, local, i.us, offset)
  BY PrintedIsReadable
<1> HIDE DEF local, t
<1>2. /\ OffsetOf(t) = offset /\ SecondsOf(t) = local.ms \div 1000 /\ SecondsOf(t) \in Int
      /\ t.microseconds = (local.ms % 1000) * 1000 + i.us
      /\ daysFromCivil(YearOf(t), t.month, t.day) = local.day
  BY <1>s, DaysFromCivilIsDayNumber, SMTT(30) DEF Says
<1>3. /\ t.microseconds \div 1000 = local.ms % 1000 /\ t.microseconds % 1000 = i.us
  <2>1. local.ms % 1000 \in Int
    BY <1>1, InstantType, SMTT(30) DEF LocalOf
  <2> QED
    BY <1>0, <1>2, <2>1, Micro, SMTT(30)
<1>4. (SecondsOf(t) - OffsetOf(t)) * 1000 + t.microseconds \div 1000 = local.ms - offset * 1000
  BY <1>1, <1>2, <1>3, SMTT(30)
<1>5. whole = [day |-> i.day, ms |-> i.ms]
  <2>1. local.ms - offset * 1000 \in Int
          /\ i.day * MS_PER_DAY + i.ms = local.day * MS_PER_DAY + (local.ms - offset * 1000)
    BY <1>0, <1>1, ShiftBack
  <2>2. Instant(local.day, local.ms - offset * 1000) = [day |-> i.day, ms |-> i.ms]
    BY <1>0, <1>1, <2>1, InstantIs, SMTT(30)
  <2> QED
    BY <1>2, <1>4, <2>2
<1>6. epochMsOf(t) = IF whole.day < 0 /\ t.microseconds % 1000 > 0
                     THEN Instant(whole.day, whole.ms + 1) ELSE whole
  BY SMTT(30) DEF epochMsOf, SecondsOf
<1>7. Instant(i.day, i.ms) = [day |-> i.day, ms |-> i.ms]
  BY <1>0, InstantIs, SMTT(30)
<1> QED
  <2> HIDE DEF whole
  <2> QED
    BY <1>3, <1>5, <1>6, <1>7, SMTT(30) DEF TowardZero, t

\* parseTimestamptz reads what a server prints of any instant in any zone.
THEOREM TimestamptzExact ==
  ASSUME NEW i \in [day : Int, ms : 0 .. MS_PER_DAY - 1, us : 0 .. 999], NEW offset \in Int
  PROVE  Exact(parseTimestamptz(Printed(i, offset)), i)
<1> DEFINE cut == TowardZero(i)
           civil == civilFromDays(cut.day)
           second == cut.ms \div 1000
           answer == parseTimestamptz(Printed(i, offset))
<1>1. answer = isoOf(cut)
  BY PrintedIsReadable, EpochIsCut, SMTT(30) DEF parseTimestamptz
<1>2. cut.day \in Int /\ cut.ms \in Int /\ 0 <= cut.ms /\ cut.ms < MS_PER_DAY
  <2>1. i.day \in Int /\ i.ms \in Int /\ i.ms + 1 \in Int
    BY SMTT(30)
  <2> QED
    BY <2>1, InstantType, SMTT(30) DEF TowardZero
<1> HIDE DEF cut
<1>3. /\ civil.year \in Int /\ civil.month \in 1 .. 12 /\ civil.day \in Int
      /\ isCivilDate(civil.year, civil.month, civil.day)
      /\ DayNumber(civil.year, civil.month, civil.day) = cut.day
      /\ CivilOf(cut.day) = civil
  BY <1>2, CivilFromDays, CivilOfIsCivilFromDays, SMTT(30)
<1> HIDE DEF civil
<1>4. CASE civil.year \notin MIN_YEAR .. MAX_YEAR
  BY <1>1, <1>3, <1>4, SMTT(30) DEF isoOf, Exact, cut, civil
<1>5. CASE civil.year \in MIN_YEAR .. MAX_YEAR
  <2>1. answer = [date |-> civil, hour |-> second \div 3600, minute |-> (second % 3600) \div 60,
                  second |-> second % 60, ms |-> cut.ms % 1000]
    BY <1>1, <1>5, SMTT(30) DEF isoOf, civil
  <2>2. second \in Int /\ 0 <= second /\ second * 1000 + (cut.ms % 1000) = cut.ms
    BY <1>2, SMTT(30)
  <2> HIDE DEF second, answer
  <2>3. /\ answer.date = civil /\ answer.hour = second \div 3600
        /\ answer.minute = (second % 3600) \div 60
        /\ answer.second = second % 60 /\ answer.ms = cut.ms % 1000
        /\ "date" \in DOMAIN answer
    BY <2>1, SMTT(30)
  <2>4. ~Failed(answer)
    BY <2>3, SMTT(30) DEF Failed
  <2>5. ((answer.hour * 60 + answer.minute) * 60 + answer.second) * 1000 + answer.ms = cut.ms
    <3>1. /\ answer.hour \in Int /\ answer.minute \in Int /\ answer.second \in Int
          /\ answer.hour * 3600 + answer.minute * 60 + answer.second = second
      BY <2>2, <2>3, ClockFields, SMTT(30)
    <3>2. (answer.hour * 60 + answer.minute) * 60 + answer.second = second
      BY <3>1, SMTT(30)
    <3> QED
      BY <2>2, <2>3, <3>2, SMTT(30)
  <2> QED
    BY <1>3, <1>5, <2>3, <2>4, <2>5, SMTT(30) DEF Exact, cut, answer
<1> QED
  BY <1>4, <1>5, SMTT(30)
----------------------------------------------------------------------------
(* Arrays: the recursions of the scanner                                  *)

\* A set of numbers has a least one.
LEMMA LeastOf ==
  ASSUME NEW T \in SUBSET Nat, T # {}
  PROVE  \E x \in T : \A y \in T : ~(y < x)
<1>1. IsWellFoundedOn(OpToRel(<, Nat), Nat)
  BY NatLessThanWellFounded
<1>2. PICK x \in T : \A y \in T : ~(<<y, x>> \in OpToRel(<, Nat))
  BY <1>1, WFMin
<1> QED
  BY <1>2 DEF OpToRel

\* What holds of a place once it holds of the places after it holds of all.
LEMMA FromTheEnd ==
  ASSUME NEW a \in Int, NEW b \in Int, NEW T,
         \A i \in a .. b : (\A j \in (i + 1) .. b : j \in T) => i \in T
  PROVE  \A i \in a .. b : i \in T
<1> SUFFICES ASSUME NEW k \in a .. b, k \notin T PROVE FALSE
  OBVIOUS
<1> DEFINE U == {n \in Nat : b - n \in a .. b /\ b - n \notin T}
<1>1. b - k \in U
  BY SMTT(30)
<1>2. U \in SUBSET Nat /\ U # {}
  BY <1>1
<1>3. PICK n \in U : \A m \in U : ~(m < n)
  <2> HIDE DEF U
  <2> QED
    BY <1>2, LeastOf
<1>4. n \in Nat /\ b - n \in a .. b /\ b - n \notin T
  BY <1>3
<1>5. ASSUME NEW j \in (b - n + 1) .. b PROVE j \in T
  <2>1. b - j \in Nat /\ b - j < n /\ b - (b - j) = j /\ j \in a .. b
    BY <1>4, SMTT(30)
  <2>2. b - j \notin U
    <3> HIDE DEF U
    <3> QED
      BY <1>3, <2>1
  <2> QED
    BY <2>1, <2>2
<1> QED
  BY <1>4, <1>5

\* One step of the search for the closing quote: a backslash hides what follows it.
CloseStep(inner, close, i) ==
  IF i > Len(inner) THEN 0
  ELSE CASE inner[i].kind = "quote" -> i
         [] inner[i].kind = "backslash" -> close[i + 2]
         [] OTHER -> close[i + 1]

\* The place of the closing quote obeys its recursion.
LEMMA Closing ==
  ASSUME NEW S, NEW inner \in Seq(S), NEW from \in Int
  PROVE  \E close : /\ close = [i \in from .. (Len(inner) + 2) |-> CloseStep(inner, close, i)]
                    /\ ClosingQuote(inner, from) = close[from]
<1> DEFINE n == Len(inner)
           D == from .. (n + 2)
           close[i \in D] ==
             IF i > n THEN 0
             ELSE CASE inner[i].kind = "quote" -> i
                    [] inner[i].kind = "backslash" -> close[i + 2]
                    [] OTHER -> close[i + 1]
           T == {i \in D : \E f : /\ f = [j \in D |-> f[j]]
                                  /\ \A j \in i .. (n + 2) : f[j] = CloseStep(inner, f, j)}
<1>1. ClosingQuote(inner, from) = close[from]
  BY DEF ClosingQuote
<1>n. n \in Nat
  OBVIOUS
<1>2. ASSUME NEW i \in from .. (n + 2), \A j \in (i + 1) .. (n + 2) : j \in T
      PROVE  i \in T
  <2>1. PICK g : g = [j \in D |-> g[j]] /\ \A j \in (i + 1) .. (n + 2) : g[j] = CloseStep(inner, g, j)
    <3>1. CASE i + 1 \in (i + 1) .. (n + 2)
      <4>1. i + 1 \in T
        BY <1>2, <3>1
      <4> QED
        BY <4>1
    <3>2. CASE i + 1 \notin (i + 1) .. (n + 2)
      <4> DEFINE g == [j \in D |-> 0]
      <4>1. g = [j \in D |-> g[j]]
        OBVIOUS
      <4>2. (i + 1) .. (n + 2) = {}
        BY <1>n, <3>2
      <4> QED
        BY <4>1, <4>2
    <3> QED
      BY <3>1, <3>2
  <2> DEFINE f == [j \in D |-> IF j = i THEN CloseStep(inner, g, i) ELSE g[j]]
  <2>2. f = [j \in D |-> f[j]] /\ f[i] = CloseStep(inner, g, i)
        /\ \A j \in (i + 1) .. (n + 2) : j \in D /\ f[j] = g[j]
    BY <1>n
  <2> HIDE DEF f
  <2>3. ASSUME NEW j \in i .. (n + 2) PROVE CloseStep(inner, f, j) = CloseStep(inner, g, j)
    <3>1. CASE j > n
      BY <3>1 DEF CloseStep
    <3>2. CASE ~(j > n)
      <4>1. j + 1 \in (i + 1) .. (n + 2) /\ j + 2 \in (i + 1) .. (n + 2)
        <5> HIDE DEF n
        <5> QED
          BY <1>n, <3>2, SMTT(30)
      <4>2. f[j + 1] = g[j + 1] /\ f[j + 2] = g[j + 2]
        <5> HIDE DEF n
        <5> QED
          BY <2>2, <4>1
      <4> QED
        BY <4>2 DEF CloseStep
    <3> QED
      BY <3>1, <3>2
  <2>4. ASSUME NEW j \in i .. (n + 2) PROVE f[j] = CloseStep(inner, f, j)
    <3> HIDE DEF n
    <3>1. j = i \/ j \in (i + 1) .. (n + 2)
      BY <1>n, SMTT(30)
    <3> QED
      BY <2>1, <2>2, <2>3, <3>1, Zenon
  <2> QED
    BY <2>2, <2>4
<1>3. n + 2 \in Int
  BY <1>n
<1>4. \A i \in D : i \in T
  <2> HIDE DEF T, n
  <2> QED
    BY <1>2, <1>3, FromTheEnd
<1>5. \E f : f = [i \in D |-> CloseStep(inner, f, i)]
  <2>1. CASE from \in D
    <3>1. PICK f : f = [j \in D |-> f[j]] /\ \A j \in D : f[j] = CloseStep(inner, f, j)
      BY <1>4, <2>1
    <3> QED
      BY <3>1
  <2>2. CASE from \notin D
    <3>1. D = {}
      <4> HIDE DEF n
      <4> QED
        BY <1>n, <2>2, SMTT(30)
    <3> DEFINE f == [i \in D |-> 0]
    <3>2. f = [i \in D |-> CloseStep(inner, f, i)]
      BY <3>1
    <3> QED
      BY <3>2
  <2> QED
    BY <2>1, <2>2
<1>6. close = [i \in D |-> CloseStep(inner, close, i)]
  BY <1>5 DEF CloseStep
<1> QED
  BY <1>1, <1>6

\* One step of unescaping: a backslash goes, what follows it stays.
RestStep(chars, rest, i) ==
  IF i > Len(chars) THEN <<>>
  ELSE IF chars[i].kind = "backslash" THEN <<chars[i + 1]>> \o rest[i + 2]
  ELSE <<chars[i]>> \o rest[i + 1]

\* What is left to unescape obeys its recursion.
LEMMA Unescaping ==
  ASSUME NEW S, NEW chars \in Seq(S)
  PROVE  \E rest : /\ rest = [i \in 1 .. (Len(chars) + 2) |-> RestStep(chars, rest, i)]
                   /\ Unescape(chars) = rest[1]
<1> DEFINE n == Len(chars)
           D == 1 .. (n + 2)
           rest[i \in D] ==
             IF i > n THEN <<>>
             ELSE IF chars[i].kind = "backslash" THEN <<chars[i + 1]>> \o rest[i + 2]
             ELSE <<chars[i]>> \o rest[i + 1]
           T == {i \in D : \E f : /\ f = [j \in D |-> f[j]]
                                  /\ \A j \in i .. (n + 2) : f[j] = RestStep(chars, f, j)}
<1>1. Unescape(chars) = rest[1]
  BY DEF Unescape
<1>n. n \in Nat
  OBVIOUS
<1>2. ASSUME NEW i \in 1 .. (n + 2), \A j \in (i + 1) .. (n + 2) : j \in T
      PROVE  i \in T
  <2>1. PICK g : g = [j \in D |-> g[j]] /\ \A j \in (i + 1) .. (n + 2) : g[j] = RestStep(chars, g, j)
    <3>1. CASE i + 1 \in (i + 1) .. (n + 2)
      <4>1. i + 1 \in T
        BY <1>2, <3>1
      <4> QED
        BY <4>1
    <3>2. CASE i + 1 \notin (i + 1) .. (n + 2)
      <4> DEFINE g == [j \in D |-> 0]
      <4>1. g = [j \in D |-> g[j]]
        OBVIOUS
      <4>2. (i + 1) .. (n + 2) = {}
        BY <1>n, <3>2
      <4> QED
        BY <4>1, <4>2
    <3> QED
      BY <3>1, <3>2
  <2> DEFINE f == [j \in D |-> IF j = i THEN RestStep(chars, g, i) ELSE g[j]]
  <2>2. f = [j \in D |-> f[j]] /\ f[i] = RestStep(chars, g, i)
        /\ \A j \in (i + 1) .. (n + 2) : j \in D /\ f[j] = g[j]
    BY <1>n
  <2> HIDE DEF f
  <2>3. ASSUME NEW j \in i .. (n + 2) PROVE RestStep(chars, f, j) = RestStep(chars, g, j)
    <3>1. CASE j > n
      BY <3>1 DEF RestStep
    <3>2. CASE ~(j > n)
      <4>1. j + 1 \in (i + 1) .. (n + 2) /\ j + 2 \in (i + 1) .. (n + 2)
        <5> HIDE DEF n
        <5> QED
          BY <1>n, <3>2, SMTT(30)
      <4>2. f[j + 1] = g[j + 1] /\ f[j + 2] = g[j + 2]
        <5> HIDE DEF n
        <5> QED
          BY <2>2, <4>1
      <4> QED
        BY <4>2 DEF RestStep
    <3> QED
      BY <3>1, <3>2
  <2>4. ASSUME NEW j \in i .. (n + 2) PROVE f[j] = RestStep(chars, f, j)
    <3> HIDE DEF n
    <3>1. j = i \/ j \in (i + 1) .. (n + 2)
      BY <1>n, SMTT(30)
    <3> QED
      BY <2>1, <2>2, <2>3, <3>1, Zenon
  <2> QED
    BY <2>2, <2>4
<1>3. n + 2 \in Int /\ 1 \in D
  BY <1>n
<1>4. \A i \in D : i \in T
  <2>1. 1 \in Int /\ n + 2 \in Int
    BY <1>n
  <2> HIDE DEF T, n
  <2> QED
    BY <1>2, <2>1, FromTheEnd, Zenon
<1>5. \E f : f = [i \in D |-> RestStep(chars, f, i)]
  <2>1. PICK f : f = [j \in D |-> f[j]] /\ \A j \in D : f[j] = RestStep(chars, f, j)
    BY <1>3, <1>4
  <2> QED
    BY <2>1
<1>6. rest = [i \in D |-> RestStep(chars, rest, i)]
  BY <1>5 DEF RestStep
<1> QED
  BY <1>1, <1>6

\* An unquoted run ends before the first character that is special to scanElement.
LEMMA RunEndIs ==
  ASSUME NEW S, NEW inner \in Seq(S), NEW from \in Nat, NEW e \in (from - 1) .. Len(inner),
         \A i \in from .. e : inner[i].kind \notin Special,
         e = Len(inner) \/ inner[e + 1].kind \in Special
  PROVE  RunEnd(inner, from) = e
<1> DEFINE n == Len(inner)
           P(x) == /\ \A i \in from .. x : inner[i].kind \notin Special
                   /\ x = n \/ inner[x + 1].kind \in Special
<1>n. n \in Nat /\ e \in (from - 1) .. n
  OBVIOUS
<1>1. ASSUME NEW x \in (from - 1) .. n, P(x) PROVE x = e
  <2> HIDE DEF n
  <2>1. CASE x < e
    <3>1. x + 1 \in from .. e /\ x # n
      <4> HIDE DEF P
      <4> QED
        BY <1>n, <2>1
    <3> QED
      BY <1>1, <3>1
  <2>2. CASE e < x
    <3>1. e + 1 \in from .. x /\ e # n
      <4> HIDE DEF P
      <4> QED
        BY <1>n, <2>2
    <3>2. inner[e + 1].kind \in Special
      BY <3>1 DEF n
    <3> QED
      BY <1>1, <3>1, <3>2
  <2> QED
    BY <1>n, <2>1, <2>2
<1>2. P(e) /\ e \in (from - 1) .. n
  OBVIOUS
<1>3. RunEnd(inner, from) = CHOOSE x \in (from - 1) .. n : P(x)
  BY DEF RunEnd
<1> HIDE DEF P, n
<1> QED
  BY <1>1, <1>2, <1>3

\* The end of a run is within the text.
LEMMA RunEndIn ==
  ASSUME NEW S, NEW inner \in Seq(S), NEW from \in 1 .. Len(inner)
  PROVE  RunEnd(inner, from) \in (from - 1) .. Len(inner)
<1> DEFINE n == Len(inner)
           U == {x \in (from - 1) .. n : x = n \/ inner[x + 1].kind \in Special}
<1>n. n \in Nat /\ from \in 1 .. n
  OBVIOUS
<1>1. U \in SUBSET Nat /\ n \in U
  <2> HIDE DEF n
  <2> QED
    BY <1>n
<1>2. PICK e \in U : \A x \in U : ~(x < e)
  <2> HIDE DEF U
  <2> QED
    BY <1>1, LeastOf
<1>3. ASSUME NEW i \in from .. e, inner[i].kind \in Special PROVE FALSE
  <2> HIDE DEF n
  <2>1. i \in Int /\ i - 1 \in (from - 1) .. n /\ i - 1 + 1 = i /\ i - 1 < e
    BY <1>n, <1>2
  <2>2. i - 1 \in U
    BY <1>3, <2>1
  <2> QED
    BY <1>2, <2>1, <2>2
<1>4. RunEnd(inner, from) = e
  <2>1. from \in Nat /\ e \in (from - 1) .. n /\ (e = n \/ inner[e + 1].kind \in Special)
    BY <1>n, <1>2
  <2> HIDE DEF U
  <2> QED
    BY <1>3, <2>1, RunEndIs
<1> QED
  BY <1>2, <1>4

\* The closing quote, when there is one, is within the text.
LEMMA ClosingQuoteIn ==
  ASSUME NEW S, NEW inner \in Seq(S), NEW from \in 1 .. (Len(inner) + 1)
  PROVE  ClosingQuote(inner, from) = 0 \/ ClosingQuote(inner, from) \in from .. Len(inner)
<1> DEFINE n == Len(inner)
<1>n. n \in Nat /\ from \in 1 .. (n + 1) /\ from \in Int /\ n + 2 \in Int
  OBVIOUS
<1>1. PICK close : /\ close = [i \in from .. (n + 2) |-> CloseStep(inner, close, i)]
                   /\ ClosingQuote(inner, from) = close[from]
  BY <1>n, Closing
<1> DEFINE T == {i \in from .. (n + 2) : close[i] = 0 \/ close[i] \in i .. n}
<1>2. ASSUME NEW i \in from .. (n + 2), \A j \in (i + 1) .. (n + 2) : j \in T
      PROVE  i \in T
  <2>1. close[i] = CloseStep(inner, close, i)
    BY <1>1
  <2>2. CASE i > n
    BY <2>1, <2>2 DEF CloseStep
  <2>3. CASE ~(i > n)
    <3>1. close[i] = IF inner[i].kind = "quote" THEN i
                     ELSE IF inner[i].kind = "backslash" THEN close[i + 2] ELSE close[i + 1]
      BY <2>1, <2>3 DEF CloseStep
    <3> HIDE DEF n
    <3>2. i + 1 \in (i + 1) .. (n + 2) /\ i + 2 \in (i + 1) .. (n + 2) /\ i \in i .. n
      BY <1>n, <2>3
    <3>3. i + 1 \in T /\ i + 2 \in T
      BY <1>2, <3>2
    <3> QED
      BY <1>n, <3>1, <3>2, <3>3
  <2> QED
    BY <2>2, <2>3
<1>3. \A i \in from .. (n + 2) : i \in T
  <2> HIDE DEF T, n
  <2> QED
    BY <1>n, <1>2, FromTheEnd
<1>4. from \in T
  <2> HIDE DEF T, n
  <2> QED
    BY <1>n, <1>3
<1> QED
  BY <1>1, <1>4

\* scanElement goes forward, or refuses: splitArray ends.
LEMMA NextIsLater ==
  ASSUME NEW S, NEW inner \in Seq(S), NEW at \in 1 .. (Len(inner) + 2)
  PROVE  \/ scanElement(inner, at).next = 0
         \/ scanElement(inner, at).next \in (at + 1) .. (Len(inner) + 1)
<1> DEFINE n == Len(inner)
<1>n. n \in Nat /\ at \in 1 .. (n + 2)
  OBVIOUS
<1>1. CASE at > n
  BY <1>1 DEF scanElement
<1>2. CASE ~(at > n) /\ inner[at].kind = "quote"
  <2> DEFINE close == ClosingQuote(inner, at + 1)
  <2>1. close = 0 \/ close \in (at + 1) .. n
    <3>1. at + 1 \in 1 .. (n + 1)
      <4> HIDE DEF n
      <4> QED
        BY <1>n, <1>2
    <3> QED
      BY <3>1, ClosingQuoteIn
  <2>2. scanElement(inner, at).next = IF close = 0 THEN 0 ELSE close + 1
    BY <1>2 DEF scanElement
  <2> HIDE DEF close, n
  <2>3. close # 0 => close + 1 \in (at + 1) .. (n + 1)
    BY <1>n, <2>1
  <2> QED
    BY <2>2, <2>3 DEF n
<1>3. CASE ~(at > n) /\ inner[at].kind # "quote"
  <2> DEFINE end == RunEnd(inner, at)
             run == SubSeq(inner, at, end)
  <2>1. end \in (at - 1) .. n
    <3>1. at \in 1 .. n
      <4> HIDE DEF n
      <4> QED
        BY <1>n, <1>3
    <3> QED
      BY <3>1, RunEndIn
  <2>2. scanElement(inner, at).next = IF run = <<>> THEN 0 ELSE end + 1
    <3>1. CASE run = <<>>
      <4>1. ~ReadsNull(run)
        BY <3>1 DEF ReadsNull
      <4> QED
        BY <1>3, <3>1, <4>1 DEF scanElement
    <3>2. CASE run # <<>> /\ ReadsNull(run)
      BY <1>3, <3>2 DEF scanElement
    <3>3. CASE run # <<>> /\ ~ReadsNull(run)
      BY <1>3, <3>3 DEF scanElement
    <3> QED
      BY <3>1, <3>2, <3>3
  <2>3. end < at => run = <<>>
    BY <2>1, SubSeqProperties
  <2> HIDE DEF end, n, run
  <2>4. run # <<>> => end + 1 \in (at + 1) .. (n + 1)
    BY <1>n, <2>1, <2>3
  <2> QED
    BY <2>2, <2>4 DEF n
<1> QED
  BY <1>1, <1>2, <1>3

\* One step of splitArray: the element scanned here, then those behind it.
SplitStep(inner, split, at) == FromElement(inner, scanElement(inner, at), split)

\* The elements obey their recursion.
LEMMA Splitting ==
  ASSUME NEW S, NEW inner \in Seq(S), inner # <<>>
  PROVE  \E split : /\ split = [at \in 1 .. (Len(inner) + 2) |-> SplitStep(inner, split, at)]
                    /\ ElementsOf(inner) = split[1]
<1> DEFINE n == Len(inner)
           D == 1 .. (n + 2)
           split[at \in D] == FromElement(inner, scanElement(inner, at), split)
           T == {i \in D : \E f : /\ f = [j \in D |-> f[j]]
                                  /\ \A j \in i .. (n + 2) : f[j] = SplitStep(inner, f, j)}
<1>1. ElementsOf(inner) = split[1]
  BY DEF ElementsOf
<1>n. n \in Nat
  OBVIOUS
<1>2. ASSUME NEW i \in 1 .. (n + 2), \A j \in (i + 1) .. (n + 2) : j \in T
      PROVE  i \in T
  <2>1. PICK g : g = [j \in D |-> g[j]] /\ \A j \in (i + 1) .. (n + 2) : g[j] = SplitStep(inner, g, j)
    <3>1. CASE i + 1 \in (i + 1) .. (n + 2)
      <4>1. i + 1 \in T
        BY <1>2, <3>1
      <4> QED
        BY <4>1
    <3>2. CASE i + 1 \notin (i + 1) .. (n + 2)
      <4> DEFINE g == [j \in D |-> 0]
      <4>1. g = [j \in D |-> g[j]]
        OBVIOUS
      <4>2. (i + 1) .. (n + 2) = {}
        BY <1>n, <3>2
      <4> QED
        BY <4>1, <4>2
    <3> QED
      BY <3>1, <3>2
  <2> DEFINE f == [j \in D |-> IF j = i THEN SplitStep(inner, g, i) ELSE g[j]]
  <2>2. f = [j \in D |-> f[j]] /\ f[i] = SplitStep(inner, g, i)
        /\ \A j \in (i + 1) .. (n + 2) : j \in D /\ f[j] = g[j]
    BY <1>n
  <2> HIDE DEF f
  <2>3. ASSUME NEW j \in i .. (n + 2) PROVE SplitStep(inner, f, j) = SplitStep(inner, g, j)
    <3> DEFINE e == scanElement(inner, j)
    <3>1. e.next = 0 \/ e.next \in (j + 1) .. (n + 1)
      <4>1. j \in 1 .. (n + 2)
        BY <1>n
      <4> QED
        BY <4>1, NextIsLater
    <3>2. e.next \in 1 .. n => f[e.next + 1] = g[e.next + 1]
      <4> HIDE DEF n, e
      <4>1. e.next \in 1 .. n => e.next + 1 \in (i + 1) .. (n + 2)
        BY <1>n, <3>1
      <4> QED
        BY <2>2, <4>1
    <3> QED
      BY <3>1, <3>2 DEF SplitStep, FromElement
  <2>4. ASSUME NEW j \in i .. (n + 2) PROVE f[j] = SplitStep(inner, f, j)
    <3> HIDE DEF n
    <3>1. j = i \/ j \in (i + 1) .. (n + 2)
      BY <1>n, SMTT(30)
    <3> QED
      BY <2>1, <2>2, <2>3, <3>1, Zenon
  <2> QED
    BY <2>2, <2>4
<1>3. 1 \in Int /\ n + 2 \in Int /\ 1 \in D
  BY <1>n
<1>4. \A i \in D : i \in T
  <2> HIDE DEF T, n
  <2> QED
    BY <1>2, <1>3, FromTheEnd, Zenon
<1>5. \E f : f = [i \in D |-> SplitStep(inner, f, i)]
  <2>1. PICK f : f = [j \in D |-> f[j]] /\ \A j \in D : f[j] = SplitStep(inner, f, j)
    BY <1>3, <1>4
  <2> QED
    BY <2>1
<1>6. split = [i \in D |-> SplitStep(inner, split, i)]
  BY <1>5 DEF SplitStep
<1> QED
  BY <1>1, <1>6

\* What holds of a place once it holds of the places before it holds of all.
LEMMA FromTheStart ==
  ASSUME NEW b \in Nat, NEW T,
         \A i \in 1 .. b : (\A j \in 1 .. (i - 1) : j \in T) => i \in T
  PROVE  \A i \in 1 .. b : i \in T
<1> SUFFICES ASSUME NEW k \in 1 .. b, k \notin T PROVE FALSE
  OBVIOUS
<1> DEFINE U == {i \in 1 .. b : i \notin T}
<1>1. U \in SUBSET Nat /\ k \in U
  OBVIOUS
<1>2. PICK i \in U : \A m \in U : ~(m < i)
  <2> HIDE DEF U
  <2> QED
    BY <1>1, LeastOf
<1>3. ASSUME NEW j \in 1 .. (i - 1) PROVE j \in T
  <2>1. j < i /\ j \in 1 .. b
    BY <1>2
  <2> QED
    BY <1>2, <2>1
<1> QED
  BY <1>2, <1>3

\* One step of laying sequences one after the other.
FlatStep(ss, flat, i) == IF i = 1 THEN ss[i] ELSE flat[i - 1] \o ss[i]

\* A flattened sequence obeys its recursion, part by part.
LEMMA Flattening ==
  ASSUME NEW ss, Len(ss) \in Nat, Len(ss) # 0
  PROVE  \E flat : /\ flat = [i \in 1 .. Len(ss) |-> FlatStep(ss, flat, i)]
                   /\ FlattenSeq(ss) = flat[Len(ss)]
<1> DEFINE n == Len(ss)
           D == 1 .. n
           flat[i \in D] == IF i = 1 THEN ss[i] ELSE flat[i - 1] \o ss[i]
           T == {i \in D : \E f : /\ f = [j \in D |-> f[j]]
                                  /\ \A j \in 1 .. i : f[j] = FlatStep(ss, f, j)}
<1>1. FlattenSeq(ss) = flat[n]
  BY DEF FlattenSeq
<1>2. ASSUME NEW i \in 1 .. n, \A j \in 1 .. (i - 1) : j \in T
      PROVE  i \in T
  <2>1. PICK g : g = [j \in D |-> g[j]] /\ \A j \in 1 .. (i - 1) : g[j] = FlatStep(ss, g, j)
    <3>1. CASE i - 1 \in 1 .. (i - 1)
      <4>1. i - 1 \in T
        BY <1>2, <3>1
      <4> QED
        BY <4>1
    <3>2. CASE i - 1 \notin 1 .. (i - 1)
      <4> DEFINE g == [j \in D |-> 0]
      <4>1. g = [j \in D |-> g[j]]
        OBVIOUS
      <4>2. 1 .. (i - 1) = {}
        BY <3>2
      <4> QED
        BY <4>1, <4>2
    <3> QED
      BY <3>1, <3>2
  <2> DEFINE f == [j \in D |-> IF j = i THEN FlatStep(ss, g, i) ELSE g[j]]
  <2>2. f = [j \in D |-> f[j]] /\ f[i] = FlatStep(ss, g, i)
        /\ \A j \in 1 .. (i - 1) : f[j] = g[j]
    OBVIOUS
  <2> HIDE DEF f
  <2>3. ASSUME NEW j \in 1 .. i PROVE FlatStep(ss, f, j) = FlatStep(ss, g, j)
    <3>1. j # 1 => j - 1 \in 1 .. (i - 1)
      OBVIOUS
    <3> QED
      BY <2>2, <3>1 DEF FlatStep
  <2>4. ASSUME NEW j \in 1 .. i PROVE f[j] = FlatStep(ss, f, j)
    <3>1. j = i \/ j \in 1 .. (i - 1)
      OBVIOUS
    <3> QED
      BY <2>1, <2>2, <2>3, <3>1, Zenon
  <2> QED
    BY <2>2, <2>4
<1>4. n \in D /\ \A i \in D : i \in T
  <2>1. n \in Nat /\ n \in D
    OBVIOUS
  <2> HIDE DEF T, n
  <2> QED
    BY <1>2, <2>1, FromTheStart
<1>5. \E f : f = [i \in D |-> FlatStep(ss, f, i)]
  <2>1. PICK f : f = [j \in D |-> f[j]] /\ \A j \in D : f[j] = FlatStep(ss, f, j)
    BY <1>4
  <2> QED
    BY <2>1
<1>6. flat = [i \in D |-> FlatStep(ss, flat, i)]
  BY <1>5 DEF FlatStep
<1> QED
  BY <1>1, <1>6

\* A sequence after another.
LEMMA After ==
  ASSUME NEW S, NEW s \in Seq(S), NEW t \in Seq(S)
  PROVE  /\ s \o t \in Seq(S)
         /\ Len(s \o t) = Len(s) + Len(t)
         /\ \A k \in 1 .. Len(s) : (s \o t)[k] = s[k]
         /\ \A k \in 1 .. Len(t) : (s \o t)[Len(s) + k] = t[k]
<1>0. Len(s) \in Nat /\ Len(t) \in Nat
  OBVIOUS
<1>1. /\ s \o t \in Seq(S) /\ Len(s \o t) = Len(s) + Len(t)
      /\ \A i \in 1 .. Len(s) + Len(t) : (s \o t)[i] = IF i <= Len(s) THEN s[i] ELSE t[i - Len(s)]
  BY ConcatProperties, Zenon
<1>2. ASSUME NEW k \in 1 .. Len(s) PROVE (s \o t)[k] = s[k]
  <2>1. k \in 1 .. Len(s) + Len(t) /\ k <= Len(s)
    BY <1>0
  <2> QED
    BY <1>1, <2>1
<1>3. ASSUME NEW k \in 1 .. Len(t) PROVE (s \o t)[Len(s) + k] = t[k]
  <2>1. Len(s) + k \in 1 .. Len(s) + Len(t) /\ ~(Len(s) + k <= Len(s)) /\ Len(s) + k - Len(s) = k
    BY <1>0
  <2> QED
    BY <1>1, <2>1
<1> QED
  BY <1>1, <1>2, <1>3

\* A flattened sequence holds its parts one after the other.
LEMMA Laid ==
  ASSUME NEW S, NEW ss \in Seq(Seq(S))
  PROVE  /\ FlattenSeq(ss) \in Seq(S)
         /\ \E cut \in [0 .. Len(ss) -> Nat] :
              /\ cut[0] = 0 /\ cut[Len(ss)] = Len(FlattenSeq(ss))
              /\ \A i \in 1 .. Len(ss) :
                   /\ cut[i] = cut[i - 1] + Len(ss[i]) /\ cut[i] <= Len(FlattenSeq(ss))
                   /\ \A k \in 1 .. Len(ss[i]) : FlattenSeq(ss)[cut[i - 1] + k] = ss[i][k]
<1>1. CASE Len(ss) = 0
  <2>1. FlattenSeq(ss) = ss /\ ss = <<>>
    BY <1>1 DEF FlattenSeq
  <2> DEFINE cut == [i \in 0 .. Len(ss) |-> 0]
  <2>2. cut \in [0 .. Len(ss) -> Nat] /\ cut[0] = 0 /\ cut[Len(ss)] = 0
    BY <1>1
  <2> HIDE DEF cut
  <2>3. FlattenSeq(ss) \in Seq(S) /\ Len(FlattenSeq(ss)) = 0 /\ 1 .. Len(ss) = {}
    BY <1>1, <2>1
  <2> QED
    BY <1>1, <2>2, <2>3
<1>2. CASE Len(ss) # 0
  <2> DEFINE n == Len(ss)
  <2>1. n \in Nat /\ n \in 1 .. n /\ 1 \in 1 .. n /\ \A i \in 1 .. n : ss[i] \in Seq(S)
    BY <1>2
  <2>2. PICK flat : /\ flat = [i \in 1 .. n |-> FlatStep(ss, flat, i)]
                    /\ FlattenSeq(ss) = flat[n]
    BY <1>2, <2>1, Flattening
  <2> HIDE DEF n
  <2>3. /\ flat[1] = ss[1]
        /\ \A i \in 1 .. n : i # 1 => flat[i] = flat[i - 1] \o ss[i]
    BY <2>1, <2>2 DEF FlatStep
  <2> DEFINE T == {i \in 1 .. n : flat[i] \in Seq(S)}
  <2>4. ASSUME NEW i \in 1 .. n, \A j \in 1 .. (i - 1) : j \in T PROVE i \in T
    <3>1. CASE i = 1
      BY <2>1, <2>3, <3>1
    <3>2. CASE i # 1
      <4>1. i - 1 \in 1 .. (i - 1)
        BY <2>1, <3>2
      <4>2. flat[i - 1] \in Seq(S)
        BY <2>4, <4>1
      <4>3. flat[i - 1] \o ss[i] \in Seq(S)
        BY <2>1, <4>2, After, Zenon
      <4> QED
        BY <2>3, <3>2, <4>3
    <3> QED
      BY <3>1, <3>2
  <2>5. \A i \in 1 .. n : flat[i] \in Seq(S)
    <3>1. \A i \in 1 .. n : i \in T
      <4> HIDE DEF T
      <4> QED
        BY <2>1, <2>4, FromTheStart
    <3> QED
      BY <3>1
  <2> DEFINE cut == [i \in 0 .. n |-> IF i = 0 THEN 0 ELSE Len(flat[i])]
  <2>6. cut \in [0 .. n -> Nat] /\ cut[0] = 0 /\ \A i \in 1 .. n : cut[i] = Len(flat[i])
    BY <2>1, <2>5
  <2> HIDE DEF cut
  <2>7. ASSUME NEW i \in 1 .. n
        PROVE  /\ cut[i] = cut[i - 1] + Len(ss[i])
               /\ \A k \in 1 .. Len(ss[i]) : flat[i][cut[i - 1] + k] = ss[i][k]
    <3>1. CASE i = 1
      BY <2>1, <2>3, <2>6, <3>1
    <3>2. CASE i # 1
      <4>1. i - 1 \in 1 .. n
        BY <2>1, <3>2
      <4> DEFINE u == flat[i - 1]
                 v == ss[i]
                 w == flat[i]
      <4>2. w = u \o v /\ u \in Seq(S) /\ v \in Seq(S)
        BY <2>1, <2>3, <2>5, <3>2, <4>1
      <4>3. cut[i - 1] = Len(u) /\ cut[i] = Len(w)
        BY <2>6, <4>1
      <4> HIDE DEF u, v, w
      <4>4. Len(w) = Len(u) + Len(v) /\ \A k \in 1 .. Len(v) : w[Len(u) + k] = v[k]
        BY <4>2, After
      <4> QED
        BY <4>3, <4>4 DEF u, v, w
    <3> QED
      BY <3>1, <3>2
  <2> DEFINE P == {j \in 1 .. n : \A i \in 1 .. j : /\ Len(flat[i]) <= Len(flat[j])
                                                   /\ \A k \in 1 .. Len(flat[i]) : flat[j][k] = flat[i][k]}
  <2>8. ASSUME NEW j \in 1 .. n, \A m \in 1 .. (j - 1) : m \in P PROVE j \in P
    <3> SUFFICES ASSUME NEW i \in 1 .. j
                 PROVE  /\ Len(flat[i]) <= Len(flat[j])
                        /\ \A k \in 1 .. Len(flat[i]) : flat[j][k] = flat[i][k]
      OBVIOUS
    <3>0. flat[j] \in Seq(S)
      BY <2>5
    <3>1. CASE i = j
      BY <3>0, <3>1
    <3>2. CASE i # j
      <4>1. j - 1 \in 1 .. n /\ j - 1 \in 1 .. (j - 1) /\ i \in 1 .. (j - 1) /\ j # 1 /\ i \in 1 .. n
        BY <2>1, <3>2
      <4>2. /\ Len(flat[i]) <= Len(flat[j - 1])
            /\ \A k \in 1 .. Len(flat[i]) : flat[j - 1][k] = flat[i][k]
        <5>1. j - 1 \in P
          <6> HIDE DEF P
          <6> QED
            BY <2>8, <4>1
        <5> QED
          BY <4>1, <5>1
      <4> DEFINE u == flat[j - 1]
                 v == ss[j]
                 w == flat[j]
                 x == flat[i]
      <4>3. w = u \o v /\ u \in Seq(S) /\ v \in Seq(S) /\ x \in Seq(S)
        BY <2>1, <2>3, <2>5, <4>1
      <4>4. Len(x) <= Len(u) /\ \A k \in 1 .. Len(x) : u[k] = x[k]
        BY <4>2
      <4> HIDE DEF u, v, w, x
      <4>5. Len(w) = Len(u) + Len(v) /\ \A k \in 1 .. Len(u) : w[k] = u[k]
        BY <4>3, After
      <4>6. Len(x) <= Len(w) /\ \A k \in 1 .. Len(x) : w[k] = x[k]
        BY <4>3, <4>4, <4>5
      <4> QED
        BY <4>6 DEF u, v, w, x
    <3> QED
      BY <3>1, <3>2
  <2>9. n \in P
    <3>1. \A j \in 1 .. n : j \in P
      <4> HIDE DEF P
      <4> QED
        BY <2>1, <2>8, FromTheStart
    <3> QED
      BY <2>1, <3>1
  <2>10. ASSUME NEW i \in 1 .. n
         PROVE  /\ cut[i] <= Len(flat[n])
                /\ \A k \in 1 .. Len(ss[i]) : flat[n][cut[i - 1] + k] = ss[i][k]
    <3>1. Len(flat[i]) <= Len(flat[n]) /\ \A k \in 1 .. Len(flat[i]) : flat[n][k] = flat[i][k]
      BY <2>9
    <3>2. cut[i - 1] \in Nat /\ cut[i] \in Nat
      BY <2>1, <2>6
    <3>3. Len(ss[i]) \in Nat
      BY <2>1
    <3>4. \A k \in 1 .. Len(ss[i]) : cut[i - 1] + k \in 1 .. Len(flat[i])
      BY <2>6, <2>7, <3>2, <3>3
    <3> QED
      BY <2>6, <2>7, <3>1, <3>4
  <2>11. cut[n] = Len(flat[n]) /\ FlattenSeq(ss) = flat[n] /\ flat[n] \in Seq(S)
    BY <2>1, <2>2, <2>5, <2>6
  <2> QED
    BY <2>6, <2>7, <2>10, <2>11, ZenonT(60) DEF n
<1> QED
  BY <1>1, <1>2
----------------------------------------------------------------------------
(* Arrays: escaping and its undoing                                       *)

\* The characters a server escapes, and those an escaped text is made of.
NeedsEscape(c) == c.kind \in {"quote", "backslash"}
MarkedWith(S) == S \cup {Mark("backslash")}

\* Where the characters of an escaped text are: each after those before it, with
\* a backslash before it when it needs one.
IsEscaped(chars, esc, cut) ==
  /\ cut[0] = 0 /\ cut[Len(chars)] = Len(esc)
  /\ \A i \in 0 .. Len(chars) : cut[i] \in 0 .. Len(esc)
  /\ \A i \in 0 .. (Len(chars) - 1) :
       IF NeedsEscape(chars[i + 1])
       THEN /\ cut[i + 1] = cut[i] + 2
            /\ esc[cut[i] + 1] = Mark("backslash") /\ esc[cut[i] + 2] = chars[i + 1]
       ELSE /\ cut[i + 1] = cut[i] + 1
            /\ esc[cut[i] + 1] = chars[i + 1]

\* An escaped text is the text, with backslashes where they are needed.
LEMMA EscapedIs ==
  ASSUME NEW S, NEW chars \in Seq(S)
  PROVE  /\ Escaped(chars) \in Seq(MarkedWith(S))
         /\ \E cut : IsEscaped(chars, Escaped(chars), cut)
<1> DEFINE n == Len(chars)
           pieces == [i \in DOMAIN chars |->
                        IF chars[i].kind \in {"quote", "backslash"} THEN <<Mark("backslash"), chars[i]>>
                        ELSE <<chars[i]>>]
           A == MarkedWith(S)
           esc == Escaped(chars)
<1>1. n \in Nat /\ DOMAIN chars = 1 .. n /\ \A i \in 1 .. n : chars[i] \in A
  BY DEF MarkedWith
<1>2. Mark("backslash") \in A
  BY DEF MarkedWith
<1> HIDE DEF n, A
<1>3. /\ pieces = [i \in 1 .. n |-> pieces[i]]
      /\ \A i \in 1 .. n : /\ NeedsEscape(chars[i]) => pieces[i] = <<Mark("backslash"), chars[i]>>
                           /\ ~NeedsEscape(chars[i]) => pieces[i] = <<chars[i]>>
  BY <1>1 DEF NeedsEscape
<1>4. esc = FlattenSeq(pieces)
  BY DEF Escaped
<1> HIDE DEF pieces, esc
<1>5. /\ \A i \in 1 .. n : pieces[i] \in Seq(A)
      /\ \A i \in 1 .. n : NeedsEscape(chars[i]) =>
           Len(pieces[i]) = 2 /\ pieces[i][1] = Mark("backslash") /\ pieces[i][2] = chars[i]
      /\ \A i \in 1 .. n : ~NeedsEscape(chars[i]) => Len(pieces[i]) = 1 /\ pieces[i][1] = chars[i]
  <2>1. ASSUME NEW i \in 1 .. n, NeedsEscape(chars[i])
        PROVE  pieces[i] \in Seq(A) /\ Len(pieces[i]) = 2
                 /\ pieces[i][1] = Mark("backslash") /\ pieces[i][2] = chars[i]
    <3>1. pieces[i] = <<Mark("backslash"), chars[i]>>
      BY <1>3, <2>1
    <3> QED
      BY <1>1, <1>2, <3>1
  <2>2. ASSUME NEW i \in 1 .. n, ~NeedsEscape(chars[i])
        PROVE  pieces[i] \in Seq(A) /\ Len(pieces[i]) = 1 /\ pieces[i][1] = chars[i]
    <3>1. pieces[i] = <<chars[i]>>
      BY <1>3, <2>2
    <3> QED
      BY <1>1, <1>2, <3>1
  <2> QED
    BY <2>1, <2>2
<1>6. pieces \in Seq(Seq(A)) /\ Len(pieces) = n
  BY <1>1, <1>3, <1>5
<1>7. /\ esc \in Seq(A)
      /\ \E cut \in [0 .. n -> Nat] :
           /\ cut[0] = 0 /\ cut[n] = Len(esc)
           /\ \A i \in 1 .. n :
                /\ cut[i] = cut[i - 1] + Len(pieces[i]) /\ cut[i] <= Len(esc)
                /\ \A k \in 1 .. Len(pieces[i]) : esc[cut[i - 1] + k] = pieces[i][k]
  <2>1. /\ FlattenSeq(pieces) \in Seq(A)
        /\ \E cut \in [0 .. Len(pieces) -> Nat] :
             /\ cut[0] = 0 /\ cut[Len(pieces)] = Len(FlattenSeq(pieces))
             /\ \A i \in 1 .. Len(pieces) :
                  /\ cut[i] = cut[i - 1] + Len(pieces[i]) /\ cut[i] <= Len(FlattenSeq(pieces))
                  /\ \A k \in 1 .. Len(pieces[i]) : FlattenSeq(pieces)[cut[i - 1] + k] = pieces[i][k]
    BY <1>6, Laid, ZenonT(60)
  <2> QED
    BY <1>4, <1>6, <2>1, ZenonT(60)
<1>8. PICK cut \in [0 .. n -> Nat] :
           /\ cut[0] = 0 /\ cut[n] = Len(esc)
           /\ \A i \in 1 .. n :
                /\ cut[i] = cut[i - 1] + Len(pieces[i]) /\ cut[i] <= Len(esc)
                /\ \A k \in 1 .. Len(pieces[i]) : esc[cut[i - 1] + k] = pieces[i][k]
  BY <1>7
<1>9. \A i \in 0 .. n : cut[i] \in 0 .. Len(esc)
  BY <1>1, <1>7, <1>8
<1>10. ASSUME NEW i \in 0 .. (n - 1)
       PROVE  IF NeedsEscape(chars[i + 1])
              THEN /\ cut[i + 1] = cut[i] + 2
                   /\ esc[cut[i] + 1] = Mark("backslash") /\ esc[cut[i] + 2] = chars[i + 1]
              ELSE /\ cut[i + 1] = cut[i] + 1
                   /\ esc[cut[i] + 1] = chars[i + 1]
  <2>1. i + 1 \in 1 .. n /\ (i + 1) - 1 = i
    BY <1>1
  <2>2. /\ cut[i + 1] = cut[i] + Len(pieces[i + 1])
        /\ \A k \in 1 .. Len(pieces[i + 1]) : esc[cut[i] + k] = pieces[i + 1][k]
    BY <1>8, <2>1
  <2>3. CASE NeedsEscape(chars[i + 1])
    <3>1. Len(pieces[i + 1]) = 2 /\ pieces[i + 1][1] = Mark("backslash") /\ pieces[i + 1][2] = chars[i + 1]
      BY <1>5, <2>1, <2>3
    <3>2. 1 \in 1 .. Len(pieces[i + 1]) /\ 2 \in 1 .. Len(pieces[i + 1])
      BY <3>1
    <3> QED
      BY <2>2, <2>3, <3>1, <3>2
  <2>4. CASE ~NeedsEscape(chars[i + 1])
    <3>1. Len(pieces[i + 1]) = 1 /\ pieces[i + 1][1] = chars[i + 1]
      BY <1>5, <2>1, <2>4
    <3>2. 1 \in 1 .. Len(pieces[i + 1])
      BY <3>1
    <3> QED
      BY <2>2, <2>4, <3>1, <3>2
  <2> QED
    BY <2>3, <2>4
<1> QED
  BY <1>7, <1>8, <1>9, <1>10 DEF IsEscaped, n, esc, A

\* From a place on stands an escaped text, and a quote closes it.
ClosedBehind(inner, from, esc) ==
  /\ from + Len(esc) <= Len(inner)
  /\ inner[from + Len(esc)].kind = "quote"
  /\ \A k \in 1 .. Len(esc) : inner[from - 1 + k] = esc[k]

\* The closing quote is the one after the escaped text.
LEMMA ClosedAfter ==
  ASSUME NEW S, NEW R, NEW chars \in Seq(S), NEW inner \in Seq(R), NEW from \in 1 .. Len(inner),
         ClosedBehind(inner, from, Escaped(chars))
  PROVE  ClosingQuote(inner, from) = from + Len(Escaped(chars))
<1> DEFINE n == Len(chars)
           m == Len(inner)
           esc == Escaped(chars)
           l == Len(esc)
<1>1. n \in Nat /\ m \in Nat /\ l \in Nat /\ from \in 1 .. m /\ from + l <= m
  BY EscapedIs DEF ClosedBehind
<1>2. inner[from + l].kind = "quote" /\ \A k \in 1 .. l : inner[from - 1 + k] = esc[k]
  BY DEF ClosedBehind
<1>3. PICK cut : IsEscaped(chars, esc, cut)
  BY EscapedIs
<1>4. PICK close : /\ close = [i \in from .. (m + 2) |-> CloseStep(inner, close, i)]
                   /\ ClosingQuote(inner, from) = close[from]
  BY Closing
<1> HIDE DEF esc, n, l
<1>5. /\ cut[0] = 0 /\ cut[n] = l
      /\ \A i \in 0 .. n : cut[i] \in 0 .. l
      /\ \A i \in 0 .. (n - 1) :
           IF NeedsEscape(chars[i + 1])
           THEN /\ cut[i + 1] = cut[i] + 2
                /\ esc[cut[i] + 1] = Mark("backslash") /\ esc[cut[i] + 2] = chars[i + 1]
           ELSE /\ cut[i + 1] = cut[i] + 1
                /\ esc[cut[i] + 1] = chars[i + 1]
  BY <1>3 DEF IsEscaped, n, l
<1> DEFINE T == {i \in 0 .. n : close[from + cut[i]] = from + l}
<1>6. ASSUME NEW i \in 0 .. n, \A j \in (i + 1) .. n : j \in T PROVE i \in T
  <2> DEFINE at == from + cut[i]
  <2>1. at \in from .. (m + 2) /\ at <= m /\ cut[i] \in 0 .. l
    <3> HIDE DEF m
    <3> QED
      BY <1>1, <1>5
  <2>2. close[at] = CloseStep(inner, close, at)
    BY <1>4, <2>1
  <2>3. close[at] = IF inner[at].kind = "quote" THEN at
                    ELSE IF inner[at].kind = "backslash" THEN close[at + 2] ELSE close[at + 1]
    BY <2>1, <2>2 DEF CloseStep
  <2> HIDE DEF m
  <2>4. CASE i = n
    BY <1>1, <1>2, <1>5, <2>3, <2>4
  <2>5. CASE i # n
    <3>1. i \in 0 .. (n - 1) /\ i + 1 \in (i + 1) .. n
      BY <1>1, <2>5
    <3>2. close[from + cut[i + 1]] = from + l /\ cut[i + 1] \in 0 .. l
      BY <1>5, <1>6, <3>1
    <3>3. cut[i] + 1 \in 1 .. l
      <4>1. cut[i + 1] = cut[i] + 1 \/ cut[i + 1] = cut[i] + 2
        BY <1>5, <3>1
      <4>2. cut[i] \in 0 .. l /\ cut[i + 1] \in 0 .. l /\ l \in Nat
        BY <1>1, <2>1, <3>2
      <4> HIDE DEF at, T
      <4> QED
        BY <4>1, <4>2
    <3>4. inner[at] = esc[cut[i] + 1]
      <4>1. from - 1 + (cut[i] + 1) = at
        BY <1>1, <2>1
      <4> QED
        BY <1>2, <3>3, <4>1
    <3>5. CASE NeedsEscape(chars[i + 1])
      <4>1. inner[at].kind = "backslash" /\ cut[i + 1] = cut[i] + 2
        BY <1>5, <3>1, <3>4, <3>5 DEF Mark
      <4>2. from + cut[i + 1] = at + 2
        BY <1>1, <2>1, <4>1
      <4> QED
        BY <2>3, <3>2, <4>1, <4>2
    <3>6. CASE ~NeedsEscape(chars[i + 1])
      <4>1. inner[at].kind # "backslash" /\ inner[at].kind # "quote" /\ cut[i + 1] = cut[i] + 1
        BY <1>5, <3>1, <3>4, <3>6 DEF NeedsEscape
      <4>2. from + cut[i + 1] = at + 1
        BY <1>1, <2>1, <4>1
      <4> QED
        BY <2>3, <3>2, <4>1, <4>2
    <3> QED
      BY <3>5, <3>6
  <2> QED
    BY <2>4, <2>5
<1>7. 0 \in T
  <2>1. 0 \in Int /\ n \in Int /\ 0 \in 0 .. n
    BY <1>1
  <2>2. \A i \in 0 .. n : i \in T
    <3> HIDE DEF T
    <3> QED
      BY <1>6, <2>1, FromTheEnd, Zenon
  <2> QED
    BY <2>1, <2>2
<1>8. close[from] = from + l
  BY <1>1, <1>5, <1>7
<1> QED
  BY <1>4, <1>8 DEF l, esc

\* Unescaping undoes escaping.
LEMMA Unescaped ==
  ASSUME NEW S, NEW chars \in Seq(S)
  PROVE  Unescape(Escaped(chars)) = chars
<1> DEFINE n == Len(chars)
           esc == Escaped(chars)
           l == Len(esc)
<1>1. n \in Nat /\ l \in Nat /\ esc \in Seq(MarkedWith(S))
  BY EscapedIs
<1>3. PICK cut : IsEscaped(chars, esc, cut)
  BY EscapedIs
<1> HIDE DEF esc
<1>4. PICK rest : /\ rest = [i \in 1 .. (l + 2) |-> RestStep(esc, rest, i)]
                  /\ Unescape(esc) = rest[1]
  BY <1>1, Unescaping
<1> HIDE DEF n, l
<1>5. /\ cut[0] = 0 /\ cut[n] = l
      /\ \A i \in 0 .. n : cut[i] \in 0 .. l
      /\ \A i \in 0 .. (n - 1) :
           IF NeedsEscape(chars[i + 1])
           THEN /\ cut[i + 1] = cut[i] + 2
                /\ esc[cut[i] + 1] = Mark("backslash") /\ esc[cut[i] + 2] = chars[i + 1]
           ELSE /\ cut[i + 1] = cut[i] + 1
                /\ esc[cut[i] + 1] = chars[i + 1]
  BY <1>3 DEF IsEscaped, n, l
<1> DEFINE T == {i \in 0 .. n : rest[cut[i] + 1] = SubSeq(chars, i + 1, n)}
<1>6. ASSUME NEW i \in 0 .. n, \A j \in (i + 1) .. n : j \in T PROVE i \in T
  <2> DEFINE at == cut[i] + 1
  <2>1. at \in 1 .. (l + 2) /\ cut[i] \in 0 .. l
    BY <1>1, <1>5
  <2>2. rest[at] = RestStep(esc, rest, at)
    BY <1>4, <2>1
  <2>4. CASE i = n
    <3>1. at > Len(esc)
      BY <1>1, <1>5, <2>4 DEF l
    <3>2. rest[at] = <<>>
      BY <2>2, <3>1 DEF RestStep
    <3>3. SubSeq(chars, i + 1, n) = <<>>
      BY <1>1, <2>4, SubSeqEmpty
    <3> QED
      BY <3>2, <3>3
  <2>5. CASE i # n
    <3>1. i \in 0 .. (n - 1) /\ i + 1 \in (i + 1) .. n /\ i + 1 \in 1 .. n /\ i + 1 + 1 = i + 2
      BY <1>1, <2>5
    <3>2. rest[cut[i + 1] + 1] = SubSeq(chars, i + 2, n) /\ cut[i + 1] \in 0 .. l
      BY <1>5, <1>6, <3>1
    <3>3. ~(at > Len(esc))
      <4>1. cut[i + 1] = cut[i] + 1 \/ cut[i + 1] = cut[i] + 2
        BY <1>5, <3>1
      <4> QED
        BY <1>1, <2>1, <3>2, <4>1, SMTT(60) DEF l
    <3>4. rest[at] = IF esc[at].kind = "backslash" THEN <<esc[at + 1]>> \o rest[at + 2]
                     ELSE <<esc[at]>> \o rest[at + 1]
      BY <2>2, <3>3 DEF RestStep
    <3>5. SubSeq(chars, i + 1, n) = <<chars[i + 1]>> \o SubSeq(chars, i + 2, n)
      <4>1. n \in (i + 1) .. Len(chars) /\ i + 1 \in 1 .. Len(chars)
        BY <1>1, <3>1 DEF n
      <4>2. SubSeq(chars, i + 1, n) = <<chars[i + 1]>> \o SubSeq(chars, i + 1 + 1, n)
        BY <4>1, SubSeqRecursiveFirst
      <4> QED
        BY <3>1, <4>2
    <3>6. CASE NeedsEscape(chars[i + 1])
      <4>1. esc[at].kind = "backslash" /\ cut[i + 1] = cut[i] + 2 /\ esc[cut[i] + 2] = chars[i + 1]
        BY <1>5, <3>1, <3>6 DEF Mark
      <4>2. cut[i + 1] + 1 = at + 2 /\ cut[i] + 2 = at + 1
        BY <1>1, <2>1, <4>1, SMTT(30)
      <4> QED
        BY <3>2, <3>4, <3>5, <4>1, <4>2
    <3>7. CASE ~NeedsEscape(chars[i + 1])
      <4>1. esc[at].kind # "backslash" /\ esc[at] = chars[i + 1] /\ cut[i + 1] = cut[i] + 1
        BY <1>5, <3>1, <3>7 DEF NeedsEscape
      <4>2. cut[i + 1] + 1 = at + 1
        BY <1>1, <2>1, <4>1
      <4> QED
        BY <3>2, <3>4, <3>5, <4>1, <4>2
    <3> QED
      BY <3>6, <3>7
  <2> QED
    BY <2>4, <2>5
<1>7. 0 \in T
  <2>1. 0 \in Int /\ n \in Int /\ 0 \in 0 .. n
    BY <1>1
  <2>2. \A i \in 0 .. n : i \in T
    <3> HIDE DEF T
    <3> QED
      BY <1>6, <2>1, FromTheEnd, Zenon
  <2> QED
    BY <2>1, <2>2
<1>8. rest[1] = SubSeq(chars, 1, n)
  BY <1>5, <1>7
<1> QED
  BY <1>4, <1>8, SubSeqFull DEF n, esc
----------------------------------------------------------------------------
(* Arrays: what the scanner takes                                         *)

\* The same in one word, for the provers.
Joined(S, s, t) ==
  /\ s \o t \in Seq(S)
  /\ Len(s \o t) = Len(s) + Len(t)
  /\ \A k \in 1 .. Len(s) : (s \o t)[k] = s[k]
  /\ \A k \in 1 .. Len(t) : (s \o t)[Len(s) + k] = t[k]

\* Two sequences are joined by what joins them.
LEMMA Joins ==
  ASSUME NEW S, NEW s \in Seq(S), NEW t \in Seq(S)
  PROVE  Joined(S, s, t)
BY After DEF Joined

\* A text between quotes: where its characters are.
LEMMA Between ==
  ASSUME NEW S, NEW q \in S, NEW r \in S, NEW s \in Seq(S)
  PROVE  LET out == <<q>> \o s \o <<r>>
         IN /\ out \in Seq(S) /\ Len(out) = Len(s) + 2 /\ out[1] = q /\ out[Len(s) + 2] = r
            /\ \A k \in 1 .. Len(s) : out[1 + k] = s[k]
<1> DEFINE a == <<q>>
           b == <<r>>
           u == a \o s
           out == u \o b
<1>1. /\ a \in Seq(S) /\ Len(a) = 1 /\ a[1] = q /\ 1 \in 1 .. Len(a)
      /\ b \in Seq(S) /\ Len(b) = 1 /\ b[1] = r /\ 1 \in 1 .. Len(b)
      /\ Len(s) \in Nat
  OBVIOUS
<1> HIDE DEF a, b
<1>2. /\ u \in Seq(S) /\ Len(u) = Len(a) + Len(s)
      /\ \A k \in 1 .. Len(a) : u[k] = a[k]
      /\ \A k \in 1 .. Len(s) : u[Len(a) + k] = s[k]
  <2>1. a \in Seq(S)
    BY <1>1
  <2>2. Joined(S, a, s)
    BY <2>1, Joins
  <2> QED
    BY <2>2 DEF Joined
<1> HIDE DEF u
<1>3. /\ out \in Seq(S) /\ Len(out) = Len(u) + Len(b)
      /\ \A k \in 1 .. Len(u) : out[k] = u[k]
      /\ \A k \in 1 .. Len(b) : out[Len(u) + k] = b[k]
  <2>1. u \in Seq(S) /\ b \in Seq(S)
    BY <1>1, <1>2
  <2>2. Joined(S, u, b)
    BY <2>1, Joins
  <2> QED
    BY <2>2 DEF Joined
<1> HIDE DEF out
<1>4. Len(out) = Len(s) + 2 /\ out[Len(s) + 2] = r /\ Len(u) = 1 + Len(s)
  <2>1. Len(u) = 1 + Len(s) /\ Len(u) + 1 = Len(s) + 2
    BY <1>1, <1>2
  <2>2. out[Len(u) + 1] = b[1]
    BY <1>1, <1>3
  <2> QED
    BY <1>1, <1>3, <2>1, <2>2
<1>5. out[1] = q
  <2>1. 1 \in 1 .. Len(u) /\ u[1] = a[1]
    BY <1>1, <1>2, <1>4
  <2> QED
    BY <1>1, <1>3, <2>1
<1>6. ASSUME NEW k \in 1 .. Len(s) PROVE out[1 + k] = s[k]
  <2>1. 1 + k \in 1 .. Len(u) /\ u[1 + k] = s[k]
    BY <1>1, <1>2, <1>4
  <2> QED
    BY <1>3, <2>1
<1> QED
  BY <1>3, <1>4, <1>5, <1>6 DEF out, u, a, b

\* A sequence stands in another at a place.
StandsAt(inner, at, part) ==
  /\ at - 1 + Len(part) <= Len(inner)
  /\ \A k \in 1 .. Len(part) : inner[at - 1 + k] = part[k]

\* The same, from a place to another.
Spans(inner, a, b, part) == a >= 1 /\ b = a - 1 + Len(part) /\ StandsAt(inner, a, part)

\* What scanElement cuts out between two places is the part that stands there.
LEMMA Slice ==
  ASSUME NEW R, NEW inner \in Seq(R), NEW S, NEW part \in Seq(S), NEW a \in Int, NEW b \in Int,
         Spans(inner, a, b, part)
  PROVE  SubSeq(inner, a, b) = part
<1> DEFINE n == Len(part)
           m == Len(inner)
           cut == SubSeq(inner, a, b)
<1>1. /\ n \in Nat /\ m \in Nat /\ b <= m
      /\ \A k \in 1 .. n : inner[a - 1 + k] = part[k]
      /\ a >= 1 /\ b = a - 1 + n
  BY DEF StandsAt, Spans
<1>2. \A i \in a .. b : inner[i] \in R
  BY <1>1
<1> HIDE DEF n, m
<1>3. /\ cut \in Seq(R) /\ Len(cut) = IF a <= b THEN b - a + 1 ELSE 0
      /\ \A i \in 1 .. b - a + 1 : cut[i] = inner[a + i - 1]
  BY <1>2, SubSeqProperties
<1> HIDE DEF cut
<1>4. b - a + 1 = n
  BY <1>1 DEF n
<1>5. Len(cut) = n
  BY <1>1, <1>3, <1>4
<1>6. ASSUME NEW i \in 1 .. n PROVE cut[i] = part[i]
  <2>1. a + i - 1 = a - 1 + i
    OBVIOUS
  <2> QED
    BY <1>1, <1>3, <1>4, <2>1
<1> QED
  BY <1>3, <1>5, <1>6 DEF n, cut

\* What a server prints of an element.
Quoted(text) == text = <<>> \/ ReadsNull(text) \/ \E i \in DOMAIN text : text[i].kind \in Special
\* The characters of what is printed of texts.
Printables(S) == S \cup {Mark("NULL"), Mark("quote"), Mark("backslash")}

\* What is printed of an element: NULL, the text, or the escaped text in quotes.
LEMMA OutIs ==
  ASSUME NEW S, NEW v \in {Null} \cup [text : Seq(S)]
  PROVE  /\ ElementOut(v) \in Seq(Printables(S)) /\ Len(ElementOut(v)) \in Nat \ {0}
         /\ v = Null => ElementOut(v) = <<Mark("NULL")>>
         /\ v # Null => /\ v.text \in Seq(S) /\ v = [text |-> v.text]
                        /\ ElementOut(v) = IF Quoted(v.text)
                             THEN <<Mark("quote")>> \o Escaped(v.text) \o <<Mark("quote")>>
                             ELSE v.text
<1> DEFINE A == Printables(S)
<1>1. Mark("quote") \in A /\ Mark("NULL") \in A /\ S \subseteq A /\ MarkedWith(S) \subseteq A
  BY DEF Printables, MarkedWith
<1>2. CASE v = Null
  <2>1. ElementOut(v) = <<Mark("NULL")>>
    BY <1>2 DEF ElementOut
  <2> HIDE DEF A
  <2> QED
    BY <1>1, <1>2, <2>1 DEF A
<1>3. CASE v # Null
  <2>1. v.text \in Seq(S) /\ v = [text |-> v.text]
    BY <1>3
  <2>2. ElementOut(v) = IF Quoted(v.text)
                        THEN <<Mark("quote")>> \o Escaped(v.text) \o <<Mark("quote")>>
                        ELSE v.text
    BY <1>3 DEF ElementOut, Quoted
  <2>3. CASE Quoted(v.text)
    <3>1. Escaped(v.text) \in Seq(A)
      <4>1. Escaped(v.text) \in Seq(MarkedWith(S))
        BY <2>1, EscapedIs
      <4> HIDE DEF A
      <4> QED
        BY <1>1, <4>1, SeqMonotonic
    <3> HIDE DEF A
    <3>2. LET out == <<Mark("quote")>> \o Escaped(v.text) \o <<Mark("quote")>>
          IN out \in Seq(A) /\ Len(out) = Len(Escaped(v.text)) + 2
      BY <1>1, <3>1, Between
    <3>3. Len(Escaped(v.text)) \in Nat
      BY <3>1
    <3> QED
      BY <1>3, <2>1, <2>2, <2>3, <3>2, <3>3 DEF A
  <2>4. CASE ~Quoted(v.text)
    <3>1. v.text \in Seq(A)
      <4> HIDE DEF A
      <4> QED
        BY <1>1, <2>1, SeqMonotonic
    <3>2. v.text # <<>>
      BY <2>4 DEF Quoted
    <3> QED
      BY <1>3, <2>1, <2>2, <2>4, <3>1, <3>2
  <2> QED
    BY <2>3, <2>4
<1> QED
  BY <1>2, <1>3

\* An escaped text in quotes.
Enclosed(text) == <<Mark("quote")>> \o Escaped(text) \o <<Mark("quote")>>

\* The scanner takes the value v from the part out, and stops behind it.
Takes(inner, at, v, out) == scanElement(inner, at) = [value |-> v, next |-> at + Len(out)]

\* The scanner reads what stands in quotes, and stops behind the closing one.
LEMMA ScannedQuoted ==
  ASSUME NEW S, NEW R, NEW text \in Seq(S), NEW inner \in Seq(R), NEW at \in 1 .. Len(inner),
         StandsAt(inner, at, Enclosed(text))
  PROVE  Takes(inner, at, [text |-> text], Enclosed(text))
<1> DEFINE out == Enclosed(text)
           esc == Escaped(text)
           l == Len(esc)
           n == Len(out)
           m == Len(inner)
<1>1. esc \in Seq(MarkedWith(S)) /\ l \in Nat
  BY EscapedIs
<1>2. /\ n = l + 2 /\ out[1] = Mark("quote") /\ out[l + 2] = Mark("quote")
      /\ \A k \in 1 .. l : out[1 + k] = esc[k]
  <2>1. esc \in Seq(Printables(S)) /\ Mark("quote") \in Printables(S)
    <3>1. MarkedWith(S) \subseteq Printables(S)
      BY DEF MarkedWith, Printables
    <3> QED
      BY <1>1, <3>1, SeqMonotonic DEF Printables
  <2>2. out = <<Mark("quote")>> \o esc \o <<Mark("quote")>>
    BY DEF Enclosed
  <2> HIDE DEF esc, out
  <2> QED
    BY <2>1, <2>2, Between
<1>3. /\ at - 1 + n <= m /\ \A k \in 1 .. n : inner[at - 1 + k] = out[k]
  BY DEF StandsAt
<1>4. m \in Nat /\ at \in Nat /\ at >= 1 /\ l \in Nat /\ n \in Nat /\ n = l + 2 /\ at - 1 + n <= m
  BY <1>1, <1>2, <1>3
<1> HIDE DEF esc, l, n, m, out
<1>5. /\ at <= m /\ at + 1 \in 1 .. m /\ at + 1 + l <= m /\ at + 1 + l # 0 /\ at + 1 + l + 1 = at + n
      /\ 1 \in 1 .. n /\ l + 2 \in 1 .. n /\ at - 1 + 1 = at /\ at - 1 + (l + 2) = at + 1 + l
      /\ \A k \in 1 .. l : 1 + k \in 1 .. n /\ at - 1 + (1 + k) = at + 1 - 1 + k
  BY <1>4
<1>6. inner[at].kind = "quote" /\ inner[at + 1 + l].kind = "quote"
  <2>1. inner[at] = Mark("quote") /\ inner[at + 1 + l] = Mark("quote")
    BY <1>2, <1>3, <1>5
  <2> QED
    BY <2>1 DEF Mark
<1>7. \A k \in 1 .. l : inner[at + 1 - 1 + k] = esc[k]
  BY <1>2, <1>3, <1>5
<1>8. ClosingQuote(inner, at + 1) = at + 1 + l
  <2>1. ClosedBehind(inner, at + 1, esc)
    BY <1>5, <1>6, <1>7 DEF l, m, ClosedBehind
  <2>2. at + 1 \in 1 .. Len(inner)
    BY <1>5 DEF m
  <2> QED
    BY <2>1, <2>2, ClosedAfter DEF l, esc
<1> DEFINE c == ClosingQuote(inner, at + 1)
           f == at + 1
           b == c - 1
<1>9. SubSeq(inner, f, b) = esc
  <2>1. f \in Int /\ f >= 1 /\ b \in Int /\ b = f - 1 + l /\ b <= m /\ at + 1 - 1 = f - 1
    BY <1>4, <1>8
  <2> HIDE DEF c, b
  <2>2. Spans(inner, f, b, esc)
    <3>1. f - 1 + l <= m /\ \A k \in 1 .. l : inner[f - 1 + k] = esc[k]
      BY <1>7, <2>1
    <3> QED
      BY <2>1, <3>1 DEF Spans, StandsAt, l, m
  <2> HIDE DEF f
  <2> QED
    BY <1>1, <2>1, <2>2, Slice DEF l
<1>10. ~(at > Len(inner)) /\ c # 0 /\ c + 1 = at + n
  BY <1>4, <1>5, <1>8 DEF m
<1>11. scanElement(inner, at) = [value |-> [text |-> Unescape(SubSeq(inner, f, b))], next |-> c + 1]
  <2>1. at + 1 = f /\ c - 1 = b
    OBVIOUS
  <2> QED
    BY <1>6, <1>10 DEF scanElement
<1>12. Unescape(esc) = text
  BY Unescaped DEF esc
<1> QED
  BY <1>9, <1>10, <1>11, <1>12 DEF n, Takes, out

\* What follows a part of a sequence: nothing, or a comma.
Followed(inner, at, part) ==
  at + Len(part) = Len(inner) + 1 \/ inner[at + Len(part)].kind = ","

\* The scanner reads an element that is followed by a comma or by the end.
LEMMA ScannedOut ==
  ASSUME NEW S, NEW R, NEW v \in {Null} \cup [text : Seq(S)],
         NEW inner \in Seq(R), NEW at \in 1 .. Len(inner), StandsAt(inner, at, ElementOut(v)),
         Followed(inner, at, ElementOut(v))
  PROVE  Takes(inner, at, v, ElementOut(v))
<1> DEFINE out == ElementOut(v)
           n == Len(out)
           m == Len(inner)
           end == at - 1 + n
           run == SubSeq(inner, at, RunEnd(inner, at))
<1>1. /\ n \in Nat \ {0} /\ m \in Nat /\ at \in 1 .. m /\ end <= m /\ out \in Seq(Printables(S))
      /\ \A k \in 1 .. n : inner[at - 1 + k] = out[k]
  <2>1. n \in Nat \ {0} /\ out \in Seq(Printables(S))
    BY OutIs
  <2>2. m \in Nat /\ at \in 1 .. m
    OBVIOUS
  <2>3. end <= m /\ \A k \in 1 .. n : inner[at - 1 + k] = out[k]
    BY DEF StandsAt
  <2> QED
    BY <2>1, <2>2, <2>3
<1> HIDE DEF out, n, m
<1>2. inner[at] = out[1]
  <2>1. 1 \in 1 .. n /\ at - 1 + 1 = at
    BY <1>1
  <2> QED
    BY <1>1, <2>1
<1>3. end \in Int /\ end \in (at - 1) .. m /\ end + 1 = at + n /\ at \in Nat
  BY <1>1
<1>4. ASSUME \A k \in 1 .. n : out[k].kind \notin Special
      PROVE  RunEnd(inner, at) = end /\ run = out
  <2>1. ASSUME NEW i \in at .. end PROVE inner[i].kind \notin Special
    <3>1. i - at + 1 \in 1 .. n /\ at - 1 + (i - at + 1) = i
      BY <1>1, <1>3
    <3> QED
      BY <1>1, <1>4, <3>1
  <2>2. end = m \/ inner[end + 1].kind \in Special
    <3>1. CASE at + n = m + 1
      BY <1>1, <3>1
    <3>2. CASE inner[at + n].kind = ","
      <4>1. inner[end + 1] = inner[at + n]
        BY <1>3
      <4> QED
        BY <3>2, <4>1 DEF Special
    <3> QED
      BY <3>1, <3>2 DEF Followed, out, n, m
  <2> HIDE DEF end
  <2>3. RunEnd(inner, at) = end
    BY <1>3, <2>1, <2>2, RunEndIs DEF m
  <2>5. SubSeq(inner, at, end) = out
    <3>1. at \in Int /\ Spans(inner, at, end, out)
      BY <1>1 DEF out, end, n, Spans
    <3> QED
      BY <1>1, <1>3, <3>1, Slice
  <2> QED
    BY <2>3, <2>5
<1>5. CASE v = Null
  <2>1. out = <<Mark("NULL")>>
    BY <1>5, OutIs DEF out
  <2>2. /\ out[1].kind = "NULL" /\ n = 1 /\ ReadsNull(out) /\ out # <<>>
        /\ \A k \in 1 .. n : out[k].kind \notin Special
    <3>1. n = 1 /\ out[1] = Mark("NULL") /\ out # <<>>
      BY <2>1 DEF n
    <3>2. Mark("NULL").kind = "NULL"
      BY DEF Mark
    <3>3. \A k \in 1 .. n : k = 1
      BY <3>1
    <3>4. "NULL" \notin Special
      BY DEF Special
    <3> QED
      BY <3>1, <3>2, <3>3, <3>4 DEF n, ReadsNull
  <2>3. RunEnd(inner, at) = end /\ run = out
    BY <1>4, <2>2
  <2>4. inner[at].kind # "quote" /\ ~(at > Len(inner))
    BY <1>1, <1>2, <2>2 DEF m
  <2>5. scanElement(inner, at) = [value |-> Null, next |-> RunEnd(inner, at) + 1]
    BY <2>2, <2>3, <2>4 DEF scanElement
  <2> QED
    BY <1>3, <1>5, <2>3, <2>5 DEF n, out, Takes
<1>6. CASE v # Null /\ ~Quoted(v.text)
  <2>1. out = v.text /\ v = [text |-> out] /\ DOMAIN out = 1 .. n /\ out # <<>>
    BY <1>1, <1>6, OutIs DEF out, n, Quoted
  <2>2. ~ReadsNull(out) /\ \A k \in 1 .. n : out[k].kind \notin Special
    BY <1>6, <2>1 DEF Quoted
  <2>3. RunEnd(inner, at) = end /\ run = out
    BY <1>4, <2>2
  <2>4. inner[at].kind # "quote" /\ ~(at > Len(inner))
    <3>1. 1 \in 1 .. n
      BY <1>1
    <3>2. inner[at].kind \notin Special
      BY <1>2, <2>2, <3>1
    <3>3. ~(at > Len(inner))
      BY <1>1 DEF m
    <3> QED
      BY <3>2, <3>3 DEF Special
  <2>5. scanElement(inner, at) = [value |-> [text |-> run], next |-> RunEnd(inner, at) + 1]
    BY <2>1, <2>2, <2>3, <2>4 DEF scanElement
  <2> QED
    BY <1>3, <2>1, <2>3, <2>5 DEF n, out, Takes
<1>7. CASE v # Null /\ Quoted(v.text)
  <2>1. v.text \in Seq(S) /\ v = [text |-> v.text]
        /\ ElementOut(v) = <<Mark("quote")>> \o Escaped(v.text) \o <<Mark("quote")>>
    BY <1>7, OutIs
  <2>2. scanElement(inner, at) = [value |-> [text |-> v.text], next |-> at + Len(ElementOut(v))]
    <3>1. Takes(inner, at, [text |-> v.text], Enclosed(v.text))
      <4>1. StandsAt(inner, at, Enclosed(v.text)) /\ v.text \in Seq(S)
        BY <2>1 DEF Enclosed
      <4> QED
        BY <4>1, ScannedQuoted
    <3> QED
      BY <2>1, <3>1 DEF Takes, Enclosed
  <2> QED
    BY <2>1, <2>2 DEF n, out, Takes
<1> QED
  BY <1>5, <1>6, <1>7
----------------------------------------------------------------------------
(* Arrays: where the elements stand                                       *)

\* What an array of texts holds, and the characters it is printed in.
Elements(S) == {Null} \cup [text : Seq(S)]
OutChars(S) == Printables(S) \cup {Mark(",")}
\* Every element but the first has a comma before it.
Skip(i) == IF i = 1 THEN 0 ELSE 1
\* What is printed of the element i, of all of them, and inside of the braces.
OutPart(values, i) == (IF i = 1 THEN <<>> ELSE <<Mark(",")>>) \o ElementOut(values[i])
OutParts(values) == [i \in DOMAIN values |-> OutPart(values, i)]
Inside(values) == FlattenSeq(OutParts(values))

\* The part of an element: a comma, but before the first one, and what is printed.
PartIs(part, out, i, S) ==
  /\ part \in Seq(OutChars(S)) /\ Len(part) = Skip(i) + Len(out)
  /\ \A k \in 1 .. Len(out) : part[Skip(i) + k] = out[k]
  /\ i # 1 => part[1] = Mark(",")

\* array_out prints an element behind a comma, the first one without.
LEMMA PartOfOne ==
  ASSUME NEW S, NEW values \in Seq(Elements(S)), NEW i \in 1 .. Len(values)
  PROVE  PartIs(OutPart(values, i), ElementOut(values[i]), i, S)
<1> DEFINE out == ElementOut(values[i])
           a == IF i = 1 THEN <<>> ELSE <<Mark(",")>>
           Q == OutChars(S)
<1>1. out \in Seq(Q)
  <2>1. values[i] \in {Null} \cup [text : Seq(S)]
    BY DEF Elements
  <2>2. out \in Seq(Printables(S))
    BY <2>1, OutIs
  <2>3. Printables(S) \subseteq Q
    BY DEF OutChars
  <2> HIDE DEF out, Q
  <2> QED
    BY <2>2, <2>3, SeqMonotonic
<1>2. a \in Seq(Q) /\ Len(a) = Skip(i) /\ (i # 1 => a[1] = Mark(",") /\ 1 \in 1 .. Len(a))
  <2>1. Mark(",") \in Q
    BY DEF OutChars
  <2> HIDE DEF Q
  <2>2. CASE i = 1
    <3>1. a = <<>> /\ Skip(i) = 0
      BY <2>2 DEF Skip
    <3> HIDE DEF a
    <3> QED
      BY <2>2, <3>1
  <2>3. CASE i # 1
    <3>1. a = <<Mark(",")>> /\ Skip(i) = 1
      BY <2>3 DEF Skip
    <3> HIDE DEF a
    <3> DEFINE c == Mark(",")
    <3>2. a = <<c>> /\ c \in Q
      BY <2>1, <3>1
    <3> HIDE DEF c
    <3>3. Len(a) = 1 /\ a[1] = c /\ 1 \in 1 .. Len(a) /\ a \in Seq(Q)
      BY <3>2
    <3> QED
      BY <3>1, <3>3 DEF c
  <2> QED
    BY <2>2, <2>3
<1> HIDE DEF out, a, Q
<1>3. Joined(Q, a, out)
  <2>1. a \in Seq(Q)
    BY <1>2
  <2> QED
    BY <1>1, <2>1, Joins
<1>4. PartIs(a \o out, out, i, S)
  <2>1. a \o out \in Seq(Q) /\ Len(a \o out) = Skip(i) + Len(out)
    BY <1>2, <1>3 DEF Joined
  <2>2. \A k \in 1 .. Len(out) : (a \o out)[Skip(i) + k] = out[k]
    BY <1>2, <1>3 DEF Joined
  <2>3. i # 1 => (a \o out)[1] = Mark(",")
    BY <1>2, <1>3 DEF Joined
  <2> QED
    BY <2>1, <2>2, <2>3 DEF PartIs, Q
<1> QED
  BY <1>4 DEF a, out, OutPart

\* A part of a sequence lies between two cuts.
PartAt(inner, before, after, part) ==
  /\ after = before + Len(part) /\ after <= Len(inner)
  /\ \A k \in 1 .. Len(part) : inner[before + k] = part[k]

\* The element of a part, when the part stands between two cuts.
PlaceAt(inner, a, before, after, out, i) ==
  /\ a = before + Skip(i) + 1 /\ a \in 1 .. Len(inner) /\ a + Len(out) = after + 1
  /\ StandsAt(inner, a, out)
  /\ i # 1 => inner[before + 1] = Mark(",")

\* Nothing is printed as nothing: an empty text is printed in quotes.
Filled(out) == Len(out) \in Nat \ {0}

\* An element stands behind its comma, wherever its part stands.
LEMMA OnePlace ==
  ASSUME NEW S, NEW Q, NEW inner \in Seq(Q), NEW before \in Nat, NEW after \in Nat, NEW part,
         NEW out, Filled(out), NEW i, PartIs(part, out, i, S),
         PartAt(inner, before, after, part)
  PROVE  PlaceAt(inner, before + Skip(i) + 1, before, after, out, i)
<1> DEFINE s == Skip(i)
           l == Len(out)
           n == Len(part)
           m == Len(inner)
           a == before + s + 1
<1>0. s \in 0 .. 1 /\ l \in Nat /\ l >= 1 /\ m \in Nat /\ before \in Nat
  <2>1. s \in 0 .. 1
    BY DEF Skip
  <2>2. l \in Nat \ {0}
    BY DEF Filled
  <2>3. m \in Nat
    OBVIOUS
  <2> HIDE DEF s, l, n, m, a
  <2> QED
    BY <2>1, <2>2, <2>3
<1>1. n = s + l
  BY DEF PartIs
<1>2. \A k \in 1 .. l : part[s + k] = out[k]
  BY DEF PartIs
<1>3. after = before + n /\ after <= m
  BY DEF PartAt
<1>a. \A k \in 1 .. n : inner[before + k] = part[k]
  BY DEF PartAt
<1>b. i # 1 => part[1] = Mark(",")
  BY DEF PartIs
<1> HIDE DEF s, l, n, m
<1>c. a \in 1 .. m /\ a + l = after + 1 /\ a - 1 + l <= m /\ 1 \in 1 .. n
  BY <1>0, <1>1, <1>3
<1>4. ASSUME NEW k \in 1 .. l PROVE inner[a - 1 + k] = out[k]
  <2>1. s + k \in 1 .. n /\ before + (s + k) = a - 1 + k
    BY <1>0, <1>1
  <2>2. inner[before + (s + k)] = part[s + k]
    BY <1>a, <2>1
  <2> QED
    BY <1>2, <2>1, <2>2
<1> HIDE DEF a
<1>5. StandsAt(inner, a, out)
  BY <1>c, <1>4 DEF StandsAt, l, m
<1>6. i # 1 => inner[before + 1] = Mark(",")
  BY <1>a, <1>b, <1>c
<1> QED
  BY <1>c, <1>5, <1>6 DEF PlaceAt, a, s, l, m

\* Parts that are laid one after the other stand between cuts.
LEMMA CutUp ==
  ASSUME NEW Q, NEW ss \in Seq(Seq(Q))
  PROVE  /\ FlattenSeq(ss) \in Seq(Q)
         /\ \E cut \in [0 .. Len(ss) -> Nat] :
              /\ cut[0] = 0 /\ cut[Len(ss)] = Len(FlattenSeq(ss))
              /\ \A i \in 1 .. Len(ss) : PartAt(FlattenSeq(ss), cut[i - 1], cut[i], ss[i])
<1> DEFINE flat == FlattenSeq(ss)
<1>1. flat \in Seq(Q)
  BY Laid, ZenonT(60)
<1>2. PICK cut \in [0 .. Len(ss) -> Nat] :
              /\ cut[0] = 0 /\ cut[Len(ss)] = Len(flat)
              /\ \A i \in 1 .. Len(ss) :
                   /\ cut[i] = cut[i - 1] + Len(ss[i]) /\ cut[i] <= Len(flat)
                   /\ \A k \in 1 .. Len(ss[i]) : flat[cut[i - 1] + k] = ss[i][k]
  BY Laid, ZenonT(60)
<1> HIDE DEF flat
<1>3. ASSUME NEW i \in 1 .. Len(ss) PROVE PartAt(flat, cut[i - 1], cut[i], ss[i])
  BY <1>2 DEF PartAt
<1> QED
  BY <1>1, <1>2, <1>3 DEF flat

\* Where the elements of an array stand in what is printed of them: each is
\* followed by a comma and the next one, or by the end.
FollowsIn(inner, a, out, i, n, next) ==
  IF i = n THEN a + Len(out) = Len(inner) + 1
  ELSE next = a + Len(out) + 1 /\ inner[a + Len(out)].kind = ","

\* The places are one for each element, and lead from the first to the end.
PlacesOf(values, inner, at) ==
  /\ at[1] = 1
  /\ \A i \in 1 .. Len(values) :
       /\ at[i] \in 1 .. Len(inner)
       /\ StandsAt(inner, at[i], ElementOut(values[i]))
       /\ FollowsIn(inner, at[i], ElementOut(values[i]), i, Len(values), at[i + 1])

\* There are such places in all that array_out prints.
LEMMA PlacesFound ==
  ASSUME NEW S, NEW values \in Seq(Elements(S)), Len(values) # 0
  PROVE  /\ Inside(values) \in Seq(OutChars(S)) /\ Inside(values) # <<>>
         /\ \E at : PlacesOf(values, Inside(values), at)
<1> DEFINE n == Len(values)
           ss == OutParts(values)
           inner == Inside(values)
           Q == OutChars(S)
           out == [i \in 1 .. n |-> ElementOut(values[i])]
<1>1. n \in Nat /\ n >= 1 /\ 1 \in 1 .. n /\ n \in 1 .. n
  OBVIOUS
<1>2. /\ ss \in Seq(Seq(Q)) /\ Len(ss) = n
      /\ \A i \in 1 .. n : PartIs(ss[i], out[i], i, S) /\ Filled(out[i])
                           /\ out[i] = ElementOut(values[i])
  <2>1. ASSUME NEW i \in 1 .. n
        PROVE  /\ OutPart(values, i) \in Seq(Q)
               /\ PartIs(OutPart(values, i), out[i], i, S) /\ Filled(out[i])
               /\ out[i] = ElementOut(values[i])
    <3>1. PartIs(OutPart(values, i), ElementOut(values[i]), i, S)
      BY PartOfOne
    <3>2. values[i] \in {Null} \cup [text : Seq(S)]
      BY DEF Elements
    <3>3. Len(ElementOut(values[i])) \in Nat \ {0}
      BY <3>2, OutIs
    <3> QED
      BY <3>1, <3>3 DEF PartIs, Filled
  <2>2. DOMAIN values = 1 .. n
    OBVIOUS
  <2> HIDE DEF Q, n, out
  <2>3. ss = [i \in 1 .. n |-> OutPart(values, i)]
    BY <2>2 DEF OutParts
  <2>4. ss \in [1 .. n -> Seq(Q)]
    BY <2>1, <2>3
  <2> QED
    BY <1>1, <2>1, <2>3, <2>4
<1> HIDE DEF ss, Q, out
<1>4. /\ inner \in Seq(Q)
      /\ \E cut \in [0 .. n -> Nat] :
           /\ cut[0] = 0 /\ cut[n] = Len(inner)
           /\ \A i \in 1 .. n : PartAt(inner, cut[i - 1], cut[i], ss[i])
  <2>1. inner = FlattenSeq(ss)
    BY DEF Inside, ss
  <2> HIDE DEF inner, n
  <2> QED
    BY <1>2, <2>1, CutUp
<1>5. PICK cut \in [0 .. n -> Nat] :
        /\ cut[0] = 0 /\ cut[n] = Len(inner)
        /\ \A i \in 1 .. n : PartAt(inner, cut[i - 1], cut[i], ss[i])
  BY <1>4
<1> HIDE DEF inner, n
<1> DEFINE at == [i \in 1 .. n |-> cut[i - 1] + Skip(i) + 1]
<1>6. ASSUME NEW i \in 1 .. n
      PROVE  /\ at[i] \in Int /\ cut[i] \in Nat
             /\ PlaceAt(inner, at[i], cut[i - 1], cut[i], out[i], i)
  <2>1. i - 1 \in 0 .. n /\ i \in 0 .. n
    BY <1>1
  <2>2. cut[i - 1] \in Nat /\ cut[i] \in Nat
    BY <2>1
  <2> DEFINE c == cut[i - 1]
             d == cut[i]
             o == out[i]
             p == ss[i]
  <2>3. c \in Nat /\ d \in Nat /\ PartAt(inner, c, d, p) /\ PartIs(p, o, i, S) /\ Filled(o)
        /\ at[i] = c + Skip(i) + 1
    BY <1>2, <1>5, <2>2
  <2> HIDE DEF c, d, o, p, at
  <2>4. PlaceAt(inner, c + Skip(i) + 1, c, d, o, i)
    BY <1>4, <2>3, OnePlace
  <2>5. Skip(i) \in Int
    BY DEF Skip
  <2> QED
    BY <2>3, <2>4, <2>5 DEF c, d, o
<1>7. at[1] = 1
  <2>1. at[1] = cut[0] + Skip(1) + 1 /\ Skip(1) = 0
    BY <1>1 DEF Skip
  <2> QED
    BY <1>5, <2>1
<1> HIDE DEF at
<1>8. ASSUME NEW i \in 1 .. n
      PROVE  /\ at[i] \in 1 .. Len(inner)
             /\ StandsAt(inner, at[i], out[i])
             /\ FollowsIn(inner, at[i], out[i], i, n, at[i + 1])
  <2> DEFINE a == at[i]
             d == cut[i]
             l == Len(out[i])
             m == Len(inner)
  <2>1. a \in 1 .. m /\ StandsAt(inner, a, out[i]) /\ a + l = d + 1 /\ l \in Nat /\ d \in Nat /\ m \in Nat
    <3>1. PlaceAt(inner, a, cut[i - 1], d, out[i], i)
      BY <1>6
    <3>2. a \in 1 .. m /\ StandsAt(inner, a, out[i]) /\ a + l = d + 1
      BY <3>1 DEF PlaceAt
    <3>3. Filled(out[i]) /\ d \in Nat
      BY <1>2, <1>6
    <3>4. l \in Nat
      BY <3>3 DEF Filled
    <3>5. m \in Nat
      BY <1>4
    <3> QED
      BY <3>2, <3>3, <3>4, <3>5
  <2>2. CASE i = n
    <3>1. d = m
      BY <1>5, <2>2
    <3> QED
      BY <2>1, <2>2, <3>1 DEF FollowsIn
  <2>3. CASE i # n
    <3> DEFINE j == i + 1
               b == at[j]
    <3>1. j \in 1 .. n /\ j # 1 /\ j - 1 = i
      BY <1>1, <2>3
    <3>2. PlaceAt(inner, b, d, cut[j], out[j], j)
      BY <1>6, <3>1
    <3> HIDE DEF j, a, d, l, b
    <3>3. b = d + 1 + 1 /\ inner[d + 1] = Mark(",")
      BY <3>1, <3>2 DEF PlaceAt, Skip
    <3>4. b = a + l + 1 /\ inner[a + l].kind = ","
      <4>1. b = a + l + 1 /\ d + 1 = a + l
        BY <2>1, <3>3
      <4>2. Mark(",").kind = ","
        BY DEF Mark
      <4> QED
        BY <3>3, <4>1, <4>2
    <3>5. FollowsIn(inner, a, out[i], i, n, b)
      BY <2>3, <3>4 DEF FollowsIn, l
    <3> QED
      BY <2>1, <3>5 DEF j, a, b
  <2> QED
    BY <2>1, <2>2, <2>3
<1>9. PlacesOf(values, inner, at)
  <2>1. \A i \in 1 .. n : /\ at[i] \in 1 .. Len(inner)
                          /\ StandsAt(inner, at[i], ElementOut(values[i]))
                          /\ FollowsIn(inner, at[i], ElementOut(values[i]), i, n, at[i + 1])
    BY <1>2, <1>8
  <2> QED
    BY <1>7, <2>1 DEF PlacesOf, n
<1>10. inner # <<>>
  <2>1. 1 \in 1 .. Len(inner)
    BY <1>1, <1>7, <1>8
  <2> QED
    BY <2>1
<1> QED
  BY <1>4, <1>9, <1>10 DEF inner, Q

\* The scanner is at the element i: what comes there is the rest of the values.
LEMMA ElementsRead ==
  ASSUME NEW S, NEW values \in Seq(Elements(S)), Len(values) # 0
  PROVE  ElementsOf(Inside(values)) = [elements |-> values]
<1> DEFINE n == Len(values)
           inner == Inside(values)
           m == Len(inner)
           E == Elements(S)
<1>1. n \in Nat /\ n >= 1 /\ 1 \in 1 .. n
  OBVIOUS
<1>2. inner \in Seq(OutChars(S)) /\ inner # <<>> /\ \E at : PlacesOf(values, inner, at)
  BY PlacesFound
<1>3. PICK at : PlacesOf(values, inner, at)
  BY <1>2
<1> HIDE DEF inner
<1>4. PICK split : /\ split = [k \in 1 .. (m + 2) |-> SplitStep(inner, split, k)]
                   /\ ElementsOf(inner) = split[1]
  BY <1>2, Splitting
<1>m. m \in Nat
  BY <1>2
<1>5. /\ at[1] = 1
      /\ \A i \in 1 .. n :
           /\ at[i] \in 1 .. m
           /\ StandsAt(inner, at[i], ElementOut(values[i]))
           /\ FollowsIn(inner, at[i], ElementOut(values[i]), i, n, at[i + 1])
  BY <1>3 DEF PlacesOf
<1> HIDE DEF n, m, E
<1> DEFINE rest(i) == SubSeq(values, i, n)
           T == {i \in 1 .. n : split[at[i]] = [elements |-> rest(i)]}
<1>6. ASSUME NEW i \in 1 .. n, \A j \in (i + 1) .. n : j \in T
      PROVE  i \in T
  <2> DEFINE a == at[i]
             v == values[i]
             out == ElementOut(v)
             next == a + Len(out)
             e == scanElement(inner, a)
  <2>1. v \in {Null} \cup [text : Seq(S)]
    BY DEF Elements, n
  <2>2. a \in 1 .. m /\ StandsAt(inner, a, out) /\ FollowsIn(inner, a, out, i, n, at[i + 1])
    BY <1>5
  <2>3. Len(out) \in Nat \ {0}
    BY <2>1, OutIs
  <2> HIDE DEF v, a
  <2>4. Followed(inner, a, out)
    BY <2>2 DEF FollowsIn, Followed
  <2>5. Takes(inner, a, v, out)
    <3>1. a \in 1 .. Len(inner)
      BY <2>2 DEF m
    <3> QED
      BY <1>2, <2>1, <2>2, <2>4, <3>1, ScannedOut
  <2>6. e.value = v /\ e.next = next
    BY <2>5 DEF Takes
  <2>7. split[a] = FromElement(inner, e, split)
    <3>1. a \in 1 .. (m + 2)
      BY <1>m, <2>2
    <3> QED
      BY <1>4, <3>1 DEF SplitStep
  <2>8. rest(i) = <<v>> \o SubSeq(values, i + 1, n)
    <3>1. i \in 1 .. Len(values) /\ n \in i .. Len(values)
      BY <1>1 DEF n
    <3> QED
      BY <3>1, SubSeqRecursiveFirst DEF v
  <2> HIDE DEF out, e
  <2>9. split[a] = [elements |-> rest(i)]
    <3>1. CASE i = n
      <4>1. next = m + 1 /\ next # 0 /\ next \notin 1 .. m
        BY <1>m, <2>2, <2>3, <3>1 DEF FollowsIn, m
      <4>2. split[a] = [elements |-> <<v>>]
        <5>1. e.next # 0 /\ e.next = Len(inner) + 1 /\ e.next \notin 1 .. Len(inner)
          BY <2>6, <4>1 DEF m
        <5> QED
          BY <2>6, <2>7, <5>1 DEF FromElement
      <4>3. rest(i) = <<v>>
        <5>1. SubSeq(values, i + 1, n) = <<>>
          BY <1>1, <3>1, SubSeqEmpty
        <5>2. v \in E
          BY <2>1 DEF E, Elements
        <5> HIDE DEF rest
        <5>3. <<v>> \o <<>> = <<v>>
          BY <5>2
        <5> QED
          BY <2>8, <5>1, <5>3
      <4> QED
        BY <4>2, <4>3
    <3>2. CASE i # n
      <4> DEFINE j == i + 1
      <4>1. j \in 1 .. n /\ j \in (i + 1) .. n
        BY <1>1, <3>2
      <4>2. at[j] = next + 1 /\ inner[next].kind = "," /\ at[j] \in 1 .. m /\ next \in Int
        <5>1. at[j] = next + 1 /\ inner[next].kind = ","
          BY <2>2, <3>2 DEF FollowsIn
        <5>2. at[j] \in 1 .. m
          BY <1>5, <4>1
        <5>3. next \in Int
          BY <2>2, <2>3
        <5> QED
          BY <5>1, <5>2, <5>3
      <4>3. next # 0 /\ next # m + 1 /\ next \in 1 .. m
        <5>1. next >= 1
          BY <2>2, <2>3
        <5> DEFINE b == at[j]
        <5>2. b = next + 1 /\ b \in 1 .. m /\ next \in Int
          BY <4>2
        <5> HIDE DEF next, b
        <5>3. b <= m
          BY <1>m, <5>2
        <5> QED
          BY <1>m, <5>1, <5>2, <5>3
      <4>4. split[a] = Before(v, split[next + 1])
        <5>1. e.next # 0 /\ e.next # Len(inner) + 1 /\ e.next \in 1 .. Len(inner)
              /\ inner[e.next].kind = ","
          BY <2>6, <4>2, <4>3 DEF m
        <5> HIDE DEF next
        <5> QED
          BY <2>6, <2>7, <5>1 DEF FromElement
      <4>5. split[next + 1] = [elements |-> rest(j)]
        <5>1. j \in T
          BY <1>6, <4>1
        <5> QED
          BY <4>2, <5>1
      <4>6. Before(v, [elements |-> rest(j)]) = [elements |-> <<v>> \o rest(j)]
        <5> HIDE DEF rest
        <5>1. DOMAIN [elements |-> rest(j)] # {"error"}
          OBVIOUS
        <5> QED
          BY <5>1 DEF Before
      <4> QED
        BY <2>8, <4>4, <4>5, <4>6
    <3> QED
      BY <3>1, <3>2
  <2> QED
    BY <2>9 DEF a
<1> HIDE DEF T
<1>7. \A i \in 1 .. n : i \in T
  <2>1. 1 \in Int /\ n \in Int
    BY <1>1
  <2>2. \A i \in 1 .. n : (\A j \in (i + 1) .. n : j \in T) => i \in T
    BY <1>6
  <2> QED
    BY <2>1, <2>2, FromTheEnd, Zenon
<1>8. split[1] = [elements |-> rest(1)]
  BY <1>1, <1>5, <1>7 DEF T
<1>9. rest(1) = values
  BY SubSeqFull DEF n
<1> QED
  BY <1>4, <1>8, <1>9 DEF inner
\* What a server prints of an array of texts is read back as it was.
THEOREM ArrayReadsBack ==
  ASSUME NEW S, NEW values \in Seq(Elements(S))
  PROVE  splitArray(array_out(values)) = [elements |-> values]
<1> DEFINE inner == Inside(values)
           text == array_out(values)
           Q == OutChars(S) \cup {Mark("{"), Mark("}")}
           m == Len(inner)
<1>1. inner \in Seq(Q) /\ ElementsOf(inner) = [elements |-> values]
  <2>1. CASE Len(values) = 0
    <3>1. values = <<>> /\ OutParts(values) = <<>>
      BY <2>1 DEF OutParts
    <3>2. inner = <<>>
      BY <3>1 DEF Inside, FlattenSeq
    <3>3. ElementsOf(<<>>) = [elements |-> <<>>]
      BY DEF ElementsOf
    <3> HIDE DEF inner, Q
    <3> QED
      BY <3>1, <3>2, <3>3
  <2>2. CASE Len(values) # 0
    <3>1. inner \in Seq(OutChars(S))
      BY <2>2, PlacesFound
    <3>2. OutChars(S) \subseteq Q
      OBVIOUS
    <3> HIDE DEF inner, Q
    <3>3. inner \in Seq(Q)
      BY <3>1, <3>2, SeqMonotonic
    <3> QED
      BY <2>2, <3>3, ElementsRead DEF inner
  <2> QED
    BY <2>1, <2>2
<1>2. text = <<Mark("{")>> \o inner \o <<Mark("}")>>
  BY DEF array_out, Inside, OutParts, OutPart
<1>3. Mark("{") \in Q /\ Mark("}") \in Q /\ inner \in Seq(Q)
  BY <1>1
<1> DEFINE q == Mark("{")
           r == Mark("}")
<1>4. q.kind = "{" /\ r.kind = "}"
  BY DEF Mark
<1> HIDE DEF text, inner, Q, q, r
<1>5. text = <<q>> \o inner \o <<r>> /\ q \in Q /\ r \in Q /\ inner \in Seq(Q)
  BY <1>2, <1>3 DEF q, r
<1>m. m \in Nat
  BY <1>5
<1>7. /\ text \in Seq(Q) /\ Len(text) = m + 2 /\ text[1] = q /\ text[m + 2] = r
      /\ \A k \in 1 .. m : text[1 + k] = inner[k]
  BY <1>5, Between
<1> HIDE DEF m
<1>8. Len(text) # 0 /\ Head(text).kind = "{" /\ Last(text).kind = "}"
  <2>1. Head(text) = text[1] /\ Len(text) # 0
    BY <1>m, <1>7
  <2>2. Last(text) = r
    BY <1>7 DEF Last
  <2> QED
    BY <1>4, <1>7, <2>1, <2>2
<1>9. SubSeq(text, 2, Len(text) - 1) = inner
  <2> DEFINE b == Len(text) - 1
  <2>1. b \in Int /\ b = 2 - 1 + m /\ 2 - 1 + m <= Len(text) /\ 2 \in Int
    BY <1>m, <1>7
  <2>2. ASSUME NEW k \in 1 .. m PROVE text[2 - 1 + k] = inner[k]
    <3>1. 2 - 1 + k = 1 + k
      OBVIOUS
    <3> QED
      BY <1>7, <3>1
  <2> HIDE DEF b
  <2>3. Spans(text, 2, b, inner)
    BY <2>1, <2>2 DEF Spans, StandsAt, m
  <2>4. text \in Seq(Q) /\ inner \in Seq(Q) /\ 2 \in Int /\ b \in Int
    BY <1>5, <1>7, <2>1
  <2>5. SubSeq(text, 2, b) = inner
    BY <2>3, <2>4, Slice, Zenon
  <2> QED
    BY <2>5 DEF b
<1>10. splitArray(text) = ElementsOf(SubSeq(text, 2, Len(text) - 1))
  BY <1>8 DEF splitArray
<1> QED
  BY <1>1, <1>9, <1>10 DEF text
----------------------------------------------------------------------------
(* Columns                                                                *)

\* The reference's date of a day is a date of the calendar.
LEMMA CivilOfType ==
  ASSUME NEW n \in Int
  PROVE  LET c == CivilOf(n) IN
         /\ c = [year |-> c.year, month |-> c.month, day |-> c.day]
         /\ c.year \in Int /\ c.month \in 1 .. 12 /\ c.day \in Int
         /\ isCivilDate(c.year, c.month, c.day)
<1> DEFINE c == CivilOf(n)
<1>1. c = civilFromDays(n)
  BY CivilOfIsCivilFromDays
<1> HIDE DEF c
<1>2. /\ c = [year |-> c.year, month |-> c.month, day |-> c.day]
      /\ c.year \in Int /\ c.month \in 1 .. 12 /\ c.day \in Int
      /\ isCivilDate(c.year, c.month, c.day)
  BY <1>1, CivilFromDays, Zenon
<1> QED
  BY <1>2 DEF c

\* The years a date is printed and read in.
Printable(y) == y \in 1 .. 9999
\* The years parseDate reads are the years a server prints with four digits.
LEMMA YearsRead ==
  ASSUME NEW y \in Int
  PROVE  /\ (Printable(y) <=> y \in MIN_YEAR .. MAX_YEAR)
         /\ (Printable(y) => ~(y < MIN_YEAR))
<1>1. Printable(y) <=> y \in MIN_YEAR .. MAX_YEAR
  BY SMTT(30) DEF MIN_YEAR, MAX_YEAR, Printable
<1>2. Printable(y) => ~(y < MIN_YEAR)
  BY SMTT(30) DEF MIN_YEAR, Printable
<1> QED
  BY <1>1, <1>2

\* What a date of the calendar is read as.
DateRead(c, read) ==
  IF c.year \in MIN_YEAR .. MAX_YEAR
  THEN ~Failed(read) /\ [year |-> read.year, month |-> read.month, day |-> read.day] = c
  ELSE read = [error |-> "MALFORMED"]

\* parseDate reads a printed date of the calendar, and refuses another year.
LEMMA DateReads ==
  ASSUME NEW c, NEW y \in Int, NEW m, NEW d, c = [year |-> y, month |-> m, day |-> d],
         isCivilDate(y, m, d)
  PROVE  DateRead(c, parseDate(PrintedDate(c)))
<1> DEFINE t == PrintedDate(c)
           read == parseDate(t)
<1>0. c.year = y /\ c.month = m /\ c.day = d
  OBVIOUS
<1>1. t = [matched |-> Printable(y), year |-> y, month |-> m, day |-> d]
  BY <1>0 DEF PrintedDate, Printable
<1>2. /\ t.matched = Printable(y) /\ t.year = y /\ t.month = m /\ t.day = d
      /\ "year" \in DOMAIN t
  BY <1>1
<1> HIDE DEF t
<1>3. CASE Printable(y)
  <2>1. ~(t.year < MIN_YEAR) /\ isCivilDate(t.year, t.month, t.day) /\ t.matched
    BY <1>2, <1>3, YearsRead, Zenon
  <2>2. read = t
    BY <2>1, Zenon DEF parseDate
  <2>3. ~Failed(read)
    BY <1>2, <2>2 DEF Failed
  <2>4. [year |-> read.year, month |-> read.month, day |-> read.day] = c
    BY <1>2, <2>2, Zenon
  <2> HIDE DEF read
  <2>5. y \in MIN_YEAR .. MAX_YEAR
    BY <1>3, YearsRead, Zenon
  <2>6. DateRead(c, read)
    BY <1>0, <2>3, <2>4, <2>5, Zenon DEF DateRead
  <2> QED
    BY <2>6, Zenon DEF read, t
<1>4. CASE ~Printable(y)
  <2>1. ~t.matched
    BY <1>2, <1>4, Zenon
  <2>2. read = [error |-> "MALFORMED"]
    BY <2>1, Zenon DEF parseDate
  <2> HIDE DEF read
  <2>3. y \notin MIN_YEAR .. MAX_YEAR
    BY <1>4, YearsRead, Zenon
  <2>4. DateRead(c, read)
    BY <1>0, <2>2, <2>3, Zenon DEF DateRead
  <2> QED
    BY <2>4, Zenon DEF read, t
<1> QED
  BY <1>3, <1>4, Zenon

\* The date a server prints of an instant is read as it is.
LEMMA DateIsExact ==
  ASSUME NEW i \in [day : Int, ms : 0 .. MS_PER_DAY - 1, us : 0 .. 999]
  PROVE  DateExact(parseDate(PrintedDate(CivilOf(i.day))), i)
<1> DEFINE c == CivilOf(i.day)
           y == c.year
           m == c.month
           d == c.day
<1>1. i.day \in Int
  BY InstantFields
<1>2. c = [year |-> y, month |-> m, day |-> d] /\ y \in Int /\ isCivilDate(y, m, d)
  BY <1>1, CivilOfType
<1> HIDE DEF c, y, m, d
<1>3. DateRead(c, parseDate(PrintedDate(c)))
  BY <1>2, DateReads
<1> QED
  BY <1>3, ZenonT(60) DEF DateRead, DateExact, c

\* The time of day a server prints is read when it is a whole minute.
LEMMA TimeIsExact ==
  ASSUME NEW i \in [day : Int, ms : 0 .. MS_PER_DAY - 1, us : 0 .. 999]
  PROVE  TimeExact(parseTime(PrintedTime(i)), i)
<1> DEFINE x == i.ms
           u == i.us
           s == x \div 1000
           t == PrintedTime(i)
           m == (x % 1000) * 1000 + u
<1>1. /\ t.matched = TRUE /\ t.hour = s \div 3600 /\ t.minute = (s % 3600) \div 60 /\ t.second = s % 60
      /\ t.microseconds = m
  BY DEF PrintedTime
<1>0. x \in Int /\ 0 <= x /\ x < MS_PER_DAY /\ u \in Int /\ 0 <= u
  BY InstantFields
<1>2. s \in Int /\ 0 <= s /\ s < 86400
  BY <1>0, SecondsOfDay
<1> HIDE DEF t
<1>3. /\ s \div 3600 \in Int /\ s \div 3600 <= 23 /\ (s % 3600) \div 60 \in Int
      /\ (s % 3600) \div 60 <= 59 /\ s % 60 \in Int /\ s % 60 <= 59
  <2> HIDE DEF s
  <2> QED
    BY <1>2, ClockFields
<1>4. (x % 60000 = 0 /\ u = 0) <=> (s % 60 = 0 /\ m = 0)
  <2>1. x \in Int /\ 0 <= x /\ u \in Int /\ 0 <= u
    BY <1>0
  <2> HIDE DEF x, u
  <2> QED
    BY <2>1, SMTT(30)
<1>5. x \div 3600000 = s \div 3600 /\ (x % 3600000) \div 60000 = (s % 3600) \div 60
  <2>1. x \in Int /\ 0 <= x
    BY <1>0
  <2> HIDE DEF x
  <2> QED
    BY <2>1, SMTT(60)
<1>6. /\ ~(~t.matched \/ t.hour > 24 \/ t.minute > 59 \/ t.second > 59) /\ t.hour # 24
  BY <1>1, <1>3
<1>7. parseTime(t) = IF t.second # 0 \/ t.microseconds # 0 THEN [error |-> "TIME_HAS_SECONDS"]
                     ELSE [hour |-> t.hour, minute |-> t.minute]
  BY <1>6 DEF parseTime
<1> QED
  BY <1>1, <1>4, <1>5, <1>7 DEF TimeExact, t

\* An array of one value and NULL: its parser is asked for the value.
LEMMA PairIsRead ==
  ASSUME NEW kind, NEW value, NEW element, NEW answer,
         LET text == PrintedPair(kind, value)
             chars == <<[kind |-> kind, is |-> value]>>
         IN chars \in ElementTexts(text) => element[chars] = answer
  PROVE  LET read == arrayOf(element, PrintedPair(kind, value))
         IN IF DOMAIN answer = {"error"} THEN read = answer
            ELSE read = [elements |-> <<answer, Null>>]
<1> DEFINE c == [kind |-> kind, is |-> value]
           v == [text |-> <<c>>]
           values == <<v, Null>>
           text == PrintedPair(kind, value)
           got == splitArray(text)
           parsed == <<answer, Null>>
<1>1. values \in Seq(Elements({c})) /\ <<c>> \in Seq({c})
  <2>1. <<c>> \in Seq({c})
    <3> HIDE DEF c
    <3> QED
      OBVIOUS
  <2>2. v \in Elements({c}) /\ Null \in Elements({c})
    <3> HIDE DEF c
    <3> QED
      BY <2>1 DEF Elements
  <2> HIDE DEF c, v
  <2>3. values \in Seq(Elements({c}))
    BY <2>2
  <2> QED
    BY <2>1, <2>3
<1>2. text = array_out(values)
  BY DEF PrintedPair
<1>3. got = [elements |-> values]
  <2> HIDE DEF values, text, c
  <2> QED
    BY <1>1, <1>2, ArrayReadsBack
<1> HIDE DEF c, text, got
<1>4. v # Null /\ v.text = <<c>>
  BY DEF Null
<1>5. <<c>> \in ElementTexts(text)
  <2>1. DOMAIN got # {"error"} /\ got.elements = values
    BY <1>3
  <2>2. v \in {values[i] : i \in DOMAIN values} \ {Null}
    BY <1>4
  <2>3. ElementTexts(text) = {e.text : e \in {values[i] : i \in DOMAIN values} \ {Null}}
    BY <2>1 DEF ElementTexts, TextsIn, got
  <2> HIDE DEF v, values
  <2> QED
    BY <1>4, <2>2, <2>3
<1>6. element[<<c>>] = answer
  BY <1>5 DEF c, text
<1>7. arrayOf(element, text) = Collected(parsed)
  <2>1. DOMAIN got # {"error"} /\ got.elements = values
    BY <1>3
  <2>2. [i \in DOMAIN values |-> IF values[i] = Null THEN Null ELSE element[values[i].text]] = parsed
    <3>1. DOMAIN values = 1 .. 2 /\ values[1] = v /\ values[2] = Null
      OBVIOUS
    <3>2. DOMAIN parsed = 1 .. 2 /\ parsed[1] = answer /\ parsed[2] = Null
      OBVIOUS
    <3>3. parsed = [i \in 1 .. 2 |-> parsed[i]]
      OBVIOUS
    <3> HIDE DEF values, v, parsed
    <3>4. ASSUME NEW i \in 1 .. 2
          PROVE  (IF values[i] = Null THEN Null ELSE element[values[i].text]) = parsed[i]
      <4>1. i = 1 \/ i = 2
        OBVIOUS
      <4> QED
        BY <1>4, <1>6, <3>1, <3>2, <4>1
    <3> QED
      BY <3>1, <3>3, <3>4
  <2> HIDE DEF values, parsed
  <2> QED
    BY <2>1, <2>2 DEF arrayOf, Parsed, got
<1> DEFINE bad == {i \in DOMAIN parsed : DOMAIN parsed[i] = {"error"}}
<1>8. DOMAIN parsed = 1 .. 2 /\ parsed[1] = answer /\ parsed[2] = Null
  OBVIOUS
<1>9. DOMAIN Null # {"error"}
  <2>1. DOMAIN Null = {"null"}
    BY DEF Null
  <2> QED
    BY <2>1
<1> HIDE DEF parsed
<1>10. Collected(parsed) = FirstRefusal(parsed, bad)
  BY DEF Collected
<1>11. CASE DOMAIN answer = {"error"}
  <2>1. bad = {1}
    BY <1>8, <1>9, <1>11
  <2>2. (CHOOSE i \in {1} : \A j \in {1} : i <= j) = 1
    OBVIOUS
  <2>3. FirstRefusal(parsed, {1}) = parsed[1]
    BY <2>2 DEF FirstRefusal
  <2> QED
    BY <1>7, <1>8, <1>10, <1>11, <2>1, <2>3 DEF text
<1>12. CASE DOMAIN answer # {"error"}
  <2>1. bad = {}
    BY <1>8, <1>9, <1>12
  <2>2. FirstRefusal(parsed, {}) = [elements |-> parsed]
    BY DEF FirstRefusal
  <2> QED
    BY <1>7, <1>10, <1>12, <2>1, <2>2 DEF text, parsed
<1> QED
  BY <1>11, <1>12

\* What is read back of a column that stores the value x.
ReadOf(type, text) == TypeRegistry(type, "text", text, ServiceParse(text))

\* The registry asks its own parser for its own types, the service's for others.
LEMMA RegistryIs ==
  ASSUME NEW type, NEW text
  PROVE  /\ type \in OwnTypes => ReadOf(type, text) = OwnParse(type, text)
         /\ type \notin OwnTypes => ReadOf(type, text) = ServiceParse(text)
  BY DEF ReadOf, TypeRegistry

\* The pair of an instant's date, or of the instant, and NULL: the value is read
\* exactly or refuses the array, and NULL keeps its place.
LEMMA PairIsKept ==
  ASSUME NEW answer, NEW read,
         IF DOMAIN answer = {"error"} THEN read = answer ELSE read = [elements |-> <<answer, Null>>]
  PROVE  PairKept(read) /\ ValueOf(read) = answer
<1>1. CASE DOMAIN answer = {"error"}
  <2>1. Failed(read) /\ read = answer
    BY <1>1 DEF Failed
  <2> QED
    BY <2>1 DEF PairKept, ValueOf
<1>2. CASE DOMAIN answer # {"error"}
  <2>1. read = [elements |-> <<answer, Null>>]
    BY <1>2
  <2>2. ~Failed(read)
    <3>1. "elements" \in DOMAIN read
      BY <2>1
    <3> QED
      BY <3>1 DEF Failed
  <2>3. read.elements = <<answer, Null>>
    BY <2>1
  <2>4. Len(read.elements) = 2 /\ read.elements[1] = answer /\ read.elements[2] = Null
    BY <2>3
  <2> QED
    BY <2>2, <2>4 DEF PairKept, ValueOf
<1> QED
  BY <1>1, <1>2

\* An array of dates keeps its NULLs, and reads each date as parseDate does.
LEMMA PairOfDate ==
  ASSUME NEW i \in [day : Int, ms : 0 .. MS_PER_DAY - 1, us : 0 .. 999]
  PROVE  LET text == PrintedPair("plain", PrintedDate(CivilOf(i.day)))
             read == arrayOf(OfDate(text), text)
         IN PairKept(read) /\ DateExact(ValueOf(read), i)
<1> DEFINE value == PrintedDate(CivilOf(i.day))
           text == PrintedPair("plain", value)
           chars == <<[kind |-> "plain", is |-> value]>>
           answer == parseDate(value)
           read == arrayOf(OfDate(text), text)
<1>1. DateExact(answer, i)
  BY DateIsExact
<1> HIDE DEF value, answer
<1>2. chars \in ElementTexts(text) => OfDate(text)[chars] = answer
  <2>1. chars[1].is = value
    OBVIOUS
  <2> HIDE DEF text, chars
  <2> QED
    BY <2>1 DEF OfDate, answer
<1>3. IF DOMAIN answer = {"error"} THEN read = answer ELSE read = [elements |-> <<answer, Null>>]
  BY <1>2, PairIsRead, ZenonT(60)
<1> HIDE DEF read
<1>4. PairKept(read) /\ ValueOf(read) = answer
  BY <1>3, PairIsKept, ZenonT(60)
<1> QED
  BY <1>1, <1>4, ZenonT(60) DEF read, text, value

\* An array of times keeps its NULLs, and reads each time as parseTime does.
LEMMA PairOfTime ==
  ASSUME NEW i \in [day : Int, ms : 0 .. MS_PER_DAY - 1, us : 0 .. 999]
  PROVE  LET text == PrintedPair("plain", PrintedTime(i))
             read == arrayOf(OfTime(text), text)
         IN PairKept(read) /\ TimeExact(ValueOf(read), i)
<1> DEFINE value == PrintedTime(i)
           text == PrintedPair("plain", value)
           chars == <<[kind |-> "plain", is |-> value]>>
           answer == parseTime(value)
           read == arrayOf(OfTime(text), text)
<1>1. TimeExact(answer, i)
  BY TimeIsExact
<1> HIDE DEF value, answer
<1>2. chars \in ElementTexts(text) => OfTime(text)[chars] = answer
  <2>1. chars[1].is = value
    OBVIOUS
  <2> HIDE DEF text, chars
  <2> QED
    BY <2>1 DEF OfTime, answer
<1>3. IF DOMAIN answer = {"error"} THEN read = answer ELSE read = [elements |-> <<answer, Null>>]
  BY <1>2, PairIsRead, ZenonT(60)
<1> HIDE DEF read
<1>4. PairKept(read) /\ ValueOf(read) = answer
  BY <1>3, PairIsKept, ZenonT(60)
<1> QED
  BY <1>1, <1>4, ZenonT(60) DEF read, text, value

\* An array of instants keeps its NULLs, and reads each as parseTimestamptz does.
LEMMA PairOfTimestamptz ==
  ASSUME NEW i \in [day : Int, ms : 0 .. MS_PER_DAY - 1, us : 0 .. 999], NEW offset \in Int
  PROVE  LET text == PrintedPair("space", Printed(i, offset))
             read == arrayOf(OfTimestamptz(text), text)
         IN PairKept(read) /\ Exact(ValueOf(read), i)
<1> DEFINE value == Printed(i, offset)
           text == PrintedPair("space", value)
           chars == <<[kind |-> "space", is |-> value]>>
           answer == parseTimestamptz(value)
           read == arrayOf(OfTimestamptz(text), text)
<1>1. Exact(answer, i)
  BY TimestamptzExact
<1> HIDE DEF value, answer
<1>2. chars \in ElementTexts(text) => OfTimestamptz(text)[chars] = answer
  <2>1. chars[1].is = value
    OBVIOUS
  <2> HIDE DEF text, chars
  <2> QED
    BY <2>1 DEF OfTimestamptz, answer
<1>3. IF DOMAIN answer = {"error"} THEN read = answer ELSE read = [elements |-> <<answer, Null>>]
  BY <1>2, PairIsRead, ZenonT(60)
<1> HIDE DEF read
<1>4. PairKept(read) /\ ValueOf(read) = answer
  BY <1>3, PairIsKept, ZenonT(60)
<1> QED
  BY <1>1, <1>4, ZenonT(60) DEF read, text, value

\* A service reads back the array of texts it stored.
LEMMA TextsAreRead ==
  ASSUME NEW S, NEW values \in Seq(Elements(S))
  PROVE  ServiceParse(array_out(values)) = [elements |-> values]
<1> DEFINE text == array_out(values)
           got == splitArray(text)
           parsed == [i \in DOMAIN values |->
                        IF values[i] = Null THEN Null ELSE Same(text)[values[i].text]]
<1>1. got = [elements |-> values]
  BY ArrayReadsBack
<1> HIDE DEF got, text
<1>2. DOMAIN got # {"error"} /\ got.elements = values
  BY <1>1
<1>3. ElementTexts(text) = {e.text : e \in {values[i] : i \in DOMAIN values} \ {Null}}
  BY <1>2 DEF ElementTexts, TextsIn, got
<1>4. ASSUME NEW i \in DOMAIN values
      PROVE  (IF values[i] = Null THEN Null ELSE Same(text)[values[i].text]) = values[i]
  <2>1. values[i] \in {Null} \cup [text : Seq(S)]
    BY DEF Elements
  <2>2. CASE values[i] # Null
    <3>1. values[i].text \in ElementTexts(text)
      BY <1>3, <2>2
    <3>2. Same(text)[values[i].text] = [text |-> values[i].text]
      BY <3>1 DEF Same
    <3>3. values[i] = [text |-> values[i].text]
      BY <2>1, <2>2
    <3> QED
      BY <2>2, <3>2, <3>3
  <2> QED
    BY <2>2
<1>5. parsed = values
  <2>1. values = [i \in DOMAIN values |-> values[i]]
    OBVIOUS
  <2> QED
    BY <1>4, <2>1
<1>6. ServiceParse(text) = Collected(parsed)
  <2> HIDE DEF parsed
  <2> QED
    BY <1>2, Zenon DEF ServiceParse, arrayOf, Parsed, got, parsed
<1>7. {i \in DOMAIN values : DOMAIN values[i] = {"error"}} = {}
  <2>1. ASSUME NEW i \in DOMAIN values PROVE DOMAIN values[i] # {"error"}
    <3>1. values[i] \in {Null} \cup [text : Seq(S)]
      BY DEF Elements
    <3>2. "null" \in DOMAIN Null
      BY DEF Null
    <3>3. CASE values[i] = Null
      BY <3>2, <3>3
    <3>4. CASE values[i] # Null
      <4>1. "text" \in DOMAIN values[i]
        BY <3>1, <3>4
      <4> QED
        BY <4>1
    <3> QED
      BY <3>3, <3>4
  <2> QED
    BY <2>1
<1>8. Collected(values) = [elements |-> values]
  BY <1>7, Zenon DEF Collected, FirstRefusal
<1> QED
  BY <1>5, <1>6, <1>8 DEF text

\* A text that begins with an array where an element is due is refused.
LEMMA NestedIsRefused ==
  splitArray(<<Mark("{"), Mark("{"), Mark("plain"), Mark("}"), Mark("}")>>) = Malformed
<1> DEFINE a == Mark("{")
           b == Mark("plain")
           c == Mark("}")
           chars == <<a, a, b, c, c>>
           inner == <<a, b, c>>
           R == {a, b, c}
<1>1. a.kind = "{" /\ c.kind = "}"
  BY DEF Mark
<1>2. a \in R /\ b \in R /\ c \in R
  OBVIOUS
<1> HIDE DEF a, b, c, R
<1>3. /\ Len(chars) = 5 /\ Head(chars) = a /\ Last(chars) = c
      /\ inner \in Seq(R) /\ Len(inner) = 3 /\ inner # <<>> /\ inner[1] = a
  <2>1. Len(chars) = 5 /\ chars[5] = c /\ Head(chars) = a
    OBVIOUS
  <2>2. Last(chars) = c
    BY <2>1 DEF Last
  <2>3. inner \in Seq(R) /\ Len(inner) = 3 /\ inner # <<>> /\ inner[1] = a
    BY <1>2
  <2> QED
    BY <2>1, <2>2, <2>3
<1>4. SubSeq(chars, 2, 4) = inner
  <2> DEFINE cut == SubSeq(chars, 2, 4)
  <2>1. \A i \in 2 .. 4 : chars[i] \in R
    BY <1>2
  <2>2. chars[2] = a /\ chars[3] = b /\ chars[4] = c
    OBVIOUS
  <2> HIDE DEF chars
  <2>3. /\ cut \in Seq(R) /\ Len(cut) = IF 2 <= 4 THEN 4 - 2 + 1 ELSE 0
        /\ \A i \in 1 .. 4 - 2 + 1 : cut[i] = chars[2 + i - 1]
    <3>1. 2 \in Int /\ 4 \in Int
      OBVIOUS
    <3> QED
      BY <2>1, <3>1, SubSeqProperties
  <2>4. Len(cut) = 3 /\ cut[1] = a /\ cut[2] = b /\ cut[3] = c
    BY <2>2, <2>3
  <2> HIDE DEF cut
  <2>5. cut = inner
    BY <2>3, <2>4
  <2> QED
    BY <2>5 DEF cut
<1> HIDE DEF inner, chars
<1>5. splitArray(chars) = ElementsOf(inner)
  <2>1. Len(chars) - 1 = 4 /\ Len(chars) # 0
    BY <1>3
  <2>2. Head(chars).kind = "{" /\ Last(chars).kind = "}"
    BY <1>1, <1>3
  <2> QED
    BY <1>4, <2>1, <2>2 DEF splitArray
<1>6. PICK split : /\ split = [at \in 1 .. (Len(inner) + 2) |-> SplitStep(inner, split, at)]
                   /\ ElementsOf(inner) = split[1]
  BY <1>3, Splitting
<1>7. split[1] = FromElement(inner, scanElement(inner, 1), split)
  <2>1. 1 \in 1 .. (Len(inner) + 2)
    BY <1>3
  <2> QED
    BY <1>6, <2>1 DEF SplitStep
<1>8. scanElement(inner, 1) = [value |-> Null, next |-> 0]
  <2> DEFINE run == SubSeq(inner, 1, RunEnd(inner, 1))
  <2>1. RunEnd(inner, 1) = 0
    <3>1. ASSUME NEW e \in Int, e = 0 PROVE RunEnd(inner, 1) = e
      <4>1. e \in (1 - 1) .. Len(inner) /\ \A i \in 1 .. e : inner[i].kind \notin Special
        BY <1>3, <3>1
      <4>2. inner[e + 1].kind \in Special
        <5>1. inner[e + 1] = a
          BY <1>3, <3>1
        <5> QED
          BY <1>1, <5>1 DEF Special
      <4>3. 1 \in Nat
        OBVIOUS
      <4> QED
        BY <1>3, <4>1, <4>2, <4>3, RunEndIs
    <3> QED
      BY <3>1
  <2>2. run = <<>>
    <3>1. SubSeq(inner, 1, 0) = <<>>
      BY SubSeqEmpty
    <3> QED
      BY <2>1, <3>1
  <2>3. ~(1 > Len(inner)) /\ inner[1].kind # "quote"
    <3>1. ~(1 > Len(inner))
      BY <1>3
    <3>2. inner[1].kind = "{"
      BY <1>1, <1>3
    <3> QED
      BY <3>1, <3>2
  <2> HIDE DEF run
  <2>4. ~ReadsNull(run)
    BY <2>2 DEF ReadsNull
  <2> QED
    BY <2>2, <2>3, <2>4 DEF scanElement, run
<1>9. FromElement(inner, scanElement(inner, 1), split) = Malformed
  <2> DEFINE e == scanElement(inner, 1)
  <2>1. e.next = 0 /\ 0 # Len(inner) + 1 /\ 0 \notin 1 .. Len(inner)
    BY <1>3, <1>8
  <2> HIDE DEF e
  <2> QED
    BY <2>1 DEF FromElement, e
<1> QED
  BY <1>5, <1>6, <1>7, <1>9 DEF chars, a, b, c

\* A text out of the grammar of its column is refused.
LEMMA OtherIsRefused ==
  ASSUME NEW type \in OwnTypes \cup {"text[]"}
  PROVE  Failed(ReadOf(type, OtherText(type)))
<1> DEFINE text == OtherText(type)
<1>1. \A reason : Failed([error |-> reason])
  BY DEF Failed
<1>2. Failed(Malformed)
  BY <1>1 DEF Malformed
<1>3. ASSUME type \in {"date[]", "time[]", "timestamptz[]", "timestamp[]", "text[]"}
      PROVE  \A element : arrayOf(element, text) = Malformed
  <2>1. text = <<Mark("{"), Mark("{"), Mark("plain"), Mark("}"), Mark("}")>>
    BY <1>3 DEF OtherText
  <2>2. splitArray(text) = Malformed
    BY <2>1, NestedIsRefused
  <2>3. DOMAIN Malformed = {"error"}
    BY DEF Malformed
  <2> HIDE DEF text
  <2> QED
    BY <2>2, <2>3 DEF arrayOf, Parsed
<1>4. ASSUME type \notin {"date[]", "time[]", "timestamptz[]", "timestamp[]", "text[]"}
      PROVE  text = Other /\ ~text.matched
  BY <1>4 DEF OtherText, Other
<1> HIDE DEF text
<1>5. CASE type = "date"
  <2>1. type \in OwnTypes /\ OwnParse(type, text) = parseDate(text)
    BY <1>5 DEF OwnTypes, OwnParse
  <2>2. parseDate(text) = [error |-> "MALFORMED"]
    BY <1>4, <1>5 DEF parseDate
  <2> QED
    BY <1>1, <2>1, <2>2, RegistryIs DEF text
<1>6. CASE type = "time"
  <2>1. type \in OwnTypes /\ OwnParse(type, text) = parseTime(text)
    BY <1>6 DEF OwnTypes, OwnParse
  <2>2. parseTime(text) = [error |-> "MALFORMED"]
    BY <1>4, <1>6 DEF parseTime
  <2> QED
    BY <1>1, <2>1, <2>2, RegistryIs DEF text
<1>7. CASE type = "timestamptz"
  <2>1. type \in OwnTypes /\ OwnParse(type, text) = parseTimestamptz(text)
    BY <1>7 DEF OwnTypes, OwnParse
  <2>2. parseTimestamptz(text) = [error |-> "MALFORMED"]
    BY <1>4, <1>7 DEF parseTimestamptz, isReadable
  <2> QED
    BY <1>1, <2>1, <2>2, RegistryIs DEF text
<1>8. CASE type \in {"timestamp", "timestamp[]"}
  <2>1. type \in OwnTypes /\ OwnParse(type, text) = [error |-> "UNSUPPORTED_TYPE"]
    BY <1>8 DEF OwnTypes, OwnParse, refuse
  <2> QED
    BY <1>1, <2>1, RegistryIs DEF text
<1>9. CASE type \in {"date[]", "time[]", "timestamptz[]"}
  <2>1. type \in OwnTypes /\ OwnParse(type, text) = Malformed
    BY <1>3, <1>9 DEF OwnTypes, OwnParse
  <2> QED
    BY <1>2, <2>1, RegistryIs DEF text
<1>10. CASE type = "text[]"
  <2>1. type \notin OwnTypes /\ ServiceParse(text) = Malformed
    BY <1>3, <1>10 DEF OwnTypes, ServiceParse
  <2> QED
    BY <1>2, <2>1, RegistryIs DEF text
<1> QED
  BY <1>5, <1>6, <1>7, <1>8, <1>9, <1>10 DEF OwnTypes

\* Whatever the zone, what is read back of a column is what it stores, or says
\* why that cannot be said.
THEOREM ColumnIsExact ==
  ASSUME NEW type \in OwnTypes, NEW i \in [day : Int, ms : 0 .. MS_PER_DAY - 1, us : 0 .. 999],
         NEW offset \in Int
  PROVE  ColumnExact(type, ReadOf(type, PrintedColumn(type, i, offset)), i)
<1> DEFINE text == PrintedColumn(type, i, offset)
           read == ReadOf(type, text)
<1>1. read = OwnParse(type, text)
  BY RegistryIs
<1> HIDE DEF read
<1>2. CASE type = "timestamptz"
  <2>1. text = Printed(i, offset) /\ OwnParse(type, text) = parseTimestamptz(text)
    BY <1>2 DEF PrintedColumn, OwnParse
  <2>2. Exact(read, i)
    BY <1>1, <2>1, TimestamptzExact
  <2> QED
    BY <1>2, <2>2 DEF ColumnExact, read
<1>3. CASE type \in {"timestamp", "timestamp[]"}
  <2>1. read = [error |-> "UNSUPPORTED_TYPE"]
    BY <1>1, <1>3 DEF OwnParse, refuse
  <2> HIDE DEF read
  <2>2. CASE type = "timestamp"
    BY <2>1, <2>2, ZenonT(60) DEF ColumnExact, read
  <2>3. CASE type = "timestamp[]"
    BY <2>1, <2>3, ZenonT(60) DEF ColumnExact, read
  <2> QED
    BY <1>3, <2>2, <2>3
<1>4. CASE type = "date"
  <2>1. text = PrintedDate(CivilOf(i.day)) /\ OwnParse(type, text) = parseDate(text)
    BY <1>4 DEF PrintedColumn, OwnParse
  <2>2. DateExact(read, i)
    BY <1>1, <2>1, DateIsExact
  <2> QED
    BY <1>4, <2>2 DEF ColumnExact, read
<1>5. CASE type = "time"
  <2>1. text = PrintedTime(i) /\ OwnParse(type, text) = parseTime(text)
    BY <1>5 DEF PrintedColumn, OwnParse
  <2>2. TimeExact(read, i)
    BY <1>1, <2>1, TimeIsExact
  <2> QED
    BY <1>5, <2>2 DEF ColumnExact, read
<1>6. CASE type = "date[]"
  <2>1. text = PrintedPair("plain", PrintedDate(CivilOf(i.day)))
        /\ OwnParse(type, text) = arrayOf(OfDate(text), text)
    BY <1>6 DEF PrintedColumn, OwnParse
  <2>2. PairKept(read) /\ DateExact(ValueOf(read), i)
    BY <1>1, <2>1, PairOfDate
  <2> QED
    BY <1>6, <2>2 DEF ColumnExact, read
<1>7. CASE type = "timestamptz[]"
  <2>1. text = PrintedPair("space", Printed(i, offset))
        /\ OwnParse(type, text) = arrayOf(OfTimestamptz(text), text)
    BY <1>7 DEF PrintedColumn, OwnParse
  <2>2. PairKept(read) /\ Exact(ValueOf(read), i)
    BY <1>1, <2>1, PairOfTimestamptz
  <2> QED
    BY <1>7, <2>2 DEF ColumnExact, read
<1>8. CASE type = "time[]"
  <2>1. text = PrintedPair("plain", PrintedTime(i))
        /\ OwnParse(type, text) = arrayOf(OfTime(text), text)
    BY <1>8 DEF PrintedColumn, OwnParse
  <2>2. PairKept(read) /\ TimeExact(ValueOf(read), i)
    BY <1>1, <2>1, PairOfTime
  <2> QED
    BY <1>8, <2>2 DEF ColumnExact, read
<1> QED
  BY <1>2, <1>3, <1>4, <1>5, <1>6, <1>7, <1>8 DEF OwnTypes

============================================================================
