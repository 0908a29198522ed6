----------------------------- MODULE Timestamptz -----------------------------
(***************************************************************************)
(* parseTimestamptz and the calendar under it (civilCalendar): from the    *)
(* text of a timestamptz, in the offset of the session's zone, to the      *)
(* instant in UTC with milliseconds.  A text is the record of the fields   *)
(* of its match, or Other for one the expression does not match.  An       *)
(* instant is a day and the milliseconds in it: one number of milliseconds *)
(* would not fit TLC's integers.                                           *)
(***************************************************************************)
EXTENDS Integers

MIN_YEAR == 1
MAX_YEAR == 9999
MS_PER_DAY == 86400000

\* Days since 1970-01-01 of a civil date; the year is astronomical (1 BC is 0).
daysFromCivil(year, month, day) ==
  LET y == IF month <= 2 THEN year - 1 ELSE year
      era == y \div 400
      yearOfEra == y - era * 400
      dayOfYear == (153 * ((month + 9) % 12) + 2) \div 5 + day - 1
      dayOfEra == yearOfEra * 365 + yearOfEra \div 4 - yearOfEra \div 100 + dayOfYear
  IN era * 146097 + dayOfEra - 719468

\* The civil date of a count of days since 1970-01-01.
civilFromDays(days) ==
  LET z == days + 719468
      era == z \div 146097
      dayOfEra == z - era * 146097
      yearOfEra == (dayOfEra - dayOfEra \div 1460 + dayOfEra \div 36524
                      - dayOfEra \div 146096) \div 365
      dayOfYear == dayOfEra - (365 * yearOfEra + yearOfEra \div 4 - yearOfEra \div 100)
      monthIndex == (5 * dayOfYear + 2) \div 153
      month == IF monthIndex < 10 THEN monthIndex + 3 ELSE monthIndex - 9
  IN [year  |-> yearOfEra + era * 400 + (IF month <= 2 THEN 1 ELSE 0),
      month |-> month,
      day   |-> dayOfYear - (153 * monthIndex + 2) \div 5 + 1]

isLeapYear(year) == (year % 4 = 0 /\ year % 100 # 0) \/ year % 400 = 0

daysInMonth(year, month) ==
  CASE month = 2 -> IF isLeapYear(year) THEN 29 ELSE 28
    [] month \in {4, 6, 9, 11} -> 30
    [] OTHER -> 31

isCivilDate(year, month, day) ==
  month \in 1..12 /\ day >= 1 /\ day <= daysInMonth(year, month)

Other == [matched |-> FALSE]

\* readParts: "0001 BC" is the astronomical year 0.
YearOf(t) == IF t.bc THEN 1 - t.year ELSE t.year
OffsetOf(t) == t.sign * (t.offsetHours * 3600 + t.offsetMinutes * 60 + t.offsetSeconds)

isReadable(t) ==
  /\ t.matched
  /\ isCivilDate(YearOf(t), t.month, t.day)
  /\ t.hour <= 23 /\ t.minute <= 59 /\ t.second <= 59
  /\ t.offsetMinutes <= 59 /\ t.offsetSeconds <= 59

\* ms, which may be outside the day, counted from the start of a day.
Instant(day, ms) == [day |-> day + ms \div MS_PER_DAY, ms |-> ms % MS_PER_DAY]

\* Mutant of epochMsOf: the digits below a millisecond are cut off before 1970 too.
epochMsCutDown(t) ==
  LET seconds == (t.hour * 3600 + t.minute * 60 + t.second) - OffsetOf(t)
  IN Instant(daysFromCivil(YearOf(t), t.month, t.day), seconds * 1000 + t.microseconds \div 1000)

\* Epoch milliseconds, the part below one cut off toward zero: an instant before
\* 1970 moves one millisecond up.
epochMsOf(t) ==
  LET seconds == (t.hour * 3600 + t.minute * 60 + t.second) - OffsetOf(t)
      whole == Instant(daysFromCivil(YearOf(t), t.month, t.day),
                       seconds * 1000 + t.microseconds \div 1000)
  IN IF whole.day < 0 /\ t.microseconds % 1000 > 0
     THEN Instant(whole.day, whole.ms + 1)
     ELSE whole

\* isoOf: the fields of the string in UTC, or the reason of the DbParseError.
isoOf(i) ==
  LET civil == civilFromDays(i.day)
      second == i.ms \div 1000
  IN IF civil.year \notin MIN_YEAR..MAX_YEAR
     THEN [error |-> "OUT_OF_RANGE"]
     ELSE [date |-> civil, hour |-> second \div 3600, minute |-> (second % 3600) \div 60,
           second |-> second % 60, ms |-> i.ms % 1000]

parseTimestamptz(t) == IF isReadable(t) THEN isoOf(epochMsOf(t)) ELSE [error |-> "MALFORMED"]

Failed(answer) == DOMAIN answer = {"error"}

----------------------------------------------------------------------------
(* The reference: the calendar by its definition, and the text the server  *)
(* prints of an instant.  An exact instant has microseconds, us, as well.  *)

\* The first day of a year, since 1970-01-01: 365 days for each year before it
\* and one for each leap year among them.
YearStart(year) ==
  365 * (year - 1) + (year - 1) \div 4 - (year - 1) \div 100 + (year - 1) \div 400 - 719162

\* The days of a year before each of its months.
MonthStart(year, month) ==
  <<0, 31, 59, 90, 120, 151, 181, 212, 243, 273, 304, 334>>[month]
    + (IF month > 2 /\ isLeapYear(year) THEN 1 ELSE 0)

DayNumber(year, month, day) == YearStart(year) + MonthStart(year, month) + day - 1

CivilOf(n) ==
  LET near == (n + 719162) \div 366 - 1 .. (n + 719162) \div 365 + 2
      far == (n + 719162) \div 365 - 1 .. (n + 719162) \div 366 + 2
      year == CHOOSE y \in near \cup far : YearStart(y) <= n /\ n < YearStart(y + 1)
      month == CHOOSE m \in 1..12 :
                 /\ YearStart(year) + MonthStart(year, m) <= n
                 /\ m < 12 => n < YearStart(year) + MonthStart(year, m + 1)
  IN [year |-> year, month |-> month, day |-> n - DayNumber(year, month, 1) + 1]

\* What a server prints of an exact instant in a zone of offset seconds.
Printed(i, offset) ==
  LET local == Instant(i.day, i.ms + offset * 1000)
      civil == CivilOf(local.day)
      second == local.ms \div 1000
      size == IF offset < 0 THEN -offset ELSE offset
  IN [matched |-> TRUE,
      year |-> IF civil.year >= 1 THEN civil.year ELSE 1 - civil.year,
      bc |-> civil.year < 1, month |-> civil.month, day |-> civil.day,
      hour |-> second \div 3600, minute |-> (second % 3600) \div 60, second |-> second % 60,
      microseconds |-> (local.ms % 1000) * 1000 + i.us,
      sign |-> IF offset < 0 THEN -1 ELSE 1,
      offsetHours |-> size \div 3600, offsetMinutes |-> (size % 3600) \div 60,
      offsetSeconds |-> size % 60]

\* The instant of exact milliseconds nearest to i on the side of 1970.
TowardZero(i) == IF i.day < 0 /\ i.us > 0 THEN Instant(i.day, i.ms + 1) ELSE Instant(i.day, i.ms)

\* The answer that denotes an exact instant.
Exact(answer, i) ==
  LET cut == TowardZero(i)
  IN IF CivilOf(cut.day).year \notin MIN_YEAR..MAX_YEAR
     THEN answer = [error |-> "OUT_OF_RANGE"]
     ELSE /\ ~Failed(answer)
          /\ DayNumber(answer.date.year, answer.date.month, answer.date.day) = cut.day
          /\ isCivilDate(answer.date.year, answer.date.month, answer.date.day)
          /\ ((answer.hour * 60 + answer.minute) * 60 + answer.second) * 1000 + answer.ms = cut.ms
==============================================================================
