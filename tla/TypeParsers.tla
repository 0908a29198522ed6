----------------------------- MODULE TypeParsers -----------------------------
(***************************************************************************)
(* The parsers createTypeRegistry puts in front of the driver's, and what  *)
(* a server prints of the value of a column.  They read text only, and     *)
(* none of them makes a Date.                                              *)
(***************************************************************************)
EXTENDS Timestamptz, ArrayText

\* parseDate: the text itself, when its calendar has the day.
parseDate(t) ==
  IF ~t.matched THEN [error |-> "MALFORMED"]
  ELSE IF t.year < MIN_YEAR \/ ~isCivilDate(t.year, t.month, t.day) THEN [error |-> "OUT_OF_RANGE"]
  ELSE t

\* parseTime: hours and minutes; what has seconds is refused and not cut.
parseTime(t) ==
  CASE ~t.matched \/ t.hour > 24 \/ t.minute > 59 \/ t.second > 59 -> [error |-> "MALFORMED"]
    [] OTHER ->
         IF t.second # 0 \/ t.microseconds # 0 THEN [error |-> "TIME_HAS_SECONDS"]
         ELSE IF t.hour = 24 THEN [error |-> "OUT_OF_RANGE"]
         ELSE [hour |-> t.hour, minute |-> t.minute]

\* refuse: the driver's own parser would make a Date.
refuse(t) == [error |-> "UNSUPPORTED_TYPE"]

\* An element is one character that holds the whole value, as scanElement gives it.
OfDate(text) == [chars \in ElementTexts(text) |-> parseDate(chars[1].is)]
OfTime(text) == [chars \in ElementTexts(text) |-> parseTime(chars[1].is)]
OfTimestamptz(text) == [chars \in ElementTexts(text) |-> parseTimestamptz(chars[1].is)]

\* TYPE_PARSERS, by the name of the type; and the types that have an entry.  Those
\* of bigint, bigint[] and uuid[], checks of the text alone, are left out.
OwnTypes == {"date", "time", "timestamptz", "date[]", "time[]", "timestamptz[]",
             "timestamp", "timestamp[]"}
OwnParse(type, text) ==
  CASE type = "date" -> parseDate(text)
    [] type = "time" -> parseTime(text)
    [] type = "timestamptz" -> parseTimestamptz(text)
    [] type = "date[]" -> arrayOf(OfDate(text), text)
    [] type = "time[]" -> arrayOf(OfTime(text), text)
    [] type = "timestamptz[]" -> arrayOf(OfTimestamptz(text), text)
    [] type \in {"timestamp", "timestamp[]"} -> refuse(text)

\* createTypeRegistry: getTypeParser(oid, format), applied to the text; driver is
\* what the driver's own parser makes of it.
TypeRegistry(type, format, text, driver) ==
  IF format # "binary" /\ type \in OwnTypes THEN OwnParse(type, text) ELSE driver

\* The driver's parser of text[], which a service has registered as
\* arrayOf((text) => text, 'text[]').
Same(text) == [chars \in ElementTexts(text) |-> [text |-> chars]]
ServiceParse(text) == arrayOf(Same(text), text)

----------------------------------------------------------------------------
(* The server, for a row that stores an exact instant, its date and its    *)
(* time in columns of these types, or an array of texts                    *)

PrintedDate(civil) ==
  [matched |-> civil.year \in 1..9999, year |-> civil.year, month |-> civil.month, day |-> civil.day]

PrintedTime(i) ==
  LET second == i.ms \div 1000
  IN [matched |-> TRUE, hour |-> second \div 3600, minute |-> (second % 3600) \div 60,
      second |-> second % 60, microseconds |-> (i.ms % 1000) * 1000 + i.us]

\* An array of the value and NULL; a timestamp has a space in it, a date has not.
PrintedPair(kind, value) ==
  array_out(<<[text |-> <<[kind |-> kind, is |-> value]>>], Null>>)

PrintedColumn(type, i, offset) ==
  CASE type \in {"timestamptz", "timestamp"} -> Printed(i, offset)
    [] type = "date" -> PrintedDate(CivilOf(i.day))
    [] type = "time" -> PrintedTime(i)
    [] type = "date[]" -> PrintedPair("plain", PrintedDate(CivilOf(i.day)))
    [] type = "time[]" -> PrintedPair("plain", PrintedTime(i))
    [] type \in {"timestamptz[]", "timestamp[]"} -> PrintedPair("space", Printed(i, offset))
    [] type = "text[]" -> array_out(i)

\* A text of each type that its grammar does not have.
OtherText(type) ==
  IF type \in {"date[]", "time[]", "timestamptz[]", "timestamp[]", "text[]"}
    THEN <<Mark("{"), Mark("{"), Mark("plain"), Mark("}"), Mark("}")>>
    ELSE Other

DateExact(read, i) ==
  LET civil == CivilOf(i.day)
  IN IF civil.year \in MIN_YEAR..MAX_YEAR
     THEN /\ ~Failed(read)
          /\ [year |-> read.year, month |-> read.month, day |-> read.day] = civil
     ELSE read = [error |-> "MALFORMED"]

TimeExact(read, i) ==
  IF i.ms % 60000 = 0 /\ i.us = 0
  THEN read = [hour |-> i.ms \div 3600000, minute |-> (i.ms % 3600000) \div 60000]
  ELSE read = [error |-> "TIME_HAS_SECONDS"]

\* Of a pair: every element in its place, or what refused the value.
PairKept(read) == Failed(read) \/ (Len(read.elements) = 2 /\ read.elements[2] = Null)
ValueOf(read) == IF Failed(read) THEN read ELSE read.elements[1]

ColumnExact(type, read, i) ==
  CASE type = "timestamptz" -> Exact(read, i)
    [] type = "timestamp" -> read = [error |-> "UNSUPPORTED_TYPE"]
    [] type = "timestamp[]" -> read = [error |-> "UNSUPPORTED_TYPE"]
    [] type = "date" -> DateExact(read, i)
    [] type = "time" -> TimeExact(read, i)
    [] type = "date[]" -> PairKept(read) /\ DateExact(ValueOf(read), i)
    [] type = "time[]" -> PairKept(read) /\ TimeExact(ValueOf(read), i)
    [] type = "timestamptz[]" -> PairKept(read) /\ Exact(ValueOf(read), i)
    [] type = "text[]" -> read = [elements |-> i]
==============================================================================
