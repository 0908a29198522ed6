------------------------------ MODULE ArrayText ------------------------------
(***************************************************************************)
(* arrayOf: from the text of a one-dimensional array to its elements.  A   *)
(* text is a sequence of characters; a character is a record whose kind is *)
(* one of the five the grammar knows, "space", "NULL" (the four letters,   *)
(* in any case, taken as one), or "plain".  A value no expression looks    *)
(* into, such as a timestamp with its spaces, is one "space" character.    *)
(***************************************************************************)
EXTENDS Integers, Sequences, SequencesExt

\* The character of a kind that says nothing else.
Mark(kind) == [kind |-> kind, is |-> kind]

Malformed == [error |-> "MALFORMED"]
Null == [null |-> TRUE]

\* The four letters, in any case, and nothing else.
ReadsNull(chars) == Len(chars) = 1 /\ chars[1].kind = "NULL"

\* What an unquoted element may not hold.
Special == {"{", "}", ",", "quote", "backslash", "space"}

\* ELEMENT, sticky at from.  The closing quote: the first that no backslash is
\* before, or 0.
ClosingQuote(inner, from) ==
  LET close[i \in from..(Len(inner) + 2)] ==
        IF i > Len(inner) THEN 0
        ELSE CASE inner[i].kind = "quote" -> i
               [] inner[i].kind = "backslash" -> close[i + 2]
               [] OTHER -> close[i + 1]
  IN close[from]

\* The end of the run of characters that are not special.
RunEnd(inner, from) ==
  CHOOSE e \in (from - 1)..Len(inner) :
    /\ \A i \in from..e : inner[i].kind \notin Special
    /\ e = Len(inner) \/ inner[e + 1].kind \in Special

\* replace(ESCAPE, "$1")
Unescape(chars) ==
  LET rest[i \in 1..(Len(chars) + 2)] ==
        IF i > Len(chars) THEN <<>>
        ELSE IF chars[i].kind = "backslash" THEN <<chars[i + 1]>> \o rest[i + 2]
        ELSE <<chars[i]>> \o rest[i + 1]
  IN rest[1]

\* The element at from and the place after it; next = 0 when there is none.
scanElement(inner, from) ==
  IF from > Len(inner) THEN [value |-> Null, next |-> 0]
  ELSE IF inner[from].kind = "quote"
    THEN LET close == ClosingQuote(inner, from + 1)
         IN IF close = 0 THEN [value |-> Null, next |-> 0]
            ELSE [value |-> [text |-> Unescape(SubSeq(inner, from + 1, close - 1))],
                  next |-> close + 1]
  ELSE LET end == RunEnd(inner, from)
           run == SubSeq(inner, from, end)
       IN CASE run = <<>> -> [value |-> Null, next |-> 0]
            [] ReadsNull(run) -> [value |-> Null, next |-> end + 1]
            [] OTHER -> [value |-> [text |-> run], next |-> end + 1]

\* The elements, or Malformed: [elements |-> a sequence] or [error |-> ...].
Before(value, rest) ==
  IF DOMAIN rest = {"error"} THEN rest ELSE [elements |-> <<value>> \o rest.elements]

\* What the element e of inner is the first of; split holds what comes at each place.
FromElement(inner, e, split) ==
  CASE e.next = 0 -> Malformed
    [] e.next = Len(inner) + 1 -> [elements |-> <<e.value>>]
    [] e.next \in 1..Len(inner) ->
         IF inner[e.next].kind # "," THEN Malformed
         ELSE Before(e.value, split[e.next + 1])

ElementsOf(inner) ==
  LET split[at \in 1..(Len(inner) + 2)] == FromElement(inner, scanElement(inner, at), split)
  IN IF inner = <<>> THEN [elements |-> <<>>] ELSE split[1]

splitArray(text) ==
  IF Len(text) = 0 \/ Head(text).kind # "{" \/ Last(text).kind # "}" THEN Malformed
  ELSE ElementsOf(SubSeq(text, 2, Len(text) - 1))

\* The texts of the elements that are not NULL.
TextsIn(got) ==
  IF DOMAIN got = {"error"} THEN {}
  ELSE {e.text : e \in {got.elements[i] : i \in DOMAIN got.elements} \ {Null}}
ElementTexts(text) == TextsIn(splitArray(text))

\* arrayOf(element), element being a function of ElementTexts: the first element
\* that its parser refuses fails the array.
FirstRefusal(values, bad) ==
  IF bad = {} THEN [elements |-> values]
  ELSE values[CHOOSE i \in bad : \A j \in bad : i <= j]

Collected(values) == FirstRefusal(values, {i \in DOMAIN values : DOMAIN values[i] = {"error"}})

Parsed(element, got) ==
  IF DOMAIN got = {"error"} THEN got
  ELSE Collected([i \in DOMAIN got.elements |->
         IF got.elements[i] = Null THEN Null ELSE element[got.elements[i].text]])

arrayOf(element, text) == Parsed(element, splitArray(text))

----------------------------------------------------------------------------
(* The reference: the text a server prints of an array (array_out): an     *)
(* element is quoted when it is empty, reads as NULL or holds a special    *)
(* character.                                                              *)

Escaped(chars) ==
  FlattenSeq([i \in DOMAIN chars |->
    IF chars[i].kind \in {"quote", "backslash"} THEN <<Mark("backslash"), chars[i]>>
    ELSE <<chars[i]>>])

ElementOut(value) ==
  IF value = Null THEN <<Mark("NULL")>>
  ELSE IF \/ value.text = <<>>
          \/ ReadsNull(value.text)
          \/ \E i \in DOMAIN value.text : value.text[i].kind \in Special
       THEN <<Mark("quote")>> \o Escaped(value.text) \o <<Mark("quote")>>
       ELSE value.text

array_out(values) ==
  <<Mark("{")>>
    \o FlattenSeq([i \in DOMAIN values |->
         (IF i = 1 THEN <<>> ELSE <<Mark(",")>>) \o ElementOut(values[i])])
    \o <<Mark("}")>>
==============================================================================
