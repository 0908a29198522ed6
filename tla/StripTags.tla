------------------------------- MODULE StripTags -------------------------------
(***************************************************************************)
(* StringLib.cleanHtml: one pass over a string that takes its <...> tags   *)
(* away.  A position is an index from 1 on, and what is kept (out) is the  *)
(* set of the positions of its characters: slices are appended in order.   *)
(*                                                                         *)
(* The comment above stripTags promises the result of replacing            *)
(* /(<([^>]+)>)/g by nothing, in linear time; both are stated below.       *)
(***************************************************************************)
EXTENDS Integers, Sequences

CONSTANTS
  Char,
  Strings          \* what cleanHtml is given

StringsAssumption == Strings \subseteq Seq(Char)

VARIABLES
  turn,            \* "first", "search", "loop" or "done"
  str,
  open, keepFrom,
  out,
  tags,            \* history: the tags taken away, first and last position
  from,            \* where the next search for '<' begins
  scanned          \* history: characters that the two searches have looked at

stripVars == <<turn, str, open, keepFrom, out, tags, from, scanned>>

None == 0          \* indexOf's -1

----------------------------------------------------------------------------
(* str.indexOf(c, start): i is the answer.                                 *)

IsIndexOf(c, start, i) ==
  \/ /\ i \in start .. Len(str) /\ str[i] = c
     /\ \A j \in start .. i - 1 : str[j] # c
  \/ i = None /\ \A j \in start .. Len(str) : str[j] # c

\* How many characters that took.
Cost(start, i) == (IF i = None THEN Len(str) ELSE i) - start + 1

StripInit ==
  /\ str \in Strings
  /\ turn = "search" /\ open = None /\ from = 1
  /\ keepFrom = 1 /\ out = {} /\ tags = {}
  /\ scanned = [lt |-> 0, gt |-> 0]

\* open = str.indexOf('<', from), and the test of the loop.  What is left is
\* kept when there is no '<'.
SearchOpen ==
  /\ turn = "search"
  /\ open' \in {None} \cup from .. Len(str) /\ IsIndexOf("<", from, open')
  /\ scanned' = [scanned EXCEPT !.lt = @ + Cost(from, open')]
  /\ turn' = IF open' = None THEN "done" ELSE "loop"
  /\ out' = IF open' = None THEN out \cup keepFrom .. Len(str) ELSE out
  /\ UNCHANGED <<str, from, keepFrom, tags>>

\* A '<' that no '>' follows ends the loop.
NoClose(close) ==
  /\ close = None
  /\ turn' = "done"
  /\ out' = out \cup keepFrom .. Len(str)
  /\ UNCHANGED <<from, keepFrom, tags>>

\* '<>' is no tag.
EmptyTag(close) ==
  /\ close = open + 1
  /\ turn' = "search" /\ from' = close
  /\ UNCHANGED <<keepFrom, out, tags>>

\* A tag is left out of what is kept.
Tag(close) ==
  /\ close > open + 1
  /\ turn' = "search" /\ from' = close + 1
  /\ out' = out \cup keepFrom .. open - 1
  /\ keepFrom' = close + 1
  /\ tags' = tags \cup {<<open, close>>}

\* The body of the loop.
SearchClose ==
  /\ turn = "loop"
  /\ \E close \in {None} \cup open + 1 .. Len(str) :
       /\ IsIndexOf(">", open + 1, close)
       /\ scanned' = [scanned EXCEPT !.gt = @ + Cost(open + 1, close)]
       /\ NoClose(close) \/ EmptyTag(close) \/ Tag(close)
  /\ UNCHANGED <<str, open>>

stripTags == SearchOpen \/ SearchClose

StripSpec == StripInit /\ [][stripTags]_stripVars

----------------------------------------------------------------------------
(* Properties                                                              *)

Positions == 1 .. Len(str)

\* str[p] to str[q] matches <([^>]+)>.
IsTag(p, q) ==
  /\ p \in Positions /\ q \in Positions /\ q > p + 1
  /\ str[p] = "<" /\ str[q] = ">"
  /\ \A i \in p + 1 .. q - 1 : str[i] # ">"

In(i, t) == t[1] <= i /\ i <= t[2]

\* The matches that a global regular expression finds, left to right: they do
\* not overlap, and a match that is not among them starts inside of one.
AreTheMatches ==
  /\ \A t \in tags : IsTag(t[1], t[2])
  /\ \A t, u \in tags : t # u => t[2] < u[1] \/ u[2] < t[1]
  /\ \A p, q \in Positions : IsTag(p, q) => \E t \in tags : In(p, t)

\* The result is the string without the matches of /(<([^>]+)>)/g, as the comment
\* above stripTags says.
LikeTheRegex ==
  turn = "done" =>
    /\ AreTheMatches
    /\ out = {i \in Positions : \A t \in tags : ~In(i, t)}

\* What is kept has no tag in it, not even one that joins what stood around
\* another: a '<' that is kept has its '>' next to it, or no '>' behind it.
NoTagLeft ==
  turn = "done" =>
    \A p \in out : str[p] = "<" =>
      \/ p + 1 \in out /\ str[p + 1] = ">"
      \/ \A q \in Positions : q > p => str[q] # ">"

\* No search looks at a character twice: the work is linear.
Linear == scanned.lt <= Len(str) /\ scanned.gt <= Len(str)

StripTypeOK ==
  /\ turn \in {"search", "loop", "done"}
  /\ str \in Seq(Char)
  /\ from \in 1 .. Len(str) + 1
  /\ keepFrom \in 1 .. from
  /\ open \in 0 .. Len(str)
  /\ out \subseteq Positions
  /\ tags \subseteq Positions \X Positions
  /\ scanned \in [lt : Int, gt : Int]

\* Up to which position all is settled.
Settled == CASE turn = "search" -> from - 1
             [] turn = "loop" -> open - 1
             [] OTHER -> Len(str)

TagsSoFar ==
  /\ \A t \in tags : IsTag(t[1], t[2]) /\ t[2] < keepFrom
  /\ \A t, u \in tags : t # u => t[2] < u[1] \/ u[2] < t[1]
  /\ \A p, q \in Positions : p <= Settled /\ IsTag(p, q) => \E t \in tags : In(p, t)

OutSoFar ==
  out = {i \in Positions : (i < keepFrom \/ turn = "done") /\ \A t \in tags : ~In(i, t)}

\* A '<' that stands, before what is settled.
StandingSoFar ==
  \A p \in Positions :
    p <= Settled /\ str[p] = "<" /\ (\A t \in tags : ~In(p, t)) =>
      \/ p + 1 \in Positions /\ str[p + 1] = ">"
      \/ \A q \in Positions : q > p => str[q] # ">"

AtTheLoop ==
  /\ turn = "loop" => open \in from .. Len(str) /\ str[open] = "<" /\ keepFrom <= open
  /\ scanned.lt <= (IF turn = "search" THEN from - 1 ELSE IF turn = "loop" THEN open ELSE Len(str))
  /\ scanned.gt <= Len(str) /\ (turn # "done" => scanned.gt <= from)

StripIInv == StripTypeOK /\ TagsSoFar /\ OutSoFar /\ StandingSoFar /\ AtTheLoop
==============================================================================
