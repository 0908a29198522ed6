---------------------------- MODULE MCGuardedWrite ----------------------------
EXTENDS GuardedWrite

At(year, month, day, ms, us) == [day |-> DayNumber(year, month, day), ms |-> ms, us |-> us]

\* Both sides of 1970, the ends of the years that are read, leap and common ends
\* of February.
MCStamps == {At(1969, 12, 31, 86399999, 999), At(1970, 1, 1, 0, 0),
             At(0, 12, 31, 86399999, 500), At(9999, 12, 31, 86399999, 999),
             At(2000, 2, 29, 1, 1), At(1900, 2, 28, 43200000, 0)}
MCOffsets == {0, 19800, -28378}
MCTable == [mapped |-> [code |-> "CONFLICT", supplied |-> {}],
            defect |-> [code |-> "INTERNAL", supplied |-> {}],
            asking |-> [code |-> "LIMIT", supplied |-> {"max"}]]
MCConstraints == DOMAIN MCTable \cup {"unknown"}
MCColumns == OwnTypes \cup {"text[]"}

\* Every text of one character alone and next to another, and two of the longer ones.
MCElements ==
  {Null, [text |-> <<>>]}
    \cup {[text |-> <<Mark(k)>>] : k \in Special \cup {"NULL", "plain"}}
MCTwo == <<[text |-> <<Mark("backslash"), Mark("quote")>>], [text |-> <<Mark("NULL"), Mark("plain")>>]>>
MCArrays == {<<>>, MCTwo} \cup {<<e>> : e \in MCElements} \cup {<<e, MCTwo[1]>> : e \in MCElements}
==============================================================================
