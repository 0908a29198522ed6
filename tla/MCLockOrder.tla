----------------------------- MODULE MCLockOrder -----------------------------
EXTENDS LockOrder
CONSTANTS account, order

\* The spec of docs/code/lib-postgres.md, cut to what the instance needs.
MCOrders == [standard |-> <<account, order>>, cleanup |-> <<order>>]
MCHelpers == {"lockAccount", "lockOrder"}
MCPlaces == [lockAccount |-> [standard |-> account, cleanup |-> NoName],
             lockOrder   |-> [standard |-> order, cleanup |-> order]]
MCRows == {"a", "o", "q"}
MCHelperOf == [a |-> "lockAccount", o |-> "lockOrder", q |-> NoName]
============================================================================
