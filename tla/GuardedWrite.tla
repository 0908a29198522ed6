----------------------------- MODULE GuardedWrite -----------------------------
(***************************************************************************)
(* Handlers that update one row under its version: the update, then either *)
(* the parser of the column it returns (TypeParsers) or guardVersion,      *)
(* which says why no row was affected, and mapDbError around both.  Each   *)
(* handler runs in a transaction of its own at READ COMMITTED, the default *)
(* of withTx: every statement sees what is committed when it starts.  A    *)
(* COMMIT may lose its answer: the handler answers an error, and the       *)
(* server decides alone.                                                   *)
(*                                                                         *)
(* External: the server, and the statements, which are the consumer's and  *)
(* follow docs/code/lib-postgres.md.  Ids are never used again.            *)
(***************************************************************************)
EXTENDS TypeParsers, FiniteSets

CONSTANTS
  Calls, NoCall,
  Stamps,        \* the exact instants a write may store
  Columns,       \* the types of column a handler returns
  Arrays,        \* the arrays of texts a write may store
  Offsets,       \* the zones of sessions, as seconds east of UTC
  Constraints,   \* names of constraints; NoName: an error that names none
  NoName,
  table,         \* mapDbError's table: [code, supplied] for some constraints
  Details,       \* the keys the handler supplies
  MaxVersion     \* bound on the versions of the row

ASSUME GuardedAssumption ==
  /\ IsFiniteSet(Calls)
  /\ NoCall \notin Calls
  /\ MaxVersion \in Nat \ {0}

\* What a column stores: an instant, whose date and time are columns as well, in
\* any zone, or an array of texts.
ASSUME StoredAssumption ==
  /\ Columns \subseteq OwnTypes \cup {"text[]"}
  /\ Stamps \subseteq [day : Int, ms : 0..MS_PER_DAY - 1, us : 0..999]
  /\ Offsets \subseteq Int
  /\ Arrays \subseteq Seq({Null} \cup [text : Seq([kind : STRING, is : STRING])])

VARIABLES
  row,       \* [alive, version, sees]: sees holds the calls whose actor may see it
  holder,    \* the call whose update is not committed yet
  stage, expected, strict,
  text,      \* what the step wrote, in a column of which type, and read back
  answer,
  counted,   \* how often the counter was called, name by name
  log,       \* history: the committed updates, as <<version, call>>
  lost,      \* history: the calls whose COMMIT lost its answer
  saw, hid   \* history: the row was, and was not, visible since the missed update

guardVars ==
  <<row, holder, stage, expected, strict, text, answer, counted, log, lost, saw, hid>>

Counters == {"db_error_internal_total", "db_constraint_unmapped_total",
             "db_tx_lock_timeouts_total", "db_tx_retry_exhausted_total"}
TxReasons == {"LOCK_TIMEOUT", "TX_RETRY_EXHAUSTED"}
Internals == {"CONSTRAINT_UNMAPPED", "CONSTRAINT_INTERNAL", "DETAILS_NOT_SUPPLIED", "DB_ERROR",
              "DB_VALUE_UNREADABLE", "DB_CONNECTION", "DB_TX_MISUSE", "UNEXPECTED_ERROR",
              "VERSION_UNCHANGED", "REREAD_UNREADABLE"}
Mapped == {table[c].code : c \in DOMAIN table}
Codes == {"NOT_FOUND", "STALE_VERSION"} \cup Mapped

\* The code of an error and the reason of an internal one are two fields of it: a
\* table that names a reason as a code names another thing.
ASSUME TableAssumption == Mapped \cap (Internals \cup TxReasons \cup {"none", "ok"}) = {}

GuardTypeOK ==
  /\ row \in [alive : BOOLEAN, version : 1..MaxVersion, sees : SUBSET Calls]
  /\ holder \in Calls \cup {NoCall}
  /\ stage \in [Calls -> {"load", "update", "commit", "guard", "done"}]
  /\ expected \in [Calls -> 0..MaxVersion]
  /\ strict \in [Calls -> BOOLEAN]
  /\ answer \in [Calls -> {"none", "ok"} \cup Internals \cup TxReasons \cup Codes]
  /\ counted \in [Counters -> Nat]
  /\ log \subseteq (1..MaxVersion) \X Calls
  /\ lost \subseteq Calls
  /\ saw \in [Calls -> BOOLEAN] /\ hid \in [Calls -> BOOLEAN]

Unread == [column |-> "none"]

GuardInit ==
  /\ row \in [alive : {TRUE}, version : {1}, sees : SUBSET Calls]
  /\ holder = NoCall
  /\ stage = [c \in Calls |-> "load"]
  /\ expected = [c \in Calls |-> 0]
  /\ strict = [c \in Calls |-> FALSE]
  /\ text = Unread
  /\ answer = [c \in Calls |-> "none"]
  /\ counted = [n \in Counters |-> 0]
  /\ log = {}
  /\ lost = {}
  /\ saw = [c \in Calls |-> FALSE]
  /\ hid = [c \in Calls |-> FALSE]

Goto(c, p) == stage' = [stage EXCEPT ![c] = p]
Sees(c) == row.alive /\ c \in row.sees

----------------------------------------------------------------------------
(* Errors                                                                  *)

\* internalFailure: one count, one log line, the internal error of a reason.
Internal(reason) == [code |-> reason, counts |-> {"db_error_internal_total"}]
Unmapped == [code |-> "CONSTRAINT_UNMAPPED", counts |-> {"db_constraint_unmapped_total"}]
Made(code) == [code |-> code, counts |-> {}]

\* txFailure: the error with which withTx gives up, built and counted by withTx.
txFailure(reason) ==
  [code |-> reason,
   counts |-> {IF reason = "LOCK_TIMEOUT" THEN "db_tx_lock_timeouts_total"
               ELSE "db_tx_retry_exhausted_total"}]

\* What a statement may fail with: the server names a violation or another
\* error; the connection, the handle or a parser of the kit; anything else.
Failures ==
  [kind : {"violation"}, constraint : Constraints \cup {NoName}]
    \cup [kind : {"sqlstate", "DbConnectError", "DbTxError", "DbParseError", "unexpected"}]

\* mapViolation: the row of the table, if it says what to answer.
mapViolation(name) ==
  IF name \notin DOMAIN table THEN Unmapped
  ELSE IF table[name].code = "INTERNAL" THEN Internal("CONSTRAINT_INTERNAL")
  ELSE IF ~(table[name].supplied \subseteq Details) THEN Internal("DETAILS_NOT_SUPPLIED")
  ELSE Made(table[name].code)

\* Mutant: an error of the family is not recognised and is built again.
mapDbErrorAgain(e) ==
  CASE e.kind = "violation" -> mapViolation(e.constraint)
    [] e.kind = "DbParseError" -> Internal("DB_VALUE_UNREADABLE")
    [] e.kind = "DbConnectError" -> Internal("DB_CONNECTION")
    [] e.kind = "DbTxError" -> Internal("DB_TX_MISUSE")
    [] e.kind = "sqlstate" -> Internal("DB_ERROR")
    [] OTHER -> Internal("UNEXPECTED_ERROR")

\* An error of the family, of guardVersion or of withTx, comes back as it is.
mapDbError(e) ==
  CASE e.kind = "family" -> Made(e.code)
    [] e.kind = "violation" -> mapViolation(e.constraint)
    [] e.kind = "DbParseError" -> Internal("DB_VALUE_UNREADABLE")
    [] e.kind = "DbConnectError" -> Internal("DB_CONNECTION")
    [] e.kind = "DbTxError" -> Internal("DB_TX_MISUSE")
    [] e.kind = "sqlstate" -> Internal("DB_ERROR")
    [] OTHER -> Internal("UNEXPECTED_ERROR")

\* The handler answers what mapDbError makes of the error.  first holds what was
\* counted before.
Throw(c, e, first) ==
  LET m == mapDbError(e)
  IN /\ answer' = [answer EXCEPT ![c] = m.code]
     /\ counted' = [n \in Counters |->
          counted[n] + (IF n \in first THEN 1 ELSE 0) + (IF n \in m.counts THEN 1 ELSE 0)]
     /\ Goto(c, "done")

LetGo(c) == holder' = IF holder = c THEN NoCall ELSE holder

\* fn throws, or COMMIT is refused: the transaction is rolled back.
Refuse(c, e, first) == Throw(c, e, first) /\ LetGo(c)

----------------------------------------------------------------------------
(* The handler                                                             *)

\* The client sends a version the row has had.  Some handlers put the
\* visibility of the row into the update as well (strict).
Load(c) ==
  /\ stage[c] = "load"
  /\ \E v \in 1..row.version : expected' = [expected EXCEPT ![c] = v]
  /\ strict' \in {strict, [strict EXCEPT ![c] = TRUE]}
  /\ Goto(c, "update")
  /\ UNCHANGED <<row, holder, answer, counted, log, lost, saw, hid>>

Stored(column) == IF column = "text[]" THEN Arrays ELSE Stamps

\* What the handler reads back of a value, a zone and a text that may be out of
\* the grammar of the column.
ReadBack ==
  [column \in Columns |->
    [x \in Stored(column) \X Offsets \X BOOLEAN |->
      LET printed == IF x[3] THEN PrintedColumn(column, x[1], x[2]) ELSE OtherText(column)
      IN TypeRegistry(column, "text", printed, ServiceParse(printed))]]

\* UPDATE ... WHERE id = $1 AND version = $2.  A row that matches is locked, once
\* the update that holds it is committed or gone; the row it left is looked at.
Matches(c) == row.alive /\ row.version = expected[c] /\ (strict[c] => c \in row.sees)

UpdateRow(c) ==
  /\ stage[c] = "update"
  /\ holder = NoCall
  /\ Matches(c)
  /\ \E column \in Columns : \E i \in Stored(column), offset \in Offsets, readable \in BOOLEAN :
       /\ text' = [column |-> column, wrote |-> i, readable |-> readable,
                   read |-> ReadBack[column][i, offset, readable]]
       /\ IF Failed(text'.read)
          THEN Refuse(c, [kind |-> "DbParseError"], {})
          ELSE /\ holder' = c
               /\ Goto(c, "commit")
               /\ UNCHANGED <<answer, counted>>
  /\ UNCHANGED <<row, expected, strict, log, lost, saw, hid>>

\* Mutant: a count of 0 is taken for a success.
MissTaken(c) ==
  /\ stage[c] = "update"
  /\ ~Matches(c)
  /\ answer' = [answer EXCEPT ![c] = "ok"]
  /\ Goto(c, "done")
  /\ UNCHANGED <<row, holder, expected, strict, counted, log, lost, saw, hid>>

\* No row is affected: assertAffected's mismatch, and the guard is asked why.  A
\* row that does not match is not waited for.
Miss(c) ==
  /\ stage[c] = "update"
  /\ ~Matches(c)
  /\ Goto(c, "guard")
  /\ saw' = [saw EXCEPT ![c] = Sees(c)]
  /\ hid' = [hid EXCEPT ![c] = ~Sees(c)]
  /\ UNCHANGED <<row, holder, expected, strict, answer, counted, log, lost>>

\* A statement fails, the update or the re-read of the guard (which throws the
\* failure unchanged).
StatementFails(c) ==
  /\ stage[c] \in {"update", "guard"}
  /\ \E e \in Failures : Refuse(c, e, {})
  /\ UNCHANGED <<row, expected, strict, log, lost, saw, hid>>

\* withTx gives up: no lock in time, or a conflict after the last retry.
TxFails(c) ==
  /\ stage[c] \in {"update", "guard", "commit"}
  /\ \E reason \in TxReasons :
       LET f == txFailure(reason)
       IN Refuse(c, [kind |-> "family", code |-> f.code], f.counts)
  /\ UNCHANGED <<row, expected, strict, log, lost, saw, hid>>

\* A conflict rolls the transaction back, and withTx runs fn again.
Again(c) ==
  /\ stage[c] \in {"update", "guard", "commit"}
  /\ LetGo(c)
  /\ Goto(c, "update")
  /\ UNCHANGED <<row, expected, strict, answer, counted, log, lost, saw, hid>>

\* The server makes the update durable.
Durable(c) ==
  /\ row.version < MaxVersion
  /\ row' = [row EXCEPT !.version = @ + 1]
  /\ log' = log \cup {<<row.version, c>>}

Commit(c) ==
  /\ stage[c] = "commit"
  /\ Durable(c)
  /\ holder' = NoCall
  /\ answer' = [answer EXCEPT ![c] = "ok"]
  /\ Goto(c, "done")
  /\ UNCHANGED <<expected, strict, counted, lost, saw, hid>>

\* COMMIT is refused (also by a deferred constraint), or rolls back (DbTxError).
CommitFails(c) ==
  /\ stage[c] = "commit"
  /\ \E e \in {f \in Failures : f.kind # "DbParseError"} : Refuse(c, e, {})
  /\ UNCHANGED <<row, expected, strict, log, lost, saw, hid>>

\* The connection is lost with the answer of COMMIT, and withTx rethrows the
\* failure: one without an SQLSTATE, or the server's last word.
CommitLost(c) ==
  /\ stage[c] = "commit"
  /\ \E e \in [kind : {"unexpected", "sqlstate"}] : Throw(c, e, {})
  /\ lost' = lost \cup {c}
  /\ UNCHANGED <<row, holder, expected, strict, log, saw, hid>>

\* The server commits what it was sent, or rolls back: the lock is let go.
ServerEnds(c) ==
  /\ holder = c /\ stage[c] = "done"
  /\ Durable(c) \/ UNCHANGED <<row, log>>
  /\ holder' = NoCall
  /\ UNCHANGED <<stage, expected, strict, answer, counted, lost, saw, hid>>

\* The answers of the re-read: the row when it is visible, or a shape that its
\* statement should not have.
Shapes == {"asked", "several", "no version"}

\* Mutant: the expected version is taken for a stale one.
GuardStale(shape, c) ==
  CASE shape = "asked" /\ ~Sees(c) -> Made("NOT_FOUND")
    [] shape # "asked" -> Internal("REREAD_UNREADABLE")
    [] OTHER -> Made("STALE_VERSION")

\* guardVersion: no row, several rows, a row without a version, the expected
\* version, another one.
GuardAnswer(shape, c) ==
  CASE shape = "asked" /\ ~Sees(c) -> Made("NOT_FOUND")
    [] shape # "asked" -> Internal("REREAD_UNREADABLE")
    [] shape = "asked" /\ Sees(c) /\ row.version = expected[c] -> Internal("VERSION_UNCHANGED")
    [] OTHER -> Made("STALE_VERSION")

guardVersion(c) ==
  /\ stage[c] = "guard"
  /\ \E shape \in Shapes :
       LET g == GuardAnswer(shape, c)
       IN Refuse(c, [kind |-> "family", code |-> g.code], g.counts)
  /\ UNCHANGED <<row, expected, strict, log, lost, saw, hid>>

----------------------------------------------------------------------------
(* Others: they delete the row, and change who sees it, which may be kept  *)
(* in other rows and waits for no update.                                  *)

Becomes(r) ==
  /\ row' = r
  /\ saw' = [c \in Calls |-> saw[c] \/ (stage[c] = "guard" /\ r.alive /\ c \in r.sees)]
  /\ hid' = [c \in Calls |-> hid[c] \/ (stage[c] = "guard" /\ ~(r.alive /\ c \in r.sees))]
  /\ UNCHANGED <<holder, stage, expected, strict, answer, counted, log, lost>>

Delete == row.alive /\ holder = NoCall /\ Becomes([row EXCEPT !.alive = FALSE])
Share(c) == row.alive /\ c \notin row.sees /\ Becomes([row EXCEPT !.sees = @ \cup {c}])
Hide(c) == row.alive /\ c \in row.sees /\ Becomes([row EXCEPT !.sees = @ \ {c}])

GuardNext ==
  \/ \E c \in Calls : UpdateRow(c)
  \/ /\ \/ \E c \in Calls :
            \/ Load(c)
            \/ Miss(c)
            \/ StatementFails(c)
            \/ TxFails(c)
            \/ Again(c)
            \/ Commit(c)
            \/ CommitFails(c)
            \/ CommitLost(c)
            \/ ServerEnds(c)
            \/ guardVersion(c)
            \/ Share(c)
            \/ Hide(c)
        \/ Delete
     /\ text' = Unread

GuardSpec == GuardInit /\ [][GuardNext]_guardVars

----------------------------------------------------------------------------
(* Properties                                                              *)

Answering(S) == Cardinality({c \in Calls : answer[c] \in S})

\* Every internal error is counted once and under its own name, also the ones
\* that guardVersion or withTx builds and mapDbError then sees again.
CountedOnce ==
  /\ counted["db_constraint_unmapped_total"] = Answering({"CONSTRAINT_UNMAPPED"})
  /\ counted["db_error_internal_total"] = Answering(Internals \ {"CONSTRAINT_UNMAPPED"})
  /\ counted["db_tx_lock_timeouts_total"] = Answering({"LOCK_TIMEOUT"})
  /\ counted["db_tx_retry_exhausted_total"] = Answering({"TX_RETRY_EXHAUSTED"})

\* An update is not taken for done, nor one client's for another's: ok is answered
\* only for a committed update of the version that was sent, of the clients that
\* sent one version at most one has its update committed, and a client that is
\* answered anything but ok has changed nothing, with one exception: its COMMIT
\* lost its answer, and then it is told of no reason but a failed database.
NoLostUpdate ==
  /\ \A c \in Calls : answer[c] = "ok" => <<expected[c], c>> \in log
  /\ \A e \in log :
       answer[e[2]] = "ok"
         \/ (e[2] \in lost /\ answer[e[2]] \in {"DB_ERROR", "UNEXPECTED_ERROR"})
  /\ \A a, b \in log : a[1] = b[1] => a = b

\* What guardVersion names is true of the row: not found only when it was at
\* some moment hidden from the actor, stale only when the actor could see a row
\* that is newer than the client's copy (an actor that never sees the row is
\* not told of it), and the version unchanged only when the update asked for
\* more than the version and the row came into sight after it.  A table may
\* give the first two codes to a constraint as well.
RefusalIsTrue ==
  \A c \in Calls :
    /\ answer[c] = "NOT_FOUND" => hid[c] \/ "NOT_FOUND" \in Mapped
    /\ answer[c] = "STALE_VERSION" =>
         (saw[c] /\ row.version > expected[c]) \/ "STALE_VERSION" \in Mapped
    /\ answer[c] = "VERSION_UNCHANGED" => strict[c] /\ hid[c] /\ saw[c]

\* Whatever the zone of the session, a handler that succeeds has read the value
\* it stored: of an instant all but what is below a millisecond, cut toward
\* 1970, of a date and a time everything, and of an array every element in its
\* place.  One that fails has met a value that its type cannot say, or a text
\* that is not of its grammar.
StampIsExact ==
  text # Unread =>
    IF text.readable THEN ColumnExact(text.column, text.read, text.wrote)
    ELSE Failed(text.read)

\* The row is locked by the update that has matched it, which is not answered yet
\* or whose COMMIT lost its answer.
LockOk ==
  /\ \A c \in Calls : stage[c] = "commit" => holder = c
  /\ holder # NoCall =>
       /\ row.alive /\ row.version = expected[holder]
       /\ stage[holder] = "commit" \/ (stage[holder] = "done" /\ holder \in lost)
  /\ \A c \in Calls : stage[c] # "done" => answer[c] = "none"
  /\ \A c \in lost : stage[c] = "done" /\ answer[c] \in {"DB_ERROR", "UNEXPECTED_ERROR"}

\* Each version below the row's was left by one update, of a call that has ended.
LogOk ==
  /\ \A c \in Calls : stage[c] # "load" => expected[c] \in 1..row.version
  /\ \A e \in log : e[1] = expected[e[2]] /\ e[1] < row.version /\ stage[e[2]] = "done"
  /\ NoLostUpdate

\* Between the update that missed and the re-read, what hid the row from the
\* update stands, or is known to have been.
GuardOk(c) ==
  stage[c] = "guard" =>
    /\ Sees(c) => saw[c]
    /\ ~Sees(c) => hid[c]
    /\ row.alive => row.version > expected[c] \/ (strict[c] /\ hid[c])

GuardIInv ==
  /\ GuardTypeOK /\ CountedOnce /\ LockOk /\ LogOk
  /\ \A c \in Calls : GuardOk(c)
  /\ RefusalIsTrue
==============================================================================
