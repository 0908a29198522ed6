------------------------------- MODULE Logins -------------------------------
(***************************************************************************)
(* The three login mutations on the rows of `user` and `userAdmin`, beside *)
(* the script that rewrites the flags account.disabled and account.deleted *)
(* from the strings that versions up to 5.0.3 stored to booleans, and      *)
(* beside the writers of those flags.                                      *)
(*                                                                         *)
(* A login runs in a MongoDB transaction that conflicts, fails and is run  *)
(* again; Sessions models what it leaves in Redis, here it only may throw. *)
(* The script may be killed between any two writes, and be run again.      *)
(*                                                                         *)
(* External: MongoDB, the casts of Mongoose, and the writers of the flags  *)
(* (the control panel, the instances of 5.0.3 that still run, a soft       *)
(* delete).                                                                *)
(***************************************************************************)
EXTENDS Integers, FiniteSets, Sequences

CONSTANTS
  Reqs, NoReq,
  Rows,         \* [collection -> its rows], for "user" and "userAdmin"
  MaxFlags,     \* bound: flags that are there at first
  MaxTime,      \* bound on the clock
  MaxRetries,   \* bound on the callbacks that are run again
  MaxWrites,    \* bound on the writes of others
  MaxRuns       \* bound on the runs of the script

ASSUME LoginsAssumption ==
  /\ NoReq \notin Reqs
  /\ DOMAIN Rows = {"user", "userAdmin"}
  /\ Rows["user"] \cap Rows["userAdmin"] = {}
  /\ Rows["user"] \cup Rows["userAdmin"] # {}
  /\ {MaxFlags, MaxTime, MaxRetries, MaxWrites, MaxRuns} \subseteq Nat

AllRows == Rows["user"] \cup Rows["userAdmin"]
Fields == {"disabled", "deleted"}
Places == AllRows \X Fields

NoDate == -1
Dates == {NoDate} \cup (0 .. MaxTime)

\* What a flag may hold: nothing, a boolean, or a string (in quotes).  'True' stands
\* for every spelling of true but the plain one, 'yes' for '1' and 'no' for '0' too.
Strings == {"'true'", "'True'", "'false'", "'yes'", "'no'", "''", "'other'"}
Raw == {"absent", "true", "false"} \cup Strings

\* A row, as far as a login reads and writes it.
Docs == [disabled : Raw, deleted : Raw, firstLogin : Dates, lastLogin : Dates]

VARIABLES
  now,        \* the clock
  rows,       \* the committed rows
  lock,       \* row by row, the login whose open transaction wrote it
  current,    \* logins whose open transaction read their row as it still is
  pc, row,
  view,       \* the row as the transaction of a login sees it
  retries,    \* callbacks run again so far
  script,     \* [pc, at, batch, apply, exitCode]
  runs,       \* runs of the script so far
  writes,     \* writes of others so far
  meant,      \* history: what the last one to set a flag meant by it
  late,       \* history: places others wrote since the script read them
  lost        \* history: places the script wrote over while they were late

logins == <<pc, row, view, retries>>
db == <<rows, lock, current>>
others == <<writes, meant>>
vars == <<now, db, logins, script, runs, others, late, lost>>

\* The fields in the order the script visits them.
Sweep == <<<<"user", "disabled">>, <<"user", "deleted">>,
           <<"userAdmin", "disabled">>, <<"userAdmin", "deleted">>>>
PlacesAt(i) == Rows[Sweep[i][1]] \X {Sweep[i][2]}
Stored(p) == rows[p[1]][p[2]]

----------------------------------------------------------------------------
(* What a flag means to whom.                                              *)

\* What the writer of a flag meant, as the script's header says it.  An empty string
\* and a value nobody planned for say nothing.
Means(v) == CASE v \in {"true", "'true'", "'True'", "'yes'"} -> "yes"
              [] v \in {"false", "'false'", "'no'", "absent", "''"} -> "no"
              [] v = "'other'" -> "unknown"

\* A read through the schema, which says Boolean: Mongoose casts 'true', '1' and
\* 'yes', their opposites, and drops what it cannot cast, 'True' as well.
Hydrated(v) == v \in {"true", "'true'", "'yes'"}

\* A .lean() read is raw, and every string but the empty one is truthy.
Lean(v) == v = "true" \/ v \in Strings \ {"''"}

\* Mutant: the truth of the string, as in Boolean('false').
DecideTruthy(v) == IF v = "''" THEN "absent" ELSE IF v = "'other'" THEN v ELSE "true"

\* decide: what the script makes of a string; itself when it is left alone.
Decide(v) == CASE v \in {"'true'", "'True'"} -> "true"
               [] v = "'false'" -> "false"
               [] v = "''" -> "absent"
               [] v \in {"'yes'", "'no'", "'other'"} -> v

----------------------------------------------------------------------------
NoView == [disabled |-> "absent", deleted |-> "absent", firstLogin |-> NoDate,
           lastLogin |-> NoDate]
Anyone == CHOOSE x \in AllRows : TRUE
Off == [pc |-> "off", at |-> 0, batch |-> {}, apply |-> FALSE, exitCode |-> 0]

TypeOK ==
  /\ now \in 0 .. MaxTime
  /\ rows \in [AllRows -> Docs]
  /\ lock \in [AllRows -> Reqs \cup {NoReq}]
  /\ current \subseteq Reqs
  /\ pc \in [Reqs -> {"idle", "callback", "read", "commit", "done"}]
  /\ row \in [Reqs -> AllRows]
  /\ retries \in 0 .. MaxRetries
  /\ view \in [Reqs -> Docs]
  /\ script \in [pc : {"off", "find", "loop", "exited"}, at : 0 .. 4,
                 batch : SUBSET (Places \X Strings), apply : BOOLEAN, exitCode : {0, 2}]
  /\ runs \in 0 .. MaxRuns /\ writes \in 0 .. MaxWrites
  /\ meant \in [Places -> {"yes", "no", "unknown"}]
  /\ late \subseteq Places /\ lost \subseteq Places

Init ==
  /\ now = 0
  /\ \E f \in [Places -> Raw] :
       /\ Cardinality({p \in Places : f[p] # "absent"}) <= MaxFlags
       /\ rows = [x \in AllRows |-> [NoView EXCEPT !.disabled = f[<<x, "disabled">>],
                                                   !.deleted = f[<<x, "deleted">>]]]
  /\ lock = [x \in AllRows |-> NoReq]
  /\ current = {}
  /\ pc = [r \in Reqs |-> "idle"]
  /\ row = [r \in Reqs |-> Anyone]
  /\ retries = 0
  /\ view = [r \in Reqs |-> NoView]
  /\ script = Off
  /\ runs = 0 /\ writes = 0
  /\ meant = [p \in Places |-> Means(Stored(p))]
  /\ late = {} /\ lost = {}

----------------------------------------------------------------------------
(* The logins.                                                             *)

\* The transaction of r is aborted: whatever it had written is rolled back.
Abort(r) ==
  /\ lock' = [x \in AllRows |-> IF lock[x] = r THEN NoReq ELSE lock[x]]
  /\ current' = current \ {r}

Finish(r) ==
  /\ pc' = [pc EXCEPT ![r] = "done"]
  /\ view' = [view EXCEPT ![r] = NoView]
  /\ row' = [row EXCEPT ![r] = Anyone]

\* The arguments pass checkEmailLen and checkPwdLen, and name the row if any.
Call(r, collection) ==
  /\ pc[r] = "idle"
  /\ \E x \in Rows[collection] : row' = [row EXCEPT ![r] = x]
  /\ pc' = [pc EXCEPT ![r] = "callback"]
  /\ UNCHANGED <<now, db, view, retries, script, runs, others, late, lost>>

CallLogin4Ever(r) == Call(r, "user")
CallLoginRememberme(r) == Call(r, "user")
CallLoginAdmin(r) == Call(r, "userAdmin")

\* infoUserForLogin and infoUserAdminForLogin: the read that fixes the snapshot.
Read(r) ==
  /\ pc[r] = "callback"
  /\ pc' = [pc EXCEPT ![r] = "read"]
  /\ view' = [view EXCEPT ![r] = rows[row[r]]]
  /\ current' = current \cup {r}
  /\ UNCHANGED <<now, rows, lock, row, retries, script, runs, others, late, lost>>

\* Mutant: the flags are tested as they are stored.
LockedOutRaw(v) == Lean(v.deleted) \/ Lean(v.disabled)

\* _finalizeLoginCheck, past the password: deleted first, then disabled.
LockedOut(v) == Hydrated(v.deleted) \/ Hydrated(v.disabled)

\* A 401 or a 403 is no transient error: the transaction is aborted and it is
\* thrown.
Refuse(r) ==
  /\ pc[r] = "read"
  /\ Abort(r)
  /\ Finish(r)
  /\ UNCHANGED <<now, rows, retries, script, runs, others, late, lost>>

\* The arguments name no row with a valid address, or not its password, which
\* may change from one run of the callback to the next.
RefuseCredentials(r) == Refuse(r)

\* The credentials are right, and the row is deleted or disabled.
RefuseLockedOut(r) == LockedOut(view[r]) /\ Refuse(r)

\* Mutant: the update is sent without the session of the transaction.
ConflictMissed(r) == FALSE

\* A write in a transaction conflicts with a row that changed after the
\* snapshot, or that another open transaction has written.
Conflict(r) == r \notin current \/ lock[row[r]] \notin {NoReq, r}

\* What updateLoginStats4ever stores, and the other two with the flag rememberMe,
\* which is left out.
Stats(v) == [v EXCEPT !.lastLogin = now,
                      !.firstLogin = IF v.lastLogin = NoDate THEN now ELSE @]

UpdateLoginStats(r) ==
  /\ pc[r] = "read"
  /\ ~LockedOut(view[r])
  /\ ~Conflict(r)
  /\ lock' = [lock EXCEPT ![row[r]] = r]
  /\ view' = [view EXCEPT ![r] = Stats(@)]
  /\ pc' = [pc EXCEPT ![r] = "commit"]
  /\ UNCHANGED <<now, rows, current, row, retries, script, runs, others, late, lost>>

\* The server applies the transaction: every other open snapshot is old.
Commit(r) ==
  /\ pc[r] = "commit"
  /\ rows' = [rows EXCEPT ![row[r]].firstLogin = view[r].firstLogin,
                          ![row[r]].lastLogin = view[r].lastLogin]
  /\ lock' = [lock EXCEPT ![row[r]] = NoReq]
  /\ current' = {q \in current : row[q] # row[r]}
  /\ Finish(r)
  /\ UNCHANGED <<now, retries, script, runs, others, late, lost>>

\* A transient error (a write conflict, a failover) runs the callback again.
RetryTransient(r) ==
  /\ pc[r] \in {"callback", "read", "commit"}
  /\ retries < MaxRetries
  /\ retries' = retries + 1
  /\ Abort(r)
  /\ pc' = [pc EXCEPT ![r] = "callback"]
  /\ view' = [view EXCEPT ![r] = NoView]
  /\ UNCHANGED <<now, rows, row, script, runs, others, late, lost>>

\* Any other error, the one of setRedisLoginSession included, no time left, or
\* the death of the process: the transaction is aborted.
Throw(r) ==
  /\ pc[r] \in {"callback", "read", "commit"}
  /\ Abort(r)
  /\ Finish(r)
  /\ UNCHANGED <<now, rows, retries, script, runs, others, late, lost>>

----------------------------------------------------------------------------
(* The script.                                                             *)

\* A write outside of a transaction waits for the one that holds the row.
Put(p, v) ==
  /\ lock[p[1]] = NoReq
  /\ rows' = [rows EXCEPT ![p[1]][p[2]] = v]
  /\ current' = {q \in current : row[q] # p[1]}
  /\ UNCHANGED lock

\* main: --apply or a dry run, field by field.
Start ==
  /\ script.pc \in {"off", "exited"}
  /\ runs < MaxRuns
  /\ runs' = runs + 1
  /\ \E b \in BOOLEAN : script' = [Off EXCEPT !.pc = "find", !.at = 1, !.apply = b]
  /\ UNCHANGED <<now, db, logins, others, late, lost>>

\* The cursor of migrateField, whose one batch holds every string of the field.
Find ==
  /\ script.pc = "find"
  /\ script' = [script EXCEPT !.pc = "loop",
                  !.batch = {e \in PlacesAt(script.at) \X Strings : Stored(e[1]) = e[2]}]
  /\ late' = late \ PlacesAt(script.at)
  /\ UNCHANGED <<now, db, logins, runs, others, lost>>

\* One document of the cursor: it is written by its _id, whatever it holds now.
Migrate(e) ==
  /\ script.pc = "loop" /\ e \in script.batch
  /\ script' = [script EXCEPT !.batch = @ \ {e},
                  !.exitCode = IF Decide(e[2]) = e[2] THEN 2 ELSE @]
  /\ IF script.apply /\ Decide(e[2]) # e[2]
     THEN /\ Put(e[1], Decide(e[2]))
          /\ lost' = lost \cup ({e[1]} \cap late)
     ELSE UNCHANGED <<db, lost>>
  /\ UNCHANGED <<now, logins, runs, others, late>>

\* Mutant: the exit code is that of the last field.
NextFieldResets ==
  /\ script.pc = "loop" /\ script.batch = {}
  /\ script' = IF script.at = Len(Sweep)
               THEN [script EXCEPT !.pc = "exited"]
               ELSE [script EXCEPT !.pc = "find", !.at = @ + 1, !.exitCode = 0]
  /\ UNCHANGED <<now, db, logins, runs, others, late, lost>>

NextField ==
  /\ script.pc = "loop" /\ script.batch = {}
  /\ script' = IF script.at = Len(Sweep)
               THEN [script EXCEPT !.pc = "exited"]
               ELSE [script EXCEPT !.pc = "find", !.at = @ + 1]
  /\ UNCHANGED <<now, db, logins, runs, others, late, lost>>

\* It is killed, or a call of MongoDB fails.
Fail ==
  /\ script.pc \in {"find", "loop"}
  /\ script' = Off
  /\ UNCHANGED <<now, db, logins, runs, others, late, lost>>

----------------------------------------------------------------------------
(* The rest of the world.                                                  *)

\* A flag is set, to what it says already or not: an instance of 5.1.0 or later
\* stores a boolean, one of 5.0.3 a string.
SetFlag(p) ==
  /\ writes < MaxWrites
  /\ writes' = writes + 1
  /\ \E v \in {"true", "false", "'true'", "'false'"} \ {Stored(p)} :
       Put(p, v) /\ meant' = [meant EXCEPT ![p] = Means(v)]
  /\ late' = late \cup {p}
  /\ lost' = lost \ {p}
  /\ UNCHANGED <<now, logins, script, runs>>

Tick ==
  /\ now < MaxTime
  /\ now' = now + 1
  /\ UNCHANGED <<db, logins, script, runs, others, late, lost>>

Next ==
  \/ \E r \in Reqs :
       \/ CallLogin4Ever(r) \/ CallLoginRememberme(r) \/ CallLoginAdmin(r)
       \/ Read(r) \/ RefuseCredentials(r) \/ RefuseLockedOut(r) \/ UpdateLoginStats(r) \/ Commit(r)
       \/ RetryTransient(r) \/ Throw(r)
  \/ Start \/ Find \/ NextField \/ Fail
  \/ \E e \in Places \X Strings : Migrate(e)
  \/ \E p \in Places : SetFlag(p)
  \/ Tick

Spec == Init /\ [][Next]_vars

----------------------------------------------------------------------------
(* What is checked.                                                        *)

\* The first and the last login of a row are both there or both missing, and
\* in that order (_buildLoginStatsUpdate decides from lastLogin alone whether
\* firstLogin has to be written).
StatsOk ==
  \A x \in AllRows :
    /\ (rows[x].firstLogin = NoDate) = (rows[x].lastLogin = NoDate)
    /\ rows[x].firstLogin <= rows[x].lastLogin

\* An --apply run that exited with 0 left no string in any place that nobody
\* wrote since, so a raw read and a read through the schema agree on it, and
\* with what was meant.
Migrated == script.pc = "exited" /\ script.apply /\ script.exitCode = 0
CleanMeansAgree ==
  Migrated =>
    \A p \in Places \ late :
      /\ Lean(Stored(p)) = Hydrated(Stored(p))
      /\ Hydrated(Stored(p)) = (Means(Stored(p)) = "yes")

\* Neither a login nor the script nor a kill of it, in whatever order and
\* however often the script is run, changes what a flag says, but where the
\* script overwrites a flag that was set after it had read it.
MeaningKept == \A p \in Places \ lost : Means(Stored(p)) = meant[p]

\* Logins that cross never move the date of the last login back, nor set the
\* date of the first one a second time.
LoginsInOrder ==
  [][\A x \in AllRows :
       /\ rows'[x].lastLogin >= rows[x].lastLogin
       /\ rows[x].firstLogin # NoDate => rows'[x].firstLogin = rows[x].firstLogin]_vars

\* A login goes through only on a row that no flag was meant to lock, as the flags
\* stand at the instant it commits and however long ago it read them: but for a
\* 'True', which the script takes for true and the schema drops, so that a row
\* locked by it is let in until an --apply run that exits with 0 is through.  And
\* the right credentials are refused only where the flags that were read mean it.
VerdictFollowsFlags ==
  [][\A r \in Reqs :
       /\ Commit(r) =>
            \A f \in Fields :
              LET flag == rows[row[r]][f] IN
              Means(flag) = "yes" => flag = "'True'" /\ (Migrated => <<row[r], f>> \in late)
       /\ RefuseLockedOut(r) =>
            "yes" \in {Means(view[r].disabled), Means(view[r].deleted)}]_vars

----------------------------------------------------------------------------
(* What the proofs need.                                                   *)

\* A login that has written its row holds the lock of it, and read it as it is,
\* flags included; what it will store is no older than what is there.
LoginOk(r) ==
  LET doc == rows[row[r]] IN
  /\ r \in current => pc[r] \in {"read", "commit"}
  /\ r \in current /\ pc[r] = "read" => view[r] = doc
  /\ pc[r] = "commit" =>
       /\ r \in current /\ lock[row[r]] = r /\ ~LockedOut(doc)
       /\ \E t \in 0 .. now :
            /\ doc.lastLogin <= t
            /\ view[r] = [doc EXCEPT !.lastLogin = t,
                                     !.firstLogin = IF doc.lastLogin = NoDate THEN t ELSE @]

\* Only such a login holds a lock, and no login lies ahead of the clock.
RowOk(x) ==
  /\ lock[x] # NoReq => pc[lock[x]] = "commit" /\ row[lock[x]] = x
  /\ rows[x].lastLogin <= now

\* What is in the batch is what is stored, but for what others wrote since.
ScriptOk ==
  /\ script.pc # "loop" => script.batch = {}
  /\ script.pc # "off" => script.at \in 1 .. 4
  /\ script.pc = "exited" => script.at = 4
  /\ \A e \in script.batch : e[1] \notin late => Stored(e[1]) = e[2]

\* Where the script has been, nothing but its batch is still a string, as long as
\* it writes and has left nothing alone.
SweptOk ==
  script.pc # "off" /\ script.apply /\ script.exitCode = 0 =>
    \A i \in 1 .. script.at :
      i < script.at \/ script.pc # "find" =>
        \A p \in PlacesAt(i) \ late : Stored(p) \in Strings => <<p, Stored(p)>> \in script.batch

\* The variables hold what they are said to, the statistics are whole, and a
\* clean run of the script is the end of the strings: inductive with what logins
\* and script rely on.
IInv ==
  /\ TypeOK /\ StatsOk /\ CleanMeansAgree
  /\ \A r \in Reqs : LoginOk(r)
  /\ \A x \in AllRows : RowOk(x)
  /\ ScriptOk /\ SweptOk
=============================================================================
