----------------------------- MODULE LoginsProofs -----------------------------
(***************************************************************************)
(* Proofs about the logins and the migration of the flags, for any rows,   *)
(* any number of logins, re-runs and writes, and any runs of the script.   *)
(*                                                                         *)
(* Logins and script meet in the rows only.  A step of a login changes no  *)
(* flag (LoginStep), a write of a flag no date, and waits for the lock of  *)
(* a login that has written (PutStep): what a login relies on is kept by   *)
(* the one fact, what the script relies on by the other.  The script       *)
(* relies on its batch: it is what is stored, but for what was written     *)
(* since (ScriptOk), and all that is left to rewrite where it has been     *)
(* (SweptOk).                                                              *)
(***************************************************************************)
EXTENDS Logins, TLAPS

USE LoginsAssumption DEF AllRows, Fields, db, logins, others, Migrated

\* There is a row, and Anyone is one.
LEMMA AnyoneIsARow == Anyone \in AllRows
  BY DEF Anyone

\* The script visits places, and every place.
LEMMA SweepCovers ==
  /\ Len(Sweep) = 4
  /\ \A i \in 1 .. 4 : PlacesAt(i) \subseteq Places
  /\ \A p \in Places : \E i \in 1 .. 4 : p \in PlacesAt(i)
  <1>1. Len(Sweep) = 4
    BY DEF Sweep
  <1>2. /\ PlacesAt(1) = Rows["user"] \X {"disabled"} /\ PlacesAt(2) = Rows["user"] \X {"deleted"}
        /\ PlacesAt(3) = Rows["userAdmin"] \X {"disabled"} /\ PlacesAt(4) = Rows["userAdmin"] \X {"deleted"}
    BY DEF PlacesAt, Sweep
  <1>3. \A i \in 1 .. 4 : i = 1 \/ i = 2 \/ i = 3 \/ i = 4
    OBVIOUS
  <1>4. \A i \in 1 .. 4 : PlacesAt(i) \subseteq Places
    BY <1>2, <1>3 DEF Places
  <1>5. ASSUME NEW p \in Places PROVE \E i \in 1 .. 4 : p \in PlacesAt(i)
    <2>1. PICK x \in AllRows, f \in Fields : p = <<x, f>>
      BY DEF Places
    <2>2. (x \in Rows["user"] \/ x \in Rows["userAdmin"]) /\ (f = "disabled" \/ f = "deleted")
      BY <2>1
    <2> QED BY <1>2, <2>1, <2>2
  <1> QED
    BY <1>1, <1>4, <1>5

\* What is said of values is decided value by value.
LEMMA Values ==
  ASSUME NEW v \in Raw
  PROVE  /\ Means(v) \in {"yes", "no", "unknown"}
         /\ Hydrated(v) => Means(v) = "yes"
         /\ Means(v) = "yes" /\ ~Hydrated(v) => v = "'True'"
         /\ v \notin Strings => Lean(v) = Hydrated(v) /\ Hydrated(v) = (Means(v) = "yes")
  BY DEF Raw, Strings, Means, Hydrated, Lean

\* What the script writes for a string is no string, and says the same.
LEMMA Decided ==
  ASSUME NEW v \in Strings
  PROVE  /\ Decide(v) \in Raw
         /\ Means(Decide(v)) = Means(v)
         /\ Decide(v) # v => Decide(v) \notin Strings
  BY DEF Raw, Strings, Means, Decide

\* The parts of a place.
LEMMA PlaceParts ==
  ASSUME NEW p \in Places
  PROVE  p[1] \in AllRows /\ p[2] \in Fields /\ p = <<p[1], p[2]>>
  BY DEF Places

\* The fields of a row hold what they may.
LEMMA DocParts ==
  ASSUME NEW d \in Docs
  PROVE  /\ d.disabled \in Raw /\ d.deleted \in Raw
         /\ d.firstLogin \in Int /\ d.lastLogin \in Int
         /\ d.firstLogin \in Dates /\ d.lastLogin \in Dates
         /\ \A f \in Fields : d[f] \in Raw
  BY DEF Docs, Dates, NoDate

\* A flag of a row is set: the rest of it stands.
LEMMA SetOne ==
  ASSUME NEW d \in Docs, NEW f \in Fields, NEW v \in Raw
  PROVE  LET e == [d EXCEPT ![f] = v] IN
         /\ e \in Docs /\ e[f] = v
         /\ e.firstLogin = d.firstLogin /\ e.lastLogin = d.lastLogin
         /\ \A g \in Fields : g # f => e[g] = d[g]
  <1>1. CASE f = "disabled"
    BY <1>1 DEF Docs
  <1>2. CASE f = "deleted"
    BY <1>2 DEF Docs
  <1> QED BY <1>1, <1>2

\* Every stored flag is one.
LEMMA StoredIsRaw ==
  ASSUME TypeOK, NEW p \in Places
  PROVE  Stored(p) \in Raw
  <1>1. rows[p[1]] \in Docs /\ p[2] \in Fields
    BY PlaceParts DEF TypeOK
  <1> QED BY <1>1, DocParts DEF Stored

\* What the script relies on holds when it is not at work.
LEMMA InitLogins == Init => IInv /\ MeaningKept
<1> SUFFICES ASSUME Init PROVE IInv /\ MeaningKept
  OBVIOUS
<1>1. PICK f \in [Places -> Raw] :
        rows = [x \in AllRows |-> [NoView EXCEPT !.disabled = f[<<x, "disabled">>],
                                                 !.deleted = f[<<x, "deleted">>]]]
  BY DEF Init
<1>2. ASSUME NEW x \in AllRows
      PROVE  rows[x] \in Docs /\ rows[x].firstLogin = NoDate /\ rows[x].lastLogin = NoDate
  <2>1. f[<<x, "disabled">>] \in Raw /\ f[<<x, "deleted">>] \in Raw
    BY <1>1 DEF Places, Raw
  <2> QED BY <1>1, <2>1 DEF NoView, Docs, Dates
<1>3. rows \in [AllRows -> Docs]
  BY <1>1, <1>2
<1>4. \A p \in Places : Stored(p) \in Raw
  <2>1. ASSUME NEW p \in Places PROVE Stored(p) \in Raw
    BY <1>3, PlaceParts, DocParts DEF Stored
  <2> QED BY <2>1
<1>5. meant \in [Places -> {"yes", "no", "unknown"}]
  BY <1>4, Values DEF Init
<1>6. NoView \in Docs
  BY DEF NoView, Docs, Raw, Dates
<1>0. /\ now = 0 /\ lock = [x \in AllRows |-> NoReq] /\ current = {}
      /\ pc = [r \in Reqs |-> "idle"] /\ row = [r \in Reqs |-> Anyone]
      /\ retries = 0 /\ view = [r \in Reqs |-> NoView]
      /\ script = Off /\ runs = 0 /\ writes = 0 /\ late = {} /\ lost = {}
  BY DEF Init
<1>7. TypeOK
  <2>1. /\ now \in 0 .. MaxTime /\ retries \in 0 .. MaxRetries
        /\ runs \in 0 .. MaxRuns /\ writes \in 0 .. MaxWrites
    BY <1>0
  <2>2. script \in [pc : {"off", "find", "loop", "exited"}, at : 0 .. 4,
                    batch : SUBSET (Places \X Strings), apply : BOOLEAN, exitCode : {0, 2}]
    BY <1>0 DEF Off
  <2>3. /\ lock \in [AllRows -> Reqs \cup {NoReq}] /\ current \subseteq Reqs
        /\ pc \in [Reqs -> {"idle", "callback", "read", "commit", "done"}]
        /\ row \in [Reqs -> AllRows] /\ view \in [Reqs -> Docs]
        /\ late \subseteq Places /\ lost \subseteq Places
    BY <1>0, <1>6, AnyoneIsARow
  <2> QED BY <1>3, <1>5, <2>1, <2>2, <2>3 DEF TypeOK
<1>8. StatsOk /\ CleanMeansAgree
  <2>1. StatsOk
    BY <1>2 DEF StatsOk, NoDate
  <2>2. CleanMeansAgree
    BY <1>0 DEF CleanMeansAgree, Off
  <2> QED BY <2>1, <2>2
<1>9. /\ \A r \in Reqs : LoginOk(r)
      /\ \A x \in AllRows : RowOk(x)
  <2>1. ASSUME NEW r \in Reqs PROVE LoginOk(r)
    BY <1>0 DEF LoginOk
  <2>2. ASSUME NEW x \in AllRows PROVE RowOk(x)
    BY <1>0, <1>2 DEF RowOk, NoDate
  <2> QED BY <2>1, <2>2
<1>10. ScriptOk /\ SweptOk /\ MeaningKept
  BY DEF Init, Off, ScriptOk, SweptOk, MeaningKept
<1> QED
  BY <1>7, <1>8, <1>9, <1>10 DEF IInv

\* No string is left where the script has been through and had nothing to leave.
LEMMA CleanEnd ==
  ASSUME TypeOK, ScriptOk, SweptOk
  PROVE  CleanMeansAgree
<1> SUFFICES ASSUME script.pc = "exited", script.apply, script.exitCode = 0, NEW p \in Places \ late
             PROVE  /\ Lean(Stored(p)) = Hydrated(Stored(p))
                    /\ Hydrated(Stored(p)) = (Means(Stored(p)) = "yes")
  BY DEF CleanMeansAgree
<1>1. PICK i \in 1 .. 4 : p \in PlacesAt(i)
  BY SweepCovers
<1>2. script.at = 4 /\ script.batch = {}
  BY DEF ScriptOk
<1>3. Stored(p) \notin Strings
  BY <1>1, <1>2 DEF SweptOk
<1> QED
  BY <1>3, StoredIsRaw, Values

\* What a login relies on stands while its row, its lock and its view of them do.
LEMMA LoginStands ==
  ASSUME NEW q \in Reqs, LoginOk(q), now \in Nat, now' \in Nat, now <= now',
         pc'[q] = pc[q], row'[q] = row[q], view'[q] = view[q], rows'[row[q]] = rows[row[q]],
         q \in current' <=> q \in current,
         lock[row[q]] = q => lock'[row[q]] = q
  PROVE  LoginOk(q)'
<1>1. q \in current' => pc'[q] \in {"read", "commit"}
  BY DEF LoginOk
<1>2. q \in current' /\ pc'[q] = "read" => view'[q] = rows'[row'[q]]
  BY DEF LoginOk
<1>3. ASSUME pc'[q] = "commit"
      PROVE  /\ q \in current' /\ lock'[row'[q]] = q /\ ~LockedOut(rows'[row'[q]])
             /\ \E t \in 0 .. now' :
                  /\ rows'[row'[q]].lastLogin <= t
                  /\ view'[q] = [rows'[row'[q]] EXCEPT !.lastLogin = t,
                                   !.firstLogin = IF rows'[row'[q]].lastLogin = NoDate THEN t ELSE @]
  <2>1. /\ q \in current' /\ lock'[row'[q]] = q /\ ~LockedOut(rows'[row'[q]])
    BY <1>3 DEF LoginOk
  <2>2. PICK t \in 0 .. now :
          /\ rows[row[q]].lastLogin <= t
          /\ view[q] = [rows[row[q]] EXCEPT !.lastLogin = t,
                                            !.firstLogin = IF rows[row[q]].lastLogin = NoDate THEN t ELSE @]
    BY <1>3 DEF LoginOk
  <2>3. t \in 0 .. now'
    OBVIOUS
  <2> QED BY <2>1, <2>2, <2>3
<1> QED
  BY <1>1, <1>2, <1>3 DEF LoginOk, LockedOut

\* The script stands while a step writes no flag and leaves it alone.
LEMMA FlagsStand ==
  ASSUME IInv, TypeOK', UNCHANGED <<script, late>>, \A p \in Places : Stored(p)' = Stored(p)
  PROVE  ScriptOk' /\ SweptOk' /\ CleanMeansAgree'
<1>0. TypeOK /\ ScriptOk /\ SweptOk /\ CleanMeansAgree
  BY DEF IInv
<1>1. \A e \in script.batch : e[1] \in Places
  BY <1>0 DEF TypeOK
<1>2. ScriptOk'
  BY <1>0, <1>1 DEF ScriptOk
<1>3. SweptOk'
  <2>1. \A i \in 1 .. script.at : \A p \in PlacesAt(i) : i \in 1 .. 4 /\ p \in Places
    <3>1. script.at \in 0 .. 4
      BY <1>0 DEF TypeOK
    <3> QED BY <3>1, SweepCovers
  <2>2. \A i \in 1 .. script.at : PlacesAt(i)' = PlacesAt(i)
    BY DEF PlacesAt
  <2> QED BY <1>0, <2>1, <2>2 DEF SweptOk
<1>4. CleanMeansAgree'
  BY <1>0 DEF CleanMeansAgree
<1> QED
  BY <1>2, <1>3, <1>4

\* A login that ends, or starts its callback again, lets go of its row: what the
\* others rely on stands.
LEMMA LoginEnds ==
  ASSUME IInv, NEW r \in Reqs, TypeOK', Abort(r), UNCHANGED <<now, rows, script, late>>,
         pc'[r] \in {"callback", "done"},
         \A q \in Reqs \ {r} : pc'[q] = pc[q] /\ row'[q] = row[q] /\ view'[q] = view[q]
  PROVE  IInv'
<1>0. TypeOK
  BY DEF IInv
<1>1. ASSUME NEW q \in Reqs PROVE LoginOk(q)'
  <2>1. CASE q = r
    BY <2>1 DEF Abort, LoginOk
  <2>2. CASE q # r
    <3>1. LoginOk(q) /\ row[q] \in AllRows
      BY <1>0 DEF IInv, TypeOK
    <3>2. /\ q \in current' <=> q \in current
          /\ lock[row[q]] = q => lock'[row[q]] = q
      BY <2>2, <3>1 DEF Abort
    <3>3. pc'[q] = pc[q] /\ row'[q] = row[q] /\ view'[q] = view[q]
      BY <2>2
    <3> QED BY <1>0, <3>1, <3>2, <3>3, LoginStands DEF TypeOK
  <2> QED BY <2>1, <2>2
<1>2. ASSUME NEW x \in AllRows PROVE RowOk(x)'
  <2>1. RowOk(x) /\ lock[x] \in Reqs \cup {NoReq}
    BY <1>0 DEF IInv, TypeOK
  <2>2. lock'[x] = IF lock[x] = r THEN NoReq ELSE lock[x]
    BY DEF Abort
  <2> QED BY <2>1, <2>2 DEF RowOk
<1>3. StatsOk'
  BY DEF IInv, StatsOk
<1>4. ScriptOk' /\ SweptOk' /\ CleanMeansAgree'
  BY FlagsStand DEF Stored
<1> QED
  BY <1>1, <1>2, <1>3, <1>4 DEF IInv

\* An end of a callback leaves the types as they are.
LEMMA EndTypes ==
  ASSUME TypeOK, NEW r \in Reqs, Abort(r),
         \/ Finish(r) /\ UNCHANGED retries
         \/ /\ retries < MaxRetries /\ retries' = retries + 1
            /\ pc' = [pc EXCEPT ![r] = "callback"] /\ view' = [view EXCEPT ![r] = NoView] /\ UNCHANGED row,
         UNCHANGED <<now, rows, script, runs, others, late, lost>>
  PROVE  TypeOK' /\ \A q \in Reqs \ {r} : pc'[q] = pc[q] /\ row'[q] = row[q] /\ view'[q] = view[q]
<1>1. NoView \in Docs
  BY DEF NoView, Docs, Raw, Dates
<1>2. /\ lock' \in [AllRows -> Reqs \cup {NoReq}] /\ current' \subseteq Reqs
  BY DEF Abort, TypeOK
<1>3. /\ pc' \in [Reqs -> {"idle", "callback", "read", "commit", "done"}]
      /\ row' \in [Reqs -> AllRows] /\ view' \in [Reqs -> Docs]
  BY <1>1, AnyoneIsARow DEF Finish, TypeOK
<1>4. retries' \in 0 .. MaxRetries
  BY DEF TypeOK
<1>5. TypeOK'
  BY <1>2, <1>3, <1>4 DEF TypeOK
<1>6. \A q \in Reqs \ {r} : pc'[q] = pc[q] /\ row'[q] = row[q] /\ view'[q] = view[q]
  BY DEF Finish, TypeOK
<1> QED
  BY <1>5, <1>6

\* The request starts, with a row of its collection.
LEMMA CallIInv ==
  ASSUME IInv, NEW r \in Reqs, NEW collection \in {"user", "userAdmin"}, Call(r, collection)
  PROVE  IInv'
<1>0. TypeOK
  BY DEF IInv
<1>1. PICK x \in AllRows : row' = [row EXCEPT ![r] = x]
  BY DEF Call
<1>2. /\ pc[r] = "idle" /\ pc' = [pc EXCEPT ![r] = "callback"]
      /\ UNCHANGED <<now, db, view, retries, script, runs, others, late, lost>>
  BY DEF Call
<1>3. TypeOK'
  BY <1>0, <1>1, <1>2 DEF TypeOK
<1>4. ASSUME NEW q \in Reqs PROVE LoginOk(q)'
  <2>0. LoginOk(q)
    BY DEF IInv
  <2>1. CASE q = r
    BY <1>0, <1>2, <2>0, <2>1 DEF TypeOK, LoginOk
  <2>2. CASE q # r
    <3>1. pc'[q] = pc[q] /\ row'[q] = row[q] /\ view'[q] = view[q]
      BY <1>0, <1>1, <1>2, <2>2 DEF TypeOK
    <3> QED BY <1>0, <1>2, <2>0, <3>1, LoginStands DEF TypeOK
  <2> QED BY <2>1, <2>2
<1>5. ASSUME NEW y \in AllRows PROVE RowOk(y)'
  BY <1>0, <1>1, <1>2 DEF IInv, TypeOK, RowOk
<1>6. StatsOk'
  BY <1>2 DEF IInv, StatsOk
<1>7. ScriptOk' /\ SweptOk' /\ CleanMeansAgree'
  BY <1>2, <1>3, FlagsStand DEF Stored
<1> QED
  BY <1>3, <1>4, <1>5, <1>6, <1>7 DEF IInv

\* It reads the row as it is.
LEMMA ReadIInv ==
  ASSUME IInv, NEW r \in Reqs, Read(r)
  PROVE  IInv'
<1>0. TypeOK /\ rows[row[r]] \in Docs
  BY DEF IInv, TypeOK
<1>2. /\ pc[r] = "callback" /\ pc' = [pc EXCEPT ![r] = "read"]
      /\ view' = [view EXCEPT ![r] = rows[row[r]]] /\ current' = current \cup {r}
      /\ UNCHANGED <<now, rows, lock, row, retries, script, runs, others, late, lost>>
  BY DEF Read
<1>3. TypeOK'
  BY <1>0, <1>2 DEF TypeOK
<1>4. ASSUME NEW q \in Reqs PROVE LoginOk(q)'
  <2>0. LoginOk(q)
    BY DEF IInv
  <2>1. CASE q = r
    BY <1>0, <1>2, <2>1 DEF TypeOK, LoginOk
  <2>2. CASE q # r
    <3>1. pc'[q] = pc[q] /\ row'[q] = row[q] /\ view'[q] = view[q] /\ (q \in current' <=> q \in current)
      BY <1>0, <1>2, <2>2 DEF TypeOK
    <3> QED BY <1>0, <1>2, <2>0, <3>1, LoginStands DEF TypeOK
  <2> QED BY <2>1, <2>2
<1>5. ASSUME NEW x \in AllRows PROVE RowOk(x)'
  BY <1>0, <1>2 DEF IInv, TypeOK, RowOk
<1>6. StatsOk'
  BY <1>2 DEF IInv, StatsOk
<1>7. ScriptOk' /\ SweptOk' /\ CleanMeansAgree'
  BY <1>2, <1>3, FlagsStand DEF Stored
<1> QED
  BY <1>3, <1>4, <1>5, <1>6, <1>7 DEF IInv

\* It writes the row it has read, and nobody else has it open written.
LEMMA UpdateIInv ==
  ASSUME IInv, NEW r \in Reqs, UpdateLoginStats(r)
  PROVE  IInv'
<1>0. TypeOK /\ LoginOk(r) /\ row[r] \in AllRows /\ rows[row[r]] \in Docs /\ now \in Nat
  BY DEF IInv, TypeOK
<1>1. /\ pc[r] = "read" /\ ~LockedOut(view[r]) /\ r \in current /\ lock[row[r]] \in {NoReq, r}
      /\ lock' = [lock EXCEPT ![row[r]] = r] /\ view' = [view EXCEPT ![r] = Stats(@)]
      /\ pc' = [pc EXCEPT ![r] = "commit"]
      /\ UNCHANGED <<now, rows, current, row, retries, script, runs, others, late, lost>>
  BY DEF UpdateLoginStats, Conflict
<1>2. view[r] = rows[row[r]] /\ view'[r] = Stats(rows[row[r]])
  BY <1>0, <1>1 DEF LoginOk, TypeOK
<1>3. Stats(rows[row[r]]) \in Docs
  <2>1. now \in Dates
    BY <1>0 DEF IInv, TypeOK, Dates
  <2> QED BY <1>0, <2>1 DEF Stats, Docs
<1>4. TypeOK'
  <2>1. lock' \in [AllRows -> Reqs \cup {NoReq}] /\ view' \in [Reqs -> Docs]
        /\ pc' \in [Reqs -> {"idle", "callback", "read", "commit", "done"}]
    BY <1>0, <1>1, <1>2, <1>3 DEF TypeOK
  <2> QED BY <1>0, <1>1, <2>1 DEF TypeOK
<1>5. ASSUME NEW q \in Reqs PROVE LoginOk(q)'
  <2>0. LoginOk(q)
    BY DEF IInv
  <2>1. CASE q = r
    <3>1. rows[row[r]].lastLogin <= now
      BY <1>0 DEF IInv, RowOk
    <3>2. pc'[q] = "commit" /\ row'[q] = row[r] /\ lock'[row[r]] = r
      BY <1>0, <1>1, <2>1 DEF TypeOK
    <3>3. now \in 0 .. now'
      BY <1>0, <1>1
    <3> QED BY <1>1, <1>2, <2>1, <3>1, <3>2, <3>3 DEF LoginOk, LockedOut, Stats
  <2>2. CASE q # r
    <3>1. pc'[q] = pc[q] /\ row'[q] = row[q] /\ view'[q] = view[q]
      BY <1>0, <1>1, <2>2 DEF TypeOK
    <3>2. lock[row[q]] = q => lock'[row[q]] = q
      BY <1>0, <1>1, <2>2 DEF TypeOK
    <3> QED BY <1>0, <1>1, <2>0, <3>1, <3>2, LoginStands DEF TypeOK
  <2> QED BY <2>1, <2>2
<1>6. ASSUME NEW x \in AllRows PROVE RowOk(x)'
  <2>1. RowOk(x)
    BY DEF IInv
  <2>2. CASE x = row[r]
    BY <1>0, <1>1, <2>1, <2>2 DEF TypeOK, RowOk
  <2>3. CASE x # row[r]
    <3>1. lock'[x] = lock[x] /\ lock[x] \in Reqs \cup {NoReq}
      BY <1>0, <1>1, <2>3 DEF TypeOK
    <3> QED BY <1>0, <1>1, <2>1, <3>1 DEF TypeOK, RowOk
  <2> QED BY <2>2, <2>3
<1>7. StatsOk'
  BY <1>1 DEF IInv, StatsOk
<1>8. ScriptOk' /\ SweptOk' /\ CleanMeansAgree'
  BY <1>1, <1>4, FlagsStand DEF Stored
<1> QED
  BY <1>4, <1>5, <1>6, <1>7, <1>8 DEF IInv

\* What a login commits is later than what it replaces, and leaves the flags.
LEMMA Committed ==
  ASSUME IInv, NEW r \in Reqs, Commit(r)
  PROVE  /\ row[r] \in AllRows /\ rows'[row[r]] \in Docs
         /\ \A x \in AllRows \ {row[r]} : rows'[x] = rows[x]
         /\ rows'[row[r]].disabled = rows[row[r]].disabled
         /\ rows'[row[r]].deleted = rows[row[r]].deleted
         /\ rows[row[r]].lastLogin <= rows'[row[r]].lastLogin
         /\ rows'[row[r]].lastLogin \in 0 .. now
         /\ rows'[row[r]].firstLogin = IF rows[row[r]].lastLogin = NoDate
                                       THEN rows'[row[r]].lastLogin ELSE rows[row[r]].firstLogin
<1> DEFINE d == rows[row[r]]
<1>0. TypeOK /\ LoginOk(r) /\ row[r] \in AllRows /\ d \in Docs /\ view[r] \in Docs
  BY DEF IInv, TypeOK
<1>1. /\ pc[r] = "commit"
      /\ rows' = [rows EXCEPT ![row[r]].firstLogin = view[r].firstLogin,
                              ![row[r]].lastLogin = view[r].lastLogin]
  BY DEF Commit
<1>2. PICK t \in 0 .. now :
        /\ d.lastLogin <= t
        /\ view[r] = [d EXCEPT !.lastLogin = t, !.firstLogin = IF d.lastLogin = NoDate THEN t ELSE @]
  BY <1>0, <1>1 DEF LoginOk
<1>3. /\ view[r].lastLogin = t
      /\ view[r].firstLogin = IF d.lastLogin = NoDate THEN t ELSE d.firstLogin
  BY <1>0, <1>2 DEF Docs
<1>4. rows' = [rows EXCEPT ![row[r]] = [d EXCEPT !.firstLogin = view[r].firstLogin,
                                                 !.lastLogin = view[r].lastLogin]]
  BY <1>0, <1>1 DEF TypeOK
<1>5. /\ rows'[row[r]] = [d EXCEPT !.firstLogin = view[r].firstLogin, !.lastLogin = view[r].lastLogin]
      /\ \A x \in AllRows \ {row[r]} : rows'[x] = rows[x]
  BY <1>0, <1>4 DEF TypeOK
<1>6. /\ rows'[row[r]] \in Docs
      /\ rows'[row[r]].disabled = d.disabled /\ rows'[row[r]].deleted = d.deleted
      /\ rows'[row[r]].firstLogin = view[r].firstLogin /\ rows'[row[r]].lastLogin = view[r].lastLogin
  BY <1>0, <1>5 DEF Docs
<1> QED
  BY <1>0, <1>2, <1>3, <1>5, <1>6

\* A commit changes no flag.
LEMMA CommitKeepsFlags ==
  ASSUME IInv, NEW r \in Reqs, Commit(r), NEW p \in Places
  PROVE  Stored(p)' = Stored(p)
<1>1. p[1] \in AllRows /\ p[2] \in {"disabled", "deleted"}
  BY PlaceParts
<1>2. CASE p[1] = row[r]
  BY <1>1, <1>2, Committed DEF Stored
<1>3. CASE p[1] # row[r]
  BY <1>1, <1>3, Committed DEF Stored
<1> QED BY <1>2, <1>3

\* The commit of a login ends it, and makes every other snapshot of its row old.
LEMMA CommitIInv ==
  ASSUME IInv, NEW r \in Reqs, Commit(r)
  PROVE  IInv'
<1>0. TypeOK /\ LoginOk(r) /\ row[r] \in AllRows /\ now \in Nat
  BY DEF IInv, TypeOK
<1>1. /\ pc[r] = "commit"
      /\ lock' = [lock EXCEPT ![row[r]] = NoReq]
      /\ current' = {q \in current : row[q] # row[r]}
      /\ pc' = [pc EXCEPT ![r] = "done"]
      /\ view' = [view EXCEPT ![r] = NoView]
      /\ row' = [row EXCEPT ![r] = Anyone]
      /\ UNCHANGED <<now, retries, script, runs, others, late, lost>>
  BY DEF Commit, Finish
<1>2. lock[row[r]] = r
  BY <1>0, <1>1 DEF LoginOk
<1>3. TypeOK'
  <2>1. rows' \in [AllRows -> Docs]
    <3>1. \A x \in AllRows : rows'[x] \in Docs
      BY <1>0, Committed DEF TypeOK
    <3>2. rows' = [x \in AllRows |-> rows'[x]]
      BY <1>0 DEF Commit, TypeOK
    <3> QED BY <3>1, <3>2
  <2>2. NoView \in Docs
    BY DEF NoView, Docs, Raw, Dates
  <2>3. /\ lock' \in [AllRows -> Reqs \cup {NoReq}] /\ current' \subseteq Reqs
        /\ pc' \in [Reqs -> {"idle", "callback", "read", "commit", "done"}]
        /\ row' \in [Reqs -> AllRows] /\ view' \in [Reqs -> Docs]
    BY <1>0, <1>1, <2>2, AnyoneIsARow DEF TypeOK
  <2> QED BY <1>0, <1>1, <2>1, <2>3 DEF TypeOK
<1>4. ASSUME NEW q \in Reqs PROVE LoginOk(q)'
  <2>0. LoginOk(q) /\ row[q] \in AllRows
    BY <1>0 DEF IInv, TypeOK
  <2>1. CASE q = r
    BY <1>0, <1>1, <2>1 DEF TypeOK, LoginOk
  <2>2. CASE q # r
    <3>1. pc'[q] = pc[q] /\ row'[q] = row[q] /\ view'[q] = view[q]
      BY <1>0, <1>1, <2>2 DEF TypeOK
    <3>2. CASE row[q] = row[r]
      <4>1. q \notin current' /\ pc[q] # "commit"
        BY <1>1, <1>2, <2>0, <2>2, <3>2 DEF LoginOk
      <4> QED BY <3>1, <4>1 DEF LoginOk
    <3>3. CASE row[q] # row[r]
      <4>1. /\ rows'[row[q]] = rows[row[q]] /\ (q \in current' <=> q \in current)
            /\ lock'[row[q]] = lock[row[q]]
        BY <1>0, <1>1, <2>0, <3>3, Committed DEF TypeOK
      <4> QED BY <1>0, <1>1, <2>0, <3>1, <4>1, LoginStands
    <3> QED BY <3>2, <3>3
  <2> QED BY <2>1, <2>2
<1>5. ASSUME NEW x \in AllRows PROVE RowOk(x)'
  <2>0. RowOk(x) /\ lock[x] \in Reqs \cup {NoReq}
    BY <1>0 DEF IInv, TypeOK
  <2>1. CASE x = row[r]
    BY <1>0, <1>1, <2>1, Committed DEF TypeOK, RowOk
  <2>2. CASE x # row[r]
    <3>1. rows'[x] = rows[x] /\ lock'[x] = lock[x]
      BY <1>0, <1>1, <2>2, Committed DEF TypeOK
    <3>2. lock[x] # r
      BY <2>0, <2>2 DEF RowOk
    <3> QED BY <1>0, <1>1, <2>0, <3>1, <3>2 DEF TypeOK, RowOk
  <2> QED BY <2>1, <2>2
<1>6. StatsOk'
  <2>1. ASSUME NEW x \in AllRows
        PROVE  /\ (rows'[x].firstLogin = NoDate) = (rows'[x].lastLogin = NoDate)
               /\ rows'[x].firstLogin <= rows'[x].lastLogin
    <3>0. /\ (rows[x].firstLogin = NoDate) = (rows[x].lastLogin = NoDate)
          /\ rows[x].firstLogin <= rows[x].lastLogin /\ rows[x] \in Docs
      BY <1>0 DEF IInv, StatsOk, TypeOK
    <3>1. CASE x = row[r]
      <4>1. /\ rows[x].lastLogin <= rows'[x].lastLogin /\ rows'[x].lastLogin \in 0 .. now
            /\ rows'[x].firstLogin = IF rows[x].lastLogin = NoDate
                                     THEN rows'[x].lastLogin ELSE rows[x].firstLogin
        BY <3>1, Committed
      <4>2. rows[x].firstLogin \in Int /\ rows[x].lastLogin \in Int
        BY <3>0, DocParts
      <4> QED BY <1>0, <3>0, <4>1, <4>2 DEF NoDate
    <3>2. CASE x # row[r]
      BY <3>0, <3>2, Committed
    <3> QED BY <3>1, <3>2
  <2> QED BY <2>1 DEF StatsOk
<1>7. ScriptOk' /\ SweptOk' /\ CleanMeansAgree'
  BY <1>1, <1>3, CommitKeepsFlags, FlagsStand
<1> QED
  BY <1>3, <1>4, <1>5, <1>6, <1>7 DEF IInv

\* A callback that is refused, thrown or run again.
LEMMA EndIInv ==
  ASSUME IInv, NEW r \in Reqs,
         RefuseCredentials(r) \/ RefuseLockedOut(r) \/ Throw(r) \/ RetryTransient(r)
  PROVE  IInv'
<1>0. TypeOK
  BY DEF IInv
<1>1. /\ Abort(r) /\ UNCHANGED <<now, rows, script, runs, others, late, lost>>
      /\ \/ Finish(r) /\ UNCHANGED retries
         \/ /\ retries < MaxRetries /\ retries' = retries + 1
            /\ pc' = [pc EXCEPT ![r] = "callback"] /\ view' = [view EXCEPT ![r] = NoView] /\ UNCHANGED row
  BY DEF RefuseCredentials, RefuseLockedOut, Refuse, Throw, RetryTransient
<1>2. pc'[r] \in {"callback", "done"}
  BY <1>0, <1>1 DEF Finish, TypeOK
<1> QED
  BY <1>0, <1>1, <1>2, EndTypes, LoginEnds

\* A flag is written outside of a transaction: no date changes, and no login that has
\* written the row is in the way.
LEMMA Written ==
  ASSUME IInv, NEW p \in Places, NEW v \in Raw, Put(p, v)
  PROVE  /\ rows' \in [AllRows -> Docs]
         /\ Stored(p)' = v
         /\ \A q \in Places \ {p} : Stored(q)' = Stored(q)
         /\ \A x \in AllRows : /\ rows'[x].firstLogin = rows[x].firstLogin
                               /\ rows'[x].lastLogin = rows[x].lastLogin
         /\ \A x \in AllRows \ {p[1]} : rows'[x] = rows[x]
<1>0. TypeOK /\ p[1] \in AllRows /\ p[2] \in Fields /\ rows[p[1]] \in Docs
  BY PlaceParts DEF IInv, TypeOK
<1>1. rows' = [rows EXCEPT ![p[1]] = [rows[p[1]] EXCEPT ![p[2]] = v]]
  BY <1>0 DEF Put, TypeOK
<1>2. LET e == [rows[p[1]] EXCEPT ![p[2]] = v] IN
      /\ e \in Docs /\ e[p[2]] = v
      /\ e.firstLogin = rows[p[1]].firstLogin /\ e.lastLogin = rows[p[1]].lastLogin
      /\ \A g \in Fields : g # p[2] => e[g] = rows[p[1]][g]
  BY <1>0, SetOne
<1>3. /\ rows' \in [AllRows -> Docs]
      /\ rows'[p[1]] = [rows[p[1]] EXCEPT ![p[2]] = v]
      /\ \A x \in AllRows \ {p[1]} : rows'[x] = rows[x]
  BY <1>0, <1>1, <1>2 DEF TypeOK
<1>4. ASSUME NEW q \in Places \ {p} PROVE Stored(q)' = Stored(q)
  <2>1. q[1] \in AllRows /\ q[2] \in Fields /\ q # p /\ q = <<q[1], q[2]>> /\ p = <<p[1], p[2]>>
    BY PlaceParts
  <2>2. CASE q[1] = p[1]
    <3>1. q[2] # p[2]
      BY <2>1, <2>2
    <3>2. rows'[p[1]][q[2]] = rows[p[1]][q[2]]
      BY <1>2, <1>3, <2>1, <3>1
    <3> QED BY <2>2, <3>2 DEF Stored
  <2>3. CASE q[1] # p[1]
    BY <1>3, <2>1, <2>3 DEF Stored
  <2> QED BY <2>2, <2>3
<1>5. Stored(p)' = v
  BY <1>2, <1>3 DEF Stored
<1>6. ASSUME NEW x \in AllRows
      PROVE  rows'[x].firstLogin = rows[x].firstLogin /\ rows'[x].lastLogin = rows[x].lastLogin
  BY <1>2, <1>3
<1> QED
  BY <1>3, <1>4, <1>5, <1>6

\* So what logins and rows rely on stands.
LEMMA PutStep ==
  ASSUME IInv, NEW p \in Places, NEW v \in Raw, Put(p, v), UNCHANGED <<now, logins>>
  PROVE  /\ StatsOk'
         /\ \A r \in Reqs : LoginOk(r)'
         /\ \A x \in AllRows : RowOk(x)'
<1>0. TypeOK /\ now \in Nat
  BY DEF IInv, TypeOK
<1>1. lock[p[1]] = NoReq /\ current' = {q \in current : row[q] # p[1]} /\ UNCHANGED lock
  BY DEF Put
<1>2. StatsOk'
  BY Written DEF IInv, StatsOk
<1>3. ASSUME NEW r \in Reqs PROVE LoginOk(r)'
  <2>0. LoginOk(r) /\ row[r] \in AllRows
    BY <1>0 DEF IInv, TypeOK
  <2>1. CASE row[r] = p[1]
    <3>1. r \notin current' /\ pc[r] # "commit"
      BY <1>1, <2>0, <2>1 DEF LoginOk
    <3> QED BY <3>1 DEF LoginOk
  <2>2. CASE row[r] # p[1]
    <3>1. rows'[row[r]] = rows[row[r]] /\ (r \in current' <=> r \in current)
      BY <1>1, <2>0, <2>2, Written
    <3> QED BY <1>0, <1>1, <2>0, <3>1, LoginStands
  <2> QED BY <2>1, <2>2
<1>4. ASSUME NEW x \in AllRows PROVE RowOk(x)'
  BY <1>1, Written DEF IInv, RowOk
<1> QED
  BY <1>2, <1>3, <1>4

\* What logins and rows rely on stands while they are left alone.
LEMMA LoginsLeftAlone ==
  ASSUME IInv, UNCHANGED <<now, db, logins>>
  PROVE  /\ StatsOk'
         /\ \A r \in Reqs : LoginOk(r)'
         /\ \A x \in AllRows : RowOk(x)'
<1>1. StatsOk'
  BY DEF IInv, StatsOk
<1>2. ASSUME NEW r \in Reqs PROVE LoginOk(r)'
  <2>1. LoginOk(r) /\ now \in Nat
    BY DEF IInv, TypeOK
  <2> QED BY <2>1, LoginStands
<1>3. ASSUME NEW x \in AllRows PROVE RowOk(x)'
  BY DEF IInv, RowOk
<1> QED
  BY <1>1, <1>2, <1>3

\* The script starts over, or reads the strings of its next field: nobody has
\* written there since.
LEMMA StartIInv ==
  ASSUME IInv, Start
  PROVE  IInv'
<1>0. TypeOK
  BY DEF IInv
<1>1. PICK b \in BOOLEAN : script' = [Off EXCEPT !.pc = "find", !.at = 1, !.apply = b]
  BY DEF Start
<1>2. /\ script'.pc = "find" /\ script'.at = 1 /\ script'.batch = {}
      /\ script' \in [pc : {"off", "find", "loop", "exited"}, at : 0 .. 4,
                      batch : SUBSET (Places \X Strings), apply : BOOLEAN, exitCode : {0, 2}]
  <2>1. script' = [pc |-> "find", at |-> 1, batch |-> {}, apply |-> b, exitCode |-> 0]
    BY <1>1 DEF Off
  <2> QED BY <2>1
<1>3. /\ runs < MaxRuns /\ runs' = runs + 1 /\ UNCHANGED <<now, db, logins, others, late, lost>>
  BY DEF Start
<1>4. TypeOK'
  BY <1>0, <1>2, <1>3 DEF TypeOK
<1>5. ScriptOk' /\ SweptOk' /\ CleanMeansAgree'
  BY <1>2 DEF ScriptOk, SweptOk, CleanMeansAgree
<1>6. /\ StatsOk' /\ \A r \in Reqs : LoginOk(r)'
      /\ \A x \in AllRows : RowOk(x)'
  BY <1>3, LoginsLeftAlone
<1> QED
  BY <1>4, <1>5, <1>6 DEF IInv

LEMMA FindIInv ==
  ASSUME IInv, Find
  PROVE  IInv'
<1>0. TypeOK /\ ScriptOk /\ SweptOk
  BY DEF IInv
<1>1. /\ script.pc = "find"
      /\ script' = [script EXCEPT !.pc = "loop",
                      !.batch = {e \in PlacesAt(script.at) \X Strings : Stored(e[1]) = e[2]}]
      /\ late' = late \ PlacesAt(script.at)
      /\ UNCHANGED <<now, db, logins, runs, others, lost>>
  BY DEF Find
<1>2. script.at \in 1 .. 4 /\ PlacesAt(script.at) \subseteq Places
  BY <1>0, <1>1, SweepCovers DEF ScriptOk
<1>3. /\ script'.pc = "loop" /\ script'.at = script.at
      /\ script'.batch = {e \in PlacesAt(script.at) \X Strings : Stored(e[1]) = e[2]}
      /\ script'.apply = script.apply /\ script'.exitCode = script.exitCode
      /\ script' \in [pc : {"off", "find", "loop", "exited"}, at : 0 .. 4,
                      batch : SUBSET (Places \X Strings), apply : BOOLEAN, exitCode : {0, 2}]
  <2>1. {e \in PlacesAt(script.at) \X Strings : Stored(e[1]) = e[2]} \subseteq Places \X Strings
    BY <1>2
  <2>2. script \in [pc : {"off", "find", "loop", "exited"}, at : 0 .. 4,
                    batch : SUBSET (Places \X Strings), apply : BOOLEAN, exitCode : {0, 2}]
    BY <1>0 DEF TypeOK
  <2> DEFINE B == {e \in PlacesAt(script.at) \X Strings : Stored(e[1]) = e[2]}
  <2>3. B \in SUBSET (Places \X Strings)
    BY <2>1
  <2>4. script' = [script EXCEPT !.pc = "loop", !.batch = B]
    BY <1>1
  <2> HIDE DEF B
  <2>5. /\ script'.pc = "loop" /\ script'.at = script.at /\ script'.batch = B
        /\ script'.apply = script.apply /\ script'.exitCode = script.exitCode
        /\ script' \in [pc : {"off", "find", "loop", "exited"}, at : 0 .. 4,
                        batch : SUBSET (Places \X Strings), apply : BOOLEAN, exitCode : {0, 2}]
    BY <2>2, <2>3, <2>4
  <2> QED BY <2>5 DEF B
<1>4. late' \subseteq Places
  BY <1>0, <1>1 DEF TypeOK
<1>5. TypeOK'
  BY <1>0, <1>1, <1>3, <1>4 DEF TypeOK
<1>6. \A p \in Places : Stored(p)' = Stored(p)
  BY <1>1 DEF Stored
<1>7. ScriptOk'
  <2>1. ASSUME NEW e \in script'.batch PROVE Stored(e[1])' = e[2]
    BY <1>1, <1>3, <2>1 DEF Stored
  <2> QED BY <1>2, <1>3, <2>1 DEF ScriptOk
<1>8. SweptOk'
  <2> SUFFICES ASSUME script.apply, script.exitCode = 0, NEW i \in 1 .. script.at,
                      NEW p \in PlacesAt(i) \ late', Stored(p) \in Strings
               PROVE  <<p, Stored(p)>> \in script'.batch
    <3>1. \A i \in 1 .. script.at : PlacesAt(i)' = PlacesAt(i)
      BY DEF PlacesAt
    <3>2. \A i \in 1 .. script.at : \A p \in PlacesAt(i) : p \in Places
      <4>1. \A i \in 1 .. script.at : i \in 1 .. 4
        BY <1>2
      <4> QED BY <4>1, SweepCovers
    <3> QED BY <1>3, <1>6, <3>1, <3>2 DEF SweptOk
  <2>1. CASE p \in PlacesAt(script.at)
    BY <1>3, <2>1
  <2>2. CASE p \notin PlacesAt(script.at)
    <3>1. i < script.at /\ p \notin late
      BY <1>1, <1>2, <2>2
    <3>2. <<p, Stored(p)>> \in script.batch
      BY <1>0, <1>1, <3>1 DEF SweptOk
    <3> QED BY <1>0, <1>1, <3>2 DEF ScriptOk
  <2> QED BY <2>1, <2>2
<1>9. CleanMeansAgree'
  BY <1>3 DEF CleanMeansAgree
<1>10. /\ StatsOk' /\ \A r \in Reqs : LoginOk(r)'
       /\ \A x \in AllRows : RowOk(x)'
  BY <1>1, LoginsLeftAlone
<1> QED
  BY <1>5, <1>7, <1>8, <1>9, <1>10 DEF IInv

\* A clean field has been swept; the last one ends the run.
LEMMA NextFieldIInv ==
  ASSUME IInv, NextField
  PROVE  IInv'
<1>0. TypeOK /\ ScriptOk /\ SweptOk
  BY DEF IInv
<1>1. /\ script.pc = "loop" /\ script.batch = {}
      /\ script' = IF script.at = Len(Sweep)
                   THEN [script EXCEPT !.pc = "exited"]
                   ELSE [script EXCEPT !.pc = "find", !.at = @ + 1]
      /\ UNCHANGED <<now, db, logins, runs, others, late, lost>>
  BY DEF NextField
<1>2. script.at \in 1 .. 4 /\ Len(Sweep) = 4
  BY <1>0, <1>1, SweepCovers DEF ScriptOk
<1>3. /\ script'.pc \in {"find", "exited"} /\ script'.batch = {}
      /\ script'.apply = script.apply /\ script'.exitCode = script.exitCode
      /\ script'.pc = "exited" => script'.at = 4 /\ script.at = 4
      /\ script'.pc = "find" => script'.at = script.at + 1
      /\ script'.at \in 1 .. 4
      /\ script' \in [pc : {"off", "find", "loop", "exited"}, at : 0 .. 4,
                      batch : SUBSET (Places \X Strings), apply : BOOLEAN, exitCode : {0, 2}]
  <2>1. script \in [pc : {"off", "find", "loop", "exited"}, at : 0 .. 4,
                    batch : SUBSET (Places \X Strings), apply : BOOLEAN, exitCode : {0, 2}]
    BY <1>0 DEF TypeOK
  <2>2. CASE script.at = Len(Sweep)
    <3>1. script' = [script EXCEPT !.pc = "exited"]
      BY <1>1, <2>2
    <3> QED BY <1>1, <1>2, <2>1, <2>2, <3>1
  <2>3. CASE script.at # Len(Sweep)
    <3> DEFINE n == script.at + 1
    <3>1. script' = [script EXCEPT !.pc = "find", !.at = n] /\ n \in 1 .. 4 /\ n \in 0 .. 4
      BY <1>1, <1>2, <2>3
    <3> HIDE DEF n
    <3>2. /\ script'.pc = "find" /\ script'.at = n
          /\ script'.batch = script.batch /\ script'.apply = script.apply
          /\ script'.exitCode = script.exitCode
          /\ script' \in [pc : {"off", "find", "loop", "exited"}, at : 0 .. 4,
                          batch : SUBSET (Places \X Strings), apply : BOOLEAN, exitCode : {0, 2}]
      BY <2>1, <3>1
    <3> QED BY <1>1, <3>1, <3>2 DEF n
  <2> QED BY <2>2, <2>3
<1>4. TypeOK'
  BY <1>0, <1>1, <1>3 DEF TypeOK
<1>5. ScriptOk'
  BY <1>3 DEF ScriptOk
<1>6. SweptOk'
  <2>1. \A i \in 1 .. script'.at : i < script'.at \/ script'.pc # "find" => i \in 1 .. script.at
    BY <1>2, <1>3
  <2>2. \A p : Stored(p)' = Stored(p)
    BY <1>1 DEF Stored
  <2>3. \A i : PlacesAt(i)' = PlacesAt(i)
    BY DEF PlacesAt
  <2> QED BY <1>0, <1>1, <1>3, <2>1, <2>2, <2>3 DEF SweptOk
<1>7. CleanMeansAgree'
  <2>1. \A p \in Places : Stored(p)' = Stored(p)
    BY <1>1 DEF Stored
  <2> SUFFICES ASSUME script'.pc = "exited", script.apply, script.exitCode = 0, NEW p \in Places \ late
               PROVE  /\ Lean(Stored(p)) = Hydrated(Stored(p))
                      /\ Hydrated(Stored(p)) = (Means(Stored(p)) = "yes")
    BY <1>1, <1>3, <2>1 DEF CleanMeansAgree
  <2>2. PICK i \in 1 .. 4 : p \in PlacesAt(i)
    BY SweepCovers
  <2>3. Stored(p) \notin Strings
    BY <1>0, <1>1, <1>3, <2>2 DEF SweptOk
  <2> QED BY <1>0, <2>3, StoredIsRaw, Values
<1>8. /\ StatsOk' /\ \A r \in Reqs : LoginOk(r)'
      /\ \A x \in AllRows : RowOk(x)'
  BY <1>1, LoginsLeftAlone
<1> QED
  BY <1>4, <1>5, <1>6, <1>7, <1>8 DEF IInv

\* It is killed, and has nothing in its hands.
LEMMA FailIInv ==
  ASSUME IInv, Fail
  PROVE  IInv'
<1>0. TypeOK
  BY DEF IInv
<1>1. script' = Off /\ UNCHANGED <<now, db, logins, runs, others, late, lost>>
  BY DEF Fail
<1>2. /\ script'.pc = "off" /\ script'.batch = {}
      /\ script' \in [pc : {"off", "find", "loop", "exited"}, at : 0 .. 4,
                      batch : SUBSET (Places \X Strings), apply : BOOLEAN, exitCode : {0, 2}]
  BY <1>1 DEF Off
<1>3. TypeOK'
  BY <1>0, <1>1, <1>2 DEF TypeOK
<1>4. ScriptOk' /\ SweptOk' /\ CleanMeansAgree'
  BY <1>2 DEF ScriptOk, SweptOk, CleanMeansAgree
<1>5. /\ StatsOk' /\ \A r \in Reqs : LoginOk(r)'
      /\ \A x \in AllRows : RowOk(x)'
  BY <1>1, LoginsLeftAlone
<1> QED
  BY <1>3, <1>4, <1>5 DEF IInv

\* The clock goes on.
LEMMA TickIInv ==
  ASSUME IInv, Tick
  PROVE  IInv'
<1>0. TypeOK /\ now \in Nat
  BY DEF IInv, TypeOK
<1>1. now < MaxTime /\ now' = now + 1 /\ UNCHANGED <<db, logins, script, runs, others, late, lost>>
  BY DEF Tick
<1>2. TypeOK'
  BY <1>0, <1>1 DEF TypeOK
<1>3. ASSUME NEW r \in Reqs PROVE LoginOk(r)'
  BY <1>0, <1>1, LoginStands DEF IInv
<1>4. ASSUME NEW x \in AllRows PROVE RowOk(x)'
  <2>1. rows[x].lastLogin \in Int /\ RowOk(x)
    BY <1>0, DocParts DEF IInv, TypeOK
  <2> QED BY <1>0, <1>1, <2>1 DEF RowOk
<1>5. StatsOk'
  BY <1>1 DEF IInv, StatsOk
<1>6. ScriptOk' /\ SweptOk' /\ CleanMeansAgree'
  BY <1>1, <1>2, FlagsStand DEF Stored
<1> QED
  BY <1>2, <1>3, <1>4, <1>5, <1>6 DEF IInv

\* One document is done: what is left in the batch is still what is left to do.
LEMMA MigrateIInv ==
  ASSUME IInv, NEW e \in Places \X Strings, Migrate(e)
  PROVE  IInv'
<1>0. /\ TypeOK /\ ScriptOk /\ SweptOk
      /\ e[1] \in Places /\ e[2] \in Strings /\ e = <<e[1], e[2]>>
  BY DEF IInv
<1>1. /\ script.pc = "loop" /\ e \in script.batch
      /\ script' = [script EXCEPT !.batch = @ \ {e},
                      !.exitCode = IF Decide(e[2]) = e[2] THEN 2 ELSE @]
      /\ UNCHANGED <<now, logins, runs, others, late>>
  BY DEF Migrate
<1>2. /\ script'.pc = "loop" /\ script'.at = script.at /\ script'.apply = script.apply
      /\ script'.batch = script.batch \ {e}
      /\ script'.exitCode = IF Decide(e[2]) = e[2] THEN 2 ELSE script.exitCode
      /\ script' \in [pc : {"off", "find", "loop", "exited"}, at : 0 .. 4,
                      batch : SUBSET (Places \X Strings), apply : BOOLEAN, exitCode : {0, 2}]
  BY <1>0, <1>1 DEF TypeOK
<1>3. script.at \in 1 .. 4
  BY <1>0, <1>1 DEF ScriptOk
<1>4. CleanMeansAgree'
  BY <1>2 DEF CleanMeansAgree
<1>5. \A i \in 1 .. script.at : PlacesAt(i)' = PlacesAt(i) /\ PlacesAt(i) \subseteq Places
  <2>1. \A i \in 1 .. script.at : i \in 1 .. 4
    BY <1>3
  <2> QED BY <2>1, SweepCovers DEF PlacesAt
<1>6. CASE script.apply /\ Decide(e[2]) # e[2]
  <2>1. Put(e[1], Decide(e[2])) /\ lost' = lost \cup ({e[1]} \cap late)
    BY <1>6 DEF Migrate
  <2>2. Decide(e[2]) \in Raw /\ Decide(e[2]) \notin Strings
    BY <1>0, <1>6, Decided
  <2>3. /\ rows' \in [AllRows -> Docs] /\ Stored(e[1])' = Decide(e[2])
        /\ \A q \in Places \ {e[1]} : Stored(q)' = Stored(q)
    BY <1>0, <2>1, <2>2, Written
  <2>4. TypeOK'
    <3>1. lost' \subseteq Places /\ lock' = lock /\ current' \subseteq Reqs
      BY <1>0, <2>1 DEF TypeOK, Put
    <3> QED BY <1>0, <1>1, <1>2, <2>3, <3>1 DEF TypeOK
  <2>5. ScriptOk'
    <3>1. ASSUME NEW d \in script'.batch, d[1] \notin late' PROVE Stored(d[1])' = d[2]
      <4>1. d \in script.batch /\ d # e /\ Stored(d[1]) = d[2] /\ d[1] \in Places /\ d = <<d[1], d[2]>>
        BY <1>0, <1>1, <1>2, <3>1 DEF ScriptOk, TypeOK
      <4>2. d[1] # e[1]
        <5>1. SUFFICES ASSUME d[1] = e[1] PROVE FALSE
          OBVIOUS
        <5>2. e[2] = Stored(e[1])
          BY <1>0, <1>1, <3>1, <5>1 DEF ScriptOk
        <5> QED BY <1>0, <4>1, <5>1, <5>2
      <4> QED BY <2>3, <4>1, <4>2
    <3> QED BY <1>2, <1>3, <3>1 DEF ScriptOk
  <2>6. SweptOk'
    <3> SUFFICES ASSUME script.apply, script.exitCode = 0, NEW i \in 1 .. script.at,
                        NEW p \in PlacesAt(i) \ late, Stored(p)' \in Strings
                 PROVE  <<p, Stored(p)'>> \in script'.batch
      BY <1>1, <1>2, <1>5, <1>6 DEF SweptOk
    <3>1. p \in Places /\ p # e[1]
      BY <1>5, <2>2, <2>3
    <3>2. Stored(p)' = Stored(p)
      BY <2>3, <3>1
    <3>3. <<p, Stored(p)>> \in script.batch
      BY <1>0, <1>1, <3>2 DEF SweptOk
    <3>4. <<p, Stored(p)>> # e
      BY <1>0, <3>1
    <3> QED BY <1>2, <3>2, <3>3, <3>4
  <2>7. /\ StatsOk' /\ \A r \in Reqs : LoginOk(r)'
        /\ \A x \in AllRows : RowOk(x)'
    BY <1>0, <1>1, <2>1, <2>2, PutStep
  <2> QED BY <1>4, <2>4, <2>5, <2>6, <2>7 DEF IInv
<1>7. CASE ~(script.apply /\ Decide(e[2]) # e[2])
  <2>1. UNCHANGED <<db, lost>>
    BY <1>7 DEF Migrate
  <2>2. TypeOK'
    BY <1>0, <1>1, <1>2, <2>1 DEF TypeOK
  <2>3. \A p \in Places : Stored(p)' = Stored(p)
    BY <2>1 DEF Stored
  <2>4. ScriptOk'
    <3>1. \A d \in script.batch : d[1] \in Places
      BY <1>0 DEF TypeOK
    <3> QED BY <1>0, <1>1, <1>2, <1>3, <2>3, <3>1 DEF ScriptOk
  <2>5. SweptOk'
    BY <1>2, <1>7 DEF SweptOk
  <2>6. /\ StatsOk' /\ \A r \in Reqs : LoginOk(r)'
        /\ \A x \in AllRows : RowOk(x)'
    BY <1>1, <2>1, LoginsLeftAlone
  <2> QED BY <1>4, <2>2, <2>4, <2>5, <2>6 DEF IInv
<1> QED
  BY <1>6, <1>7

\* A flag is set: the script has no hold on its place any more.
LEMMA SetFlagIInv ==
  ASSUME IInv, NEW p \in Places, SetFlag(p)
  PROVE  IInv'
<1>0. TypeOK /\ ScriptOk /\ SweptOk /\ CleanMeansAgree
  BY DEF IInv
<1>1. PICK v \in {"true", "false", "'true'", "'false'"} \ {Stored(p)} :
        Put(p, v) /\ meant' = [meant EXCEPT ![p] = Means(v)]
  BY DEF SetFlag
<1>2. /\ writes < MaxWrites /\ writes' = writes + 1
      /\ late' = late \cup {p} /\ lost' = lost \ {p}
      /\ UNCHANGED <<now, logins, script, runs>>
  BY DEF SetFlag
<1>3. v \in Raw /\ Means(v) \in {"yes", "no", "unknown"}
  BY Values DEF Raw, Strings
<1>4. /\ rows' \in [AllRows -> Docs] /\ Stored(p)' = v
      /\ \A q \in Places \ {p} : Stored(q)' = Stored(q)
  BY <1>1, <1>3, Written
<1>5. TypeOK'
  <2>1. /\ lock' = lock /\ current' \subseteq Reqs /\ late' \subseteq Places /\ lost' \subseteq Places
        /\ meant' \in [Places -> {"yes", "no", "unknown"}] /\ writes' \in 0 .. MaxWrites
    BY <1>0, <1>1, <1>2, <1>3 DEF TypeOK, Put
  <2> QED BY <1>0, <1>2, <1>4, <2>1 DEF TypeOK
<1>6. ScriptOk'
  <2>1. \A d \in script.batch : d[1] \in Places
    BY <1>0 DEF TypeOK
  <2> QED BY <1>0, <1>2, <1>4, <2>1 DEF ScriptOk
<1>7. SweptOk'
  <2>1. \A i \in 1 .. script.at : PlacesAt(i)' = PlacesAt(i) /\ PlacesAt(i) \subseteq Places
    <3>1. script.at \in 0 .. 4 /\ \A i \in 1 .. script.at : i \in 1 .. 4
      BY <1>0 DEF TypeOK
    <3> QED BY <3>1, SweepCovers DEF PlacesAt
  <2> QED BY <1>0, <1>2, <1>4, <2>1 DEF SweptOk
<1>8. CleanMeansAgree'
  BY <1>0, <1>2, <1>4 DEF CleanMeansAgree
<1>9. /\ StatsOk' /\ \A r \in Reqs : LoginOk(r)'
      /\ \A x \in AllRows : RowOk(x)'
  BY <1>1, <1>2, <1>3, PutStep
<1> QED
  BY <1>5, <1>6, <1>7, <1>8, <1>9 DEF IInv

\* Every step of the code.
LEMMA StepIInv ==
  ASSUME IInv, [Next]_vars
  PROVE  IInv'
<1>1. ASSUME NEW r \in Reqs, CallLogin4Ever(r) \/ CallLoginRememberme(r) \/ CallLoginAdmin(r)
      PROVE  IInv'
  BY <1>1, CallIInv DEF CallLogin4Ever, CallLoginRememberme, CallLoginAdmin
<1>2. ASSUME NEW r \in Reqs,
             RefuseCredentials(r) \/ RefuseLockedOut(r) \/ Throw(r) \/ RetryTransient(r)
      PROVE  IInv'
  BY <1>2, EndIInv
<1>3. ASSUME NEW r \in Reqs, Read(r) \/ UpdateLoginStats(r) \/ Commit(r)
      PROVE  IInv'
  BY <1>3, ReadIInv, UpdateIInv, CommitIInv
<1>4. CASE Start \/ Find \/ NextField \/ Fail \/ Tick
  BY <1>4, StartIInv, FindIInv, NextFieldIInv, FailIInv, TickIInv
<1>5. ASSUME NEW e \in Places \X Strings, Migrate(e) PROVE IInv'
  BY <1>5, MigrateIInv
<1>6. ASSUME NEW p \in Places, SetFlag(p) PROVE IInv'
  BY <1>6, SetFlagIInv
<1>7. CASE UNCHANGED vars
  <2>1. UNCHANGED <<now, db, logins, script, runs, others, late, lost>>
    BY <1>7 DEF vars
  <2>2. TypeOK'
    BY <2>1 DEF IInv, TypeOK
  <2>3. ScriptOk' /\ SweptOk' /\ CleanMeansAgree'
    BY <2>1, <2>2, FlagsStand DEF Stored
  <2> QED BY <2>1, <2>2, <2>3, LoginsLeftAlone DEF IInv
<1> QED
  BY <1>1, <1>2, <1>3, <1>4, <1>5, <1>6, <1>7 DEF Next

\* The types hold, the dates of the logins are whole, and a run of the script with
\* --apply that exited with 0 left no string behind that it could have seen; so does
\* everything logins and script rely on between two steps.
THEOREM LoginsIInv == Spec => []IInv
<1>1. Init => IInv
  BY InitLogins
<1>2. IInv /\ [Next]_vars => IInv'
  BY StepIInv
<1> QED
  BY <1>1, <1>2, PTL DEF Spec

----------------------------------------------------------------------------
\* A step of a login changes no flag.
LEMMA LoginKeepsFlags ==
  ASSUME IInv, NEW r \in Reqs,
         \/ CallLogin4Ever(r) \/ CallLoginRememberme(r) \/ CallLoginAdmin(r)
         \/ Read(r) \/ RefuseCredentials(r) \/ RefuseLockedOut(r) \/ UpdateLoginStats(r) \/ Commit(r)
         \/ RetryTransient(r) \/ Throw(r)
  PROVE  /\ UNCHANGED <<meant, lost>>
         /\ \A p \in Places : Stored(p)' = Stored(p)
<1>1. CASE Commit(r)
  BY <1>1, CommitKeepsFlags DEF Commit
<1>2. CASE ~Commit(r)
  <2>1. UNCHANGED <<rows, meant, lost>>
    BY <1>2 DEF CallLogin4Ever, CallLoginRememberme, CallLoginAdmin, Call, Read, RefuseCredentials,
         RefuseLockedOut, Refuse, UpdateLoginStats, RetryTransient, Throw
  <2> QED BY <2>1 DEF Stored
<1> QED BY <1>1, <1>2

\* The script writes what the string it read had meant, and that is what is stored,
\* unless the place is late.
LEMMA MigrateKeepsMeaning ==
  ASSUME IInv, MeaningKept, NEW e \in Places \X Strings, Migrate(e)
  PROVE  MeaningKept'
<1>0. TypeOK /\ ScriptOk /\ e[1] \in Places /\ e[2] \in Strings
  BY DEF IInv
<1>1. e \in script.batch /\ UNCHANGED meant
  BY DEF Migrate
<1>2. CASE script.apply /\ Decide(e[2]) # e[2]
  <2>1. Put(e[1], Decide(e[2])) /\ lost' = lost \cup ({e[1]} \cap late)
    BY <1>2 DEF Migrate
  <2>2. Decide(e[2]) \in Raw /\ Means(Decide(e[2])) = Means(e[2])
    BY <1>0, Decided
  <2>3. /\ Stored(e[1])' = Decide(e[2])
        /\ \A q \in Places \ {e[1]} : Stored(q)' = Stored(q)
    BY <1>0, <2>1, <2>2, Written
  <2>4. ASSUME NEW p \in Places, p \notin lost' PROVE Means(Stored(p)') = meant[p]
    <3>1. p \notin lost
      BY <2>1, <2>4
    <3>2. CASE p = e[1]
      <4>1. p \notin late
        BY <2>1, <2>4, <3>2
      <4>2. Stored(p) = e[2]
        BY <1>0, <1>1, <3>2, <4>1 DEF ScriptOk
      <4> QED BY <2>2, <2>3, <3>1, <3>2, <4>2 DEF MeaningKept
    <3>3. CASE p # e[1]
      BY <2>3, <3>1, <3>3 DEF MeaningKept
    <3> QED BY <3>2, <3>3
  <2> QED BY <1>1, <2>4 DEF MeaningKept, Means
<1>3. CASE ~(script.apply /\ Decide(e[2]) # e[2])
  <2>1. UNCHANGED <<rows, lost>>
    BY <1>3 DEF Migrate
  <2> QED BY <1>1, <2>1 DEF MeaningKept, Means, Stored
<1> QED
  BY <1>2, <1>3

\* Who sets a flag says what it means.
LEMMA SetFlagMeans ==
  ASSUME IInv, MeaningKept, NEW p \in Places, SetFlag(p)
  PROVE  MeaningKept'
<1>1. PICK v \in {"true", "false", "'true'", "'false'"} \ {Stored(p)} :
        Put(p, v) /\ meant' = [meant EXCEPT ![p] = Means(v)]
  BY DEF SetFlag
<1>2. lost' = lost \ {p} /\ v \in Raw /\ meant \in [Places -> {"yes", "no", "unknown"}]
  BY DEF SetFlag, IInv, TypeOK, Raw, Strings
<1>3. /\ Stored(p)' = v
      /\ \A q \in Places \ {p} : Stored(q)' = Stored(q)
  BY <1>1, <1>2, Written
<1>4. ASSUME NEW q \in Places, q \notin lost' PROVE Means(Stored(q)') = meant'[q]
  BY <1>1, <1>2, <1>3, <1>4 DEF MeaningKept
<1> QED
  BY <1>4 DEF MeaningKept, Means

\* No login, no run of the script and no kill of it, in whatever order, changes what a
\* flag says, but where the script overwrites a flag set after it had read it.
THEOREM LoginsMeaningKept == Spec => []MeaningKept
<1>1. Init => IInv /\ MeaningKept
  BY InitLogins
<1>2. IInv /\ MeaningKept /\ [Next]_vars => IInv' /\ MeaningKept'
  <2> SUFFICES ASSUME IInv, MeaningKept, [Next]_vars PROVE MeaningKept'
    BY StepIInv
  <2>1. ASSUME NEW r \in Reqs,
               \/ CallLogin4Ever(r) \/ CallLoginRememberme(r) \/ CallLoginAdmin(r)
               \/ Read(r) \/ RefuseCredentials(r) \/ RefuseLockedOut(r) \/ UpdateLoginStats(r)
               \/ Commit(r) \/ RetryTransient(r) \/ Throw(r)
        PROVE  MeaningKept'
    <3>1. UNCHANGED <<meant, lost>> /\ \A p \in Places : Stored(p)' = Stored(p)
      BY <2>1, LoginKeepsFlags
    <3> QED BY <3>1 DEF MeaningKept, Means
  <2>2. CASE Start \/ Find \/ NextField \/ Fail \/ Tick \/ UNCHANGED vars
    <3>1. UNCHANGED <<rows, meant, lost>>
      BY <2>2 DEF Start, Find, NextField, Fail, Tick, vars
    <3> QED BY <3>1 DEF MeaningKept, Means, Stored
  <2>3. ASSUME NEW e \in Places \X Strings, Migrate(e) PROVE MeaningKept'
    BY <2>3, MigrateKeepsMeaning
  <2>4. ASSUME NEW p \in Places, SetFlag(p) PROVE MeaningKept'
    BY <2>4, SetFlagMeans
  <2> QED BY <2>1, <2>2, <2>3, <2>4 DEF Next
<1> QED
  BY <1>1, <1>2, PTL DEF Spec

\* Logins that cross never move the date of the last login back, nor write the date of
\* the first one twice: a commit stores a date no older than the one it replaces.
THEOREM LoginsStayInOrder == Spec => LoginsInOrder
<1>1. IInv /\ [Next]_vars =>
        [\A x \in AllRows :
           /\ rows'[x].lastLogin >= rows[x].lastLogin
           /\ rows[x].firstLogin # NoDate => rows'[x].firstLogin = rows[x].firstLogin]_vars
  <2> SUFFICES ASSUME IInv, [Next]_vars, NEW x \in AllRows
               PROVE  /\ rows'[x].lastLogin >= rows[x].lastLogin
                      /\ rows[x].firstLogin # NoDate => rows'[x].firstLogin = rows[x].firstLogin
    OBVIOUS
  <2>0. /\ rows[x].lastLogin \in Int
        /\ (rows[x].firstLogin = NoDate) = (rows[x].lastLogin = NoDate)
    BY DocParts DEF IInv, TypeOK, StatsOk
  <2>1. CASE UNCHANGED rows
    BY <2>0, <2>1
  <2>2. ASSUME NEW r \in Reqs, Commit(r)
        PROVE  /\ rows'[x].lastLogin >= rows[x].lastLogin
               /\ rows[x].firstLogin # NoDate => rows'[x].firstLogin = rows[x].firstLogin
    <3>1. CASE x = row[r]
      <4>1. /\ rows[x].lastLogin <= rows'[x].lastLogin /\ rows'[x].lastLogin \in 0 .. now
            /\ rows'[x].firstLogin = IF rows[x].lastLogin = NoDate
                                     THEN rows'[x].lastLogin ELSE rows[x].firstLogin
        BY <2>2, <3>1, Committed
      <4> QED BY <2>0, <4>1
    <3>2. CASE x # row[r]
      BY <2>0, <2>2, <3>2, Committed
    <3> QED BY <3>1, <3>2
  <2>3. ASSUME NEW p \in Places, NEW v \in Raw, Put(p, v)
        PROVE  /\ rows'[x].lastLogin >= rows[x].lastLogin
               /\ rows[x].firstLogin # NoDate => rows'[x].firstLogin = rows[x].firstLogin
    BY <2>0, <2>3, Written
  <2>4. ASSUME NEW r \in Reqs,
               \/ CallLogin4Ever(r) \/ CallLoginRememberme(r) \/ CallLoginAdmin(r)
               \/ Read(r) \/ RefuseCredentials(r) \/ RefuseLockedOut(r) \/ UpdateLoginStats(r)
               \/ RetryTransient(r) \/ Throw(r)
        PROVE  UNCHANGED rows
    BY <2>4 DEF CallLogin4Ever, CallLoginRememberme, CallLoginAdmin, Call, Read, RefuseCredentials,
         RefuseLockedOut, Refuse, UpdateLoginStats, RetryTransient, Throw
  <2>5. CASE Start \/ Find \/ NextField \/ Fail \/ Tick \/ UNCHANGED vars
    BY <2>1, <2>5 DEF Start, Find, NextField, Fail, Tick, vars
  <2>6. ASSUME NEW e \in Places \X Strings, Migrate(e)
        PROVE  UNCHANGED rows \/ \E p \in Places, v \in Raw : Put(p, v)
    <3>1. e[1] \in Places /\ Decide(e[2]) \in Raw
      BY Decided
    <3> QED BY <2>6, <3>1 DEF Migrate
  <2>7. ASSUME NEW p \in Places, SetFlag(p)
        PROVE  \E v \in Raw : Put(p, v)
    <3>1. {"true", "false", "'true'", "'false'"} \subseteq Raw
      BY DEF Raw, Strings
    <3> QED BY <2>7, <3>1 DEF SetFlag
  <2> QED
    BY <2>1, <2>2, <2>3, <2>4, <2>5, <2>6, <2>7 DEF Next
<1> QED
  BY <1>1, LoginsIInv, PTL DEF Spec, LoginsInOrder

\* A login goes through only on a row that no flag was meant to lock when it commits,
\* but for a 'True' that no clean run of the script has met yet; and right credentials
\* are refused only on a row whose flags say so, strings included: the row a login has
\* written is as it read it.
THEOREM LoginsVerdictFollowsFlags == Spec => VerdictFollowsFlags
<1>1. ASSUME IInv, NEW r \in Reqs, Commit(r), NEW f \in Fields
      PROVE  LET flag == rows[row[r]][f] IN
             Means(flag) = "yes" => flag = "'True'" /\ (Migrated => <<row[r], f>> \in late)
  <2> DEFINE x == row[r]
             flag == rows[x][f]
  <2>1. /\ LoginOk(r) /\ x \in AllRows /\ rows \in [AllRows -> Docs] /\ CleanMeansAgree
    BY <1>1 DEF IInv, TypeOK
  <2>2. ~Hydrated(rows[x].deleted) /\ ~Hydrated(rows[x].disabled)
    BY <1>1, <2>1 DEF Commit, LoginOk, LockedOut
  <2>3. flag \in Raw /\ ~Hydrated(flag)
    BY <2>1, <2>2, DocParts
  <2>4. Means(flag) = "yes" => flag = "'True'"
    BY <2>3, Values
  <2>5. ASSUME Migrated, <<x, f>> \notin late PROVE Means(flag) # "yes"
    <3>1. <<x, f>> \in Places /\ Stored(<<x, f>>) = flag
      BY <2>1 DEF Places, Stored
    <3> HIDE DEF flag, x
    <3>2. Hydrated(flag) = (Means(flag) = "yes")
      BY <2>1, <2>5, <3>1 DEF CleanMeansAgree
    <3> QED BY <2>3, <3>2
  <2> QED BY <2>4, <2>5
<1>2. ASSUME IInv, NEW r \in Reqs, RefuseLockedOut(r)
      PROVE  "yes" \in {Means(view[r].disabled), Means(view[r].deleted)}
  <2>1. view[r].disabled \in Raw /\ view[r].deleted \in Raw
    BY <1>2, DocParts DEF IInv, TypeOK
  <2> QED BY <1>2, <2>1, Values DEF RefuseLockedOut, LockedOut
<1>3. IInv /\ [Next]_vars =>
        [\A r \in Reqs :
           /\ Commit(r) =>
                \A f \in Fields :
                  LET flag == rows[row[r]][f] IN
                  Means(flag) = "yes" => flag = "'True'" /\ (Migrated => <<row[r], f>> \in late)
           /\ RefuseLockedOut(r) =>
                "yes" \in {Means(view[r].disabled), Means(view[r].deleted)}]_vars
  BY <1>1, <1>2
<1> QED
  BY <1>3, LoginsIInv, PTL DEF Spec, VerdictFollowsFlags
=============================================================================
