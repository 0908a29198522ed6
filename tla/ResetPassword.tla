--------------------------- MODULE ResetPassword ---------------------------
(***************************************************************************)
(* The password-reset flow of one UserBase account: the resetPwd mutation  *)
(* (store a reset hash, mail a link after the commit) and the              *)
(* updatePassword mutation (spend the hash), run by concurrent requests in *)
(* MongoDB transactions that conflict, fail and are re-run by the driver's *)
(* withTransaction, beside the writers that block or delete the account.   *)
(*                                                                         *)
(* A request is a process.  Every await of the resolvers is a boundary     *)
(* between two actions.  Hashes are numbered in the order they are drawn   *)
(* (randomString never repeats one), minutes are scaled: Throttle stands   *)
(* for the 10 of resetPwd.mts, Lifetime for the 60 of assertResetAllowed.  *)
(***************************************************************************)
EXTENDS Integers

CONSTANTS
  ResetReqs,      \* the calls of resetPwd
  UpdateReqs,     \* the calls of updatePassword
  NoReq,          \* not a request: nobody
  Throttle,       \* minutes before a second link may be requested
  Lifetime,       \* minutes a link stays valid
  MaxTime,        \* bound on the clock
  MaxHash,        \* bound on the hashes drawn
  MaxAttempts     \* bound on the runs of one transaction callback

ASSUME ReqsAssumption ==
  /\ ResetReqs \cap UpdateReqs = {}
  /\ NoReq \notin ResetReqs \cup UpdateReqs
ASSUME BoundsAssumption ==
  /\ Throttle \in Nat /\ Lifetime \in Nat
  /\ MaxTime \in Nat /\ MaxHash \in Nat /\ MaxAttempts \in Nat

Reqs == ResetReqs \cup UpdateReqs

NoHash == 0                     \* an unset resetHash
NoDate == -1                    \* an unset resetDateReq
Hashes == 1 .. MaxHash
GuessedHash == MaxHash + 1      \* a string no mail ever carried

\* What the flow reads and writes of an account.  "blocked" is one whose
\* deleted or disabled flag is set, or whose row is missing.
Docs == [status : {"active", "blocked"},
         resetHash : Hashes \cup {NoHash},
         resetDateReq : (0 .. MaxTime) \cup {NoDate},
         password : Reqs \cup {NoReq}]

VARIABLES
  now,        \* the clock
  issued,     \* how many hashes randomString has drawn
  acct,       \* the committed document
  lock,       \* the request whose open transaction wrote the document
  current,    \* requests whose open transaction read the document as it still is
  pc,         \* where each request stands
  tries,      \* runs of its callback so far
  hash,       \* resetPwd: the hash drawn by this run; updatePassword: the argument
  view,       \* the document as its transaction sees it, own writes included
  outbox,     \* pendingMail / confirmTo: the hash the mail after the commit is about
  persisted,  \* history: hashes some transaction committed
  mailed,     \* history: hashes of the links mailed
  changedBy,  \* history: updatePassword requests whose change was committed
  confirmed   \* history: requests that mailed the confirmation

db == <<acct, lock, current>>
local == <<tries, hash, view, outbox>>
history == <<persisted, mailed, changedBy, confirmed>>
vars == <<now, issued, db, pc, local, history>>

PCs == {"idle", "callback", "read", "save", "write", "wrote", "commit",
        "committed", "done"}

\* The places where a transaction is open (or about to open again).
InCallback == {"callback", "read", "save", "write", "wrote", "commit"}

TypeOK ==
  /\ now \in 0 .. MaxTime
  /\ issued \in 0 .. MaxHash
  /\ acct \in Docs
  /\ lock \in Reqs \cup {NoReq}
  /\ current \subseteq Reqs
  /\ pc \in [Reqs -> PCs]
  /\ \A r \in ResetReqs : pc[r] \notin {"write", "wrote"}
  /\ \A r \in UpdateReqs : pc[r] # "save"
  /\ tries \in [Reqs -> 0 .. MaxAttempts]
  /\ hash \in [Reqs -> 0 .. GuessedHash]
  /\ view \in [Reqs -> Docs]
  /\ outbox \in [Reqs -> 0 .. MaxHash]
  /\ persisted \subseteq Hashes
  /\ mailed \subseteq Hashes
  /\ changedBy \subseteq UpdateReqs
  /\ confirmed \subseteq UpdateReqs

Fresh == [status |-> "active", resetHash |-> NoHash,
          resetDateReq |-> NoDate, password |-> NoReq]

Init ==
  /\ now = 0
  /\ issued = 0
  /\ acct = Fresh
  /\ lock = NoReq
  /\ current = {}
  /\ pc = [r \in Reqs |-> "idle"]
  /\ tries = [r \in Reqs |-> 0]
  /\ hash = [r \in Reqs |-> NoHash]
  /\ view = [r \in Reqs |-> Fresh]
  /\ outbox = [r \in Reqs |-> NoHash]
  /\ persisted = {}
  /\ mailed = {}
  /\ changedBy = {}
  /\ confirmed = {}

----------------------------------------------------------------------------
(* The driver and the server, as the resolvers use them.                   *)

\* Mutant: the writes are sent without the session of the transaction.
ConflictMissed(r) == FALSE

\* A write inside a transaction conflicts with a document that changed after
\* the snapshot or that another open transaction has written.
Conflict(r) == r \notin current \/ lock \notin {NoReq, r}

\* The transaction of r is aborted: whatever it had written is rolled back.
Abort(r) ==
  /\ lock' = IF lock = r THEN NoReq ELSE lock
  /\ current' = current \ {r}

Goto(r, place) == pc' = [pc EXCEPT ![r] = place]

\* The resolver returns or throws, and its local variables are gone (the
\* argument of updatePassword stays, for the history).
Finish(r) ==
  /\ Goto(r, "done")
  /\ tries' = [tries EXCEPT ![r] = 0]
  /\ view' = [view EXCEPT ![r] = Fresh]
  /\ outbox' = [outbox EXCEPT ![r] = NoHash]
  /\ hash' = IF r \in ResetReqs THEN [hash EXCEPT ![r] = NoHash] ELSE hash

\* DateLib.minElapsed: whole minutes, whichever of the two dates is later.
minElapsed(date) == IF date > now THEN date - now ELSE now - date

\* getResetPwd: the snapshot yields a record unless the row is missing or
\* its deleted or disabled flag is set.
HasRecord(r) == view[r].status = "active"

----------------------------------------------------------------------------
(* resetPwd                                                                *)

CallReset(r) ==
  /\ r \in ResetReqs
  /\ pc[r] = "idle"
  /\ MaxAttempts > 0
  /\ Goto(r, "callback")
  /\ tries' = [tries EXCEPT ![r] = 1]
  /\ UNCHANGED <<now, issued, db, hash, view, outbox, history>>

\* Both callbacks begin with the read that fixes the snapshot.
Read(r) ==
  /\ pc[r] = "callback"
  /\ Goto(r, "read")
  /\ view' = [view EXCEPT ![r] = acct]
  /\ current' = current \cup {r}
  /\ UNCHANGED <<now, issued, acct, lock, tries, hash, outbox, history>>

Throttled(r) ==
  /\ view[r].resetDateReq # NoDate
  /\ minElapsed(view[r].resetDateReq) < Throttle

\* Unknown, blocked or throttled: the callback returns having written nothing.
SkipSilently(r) ==
  /\ r \in ResetReqs
  /\ pc[r] = "read"
  /\ ~HasRecord(r) \/ Throttled(r)
  /\ Goto(r, "commit")
  /\ UNCHANGED <<now, issued, db, local, history>>

DrawHash(r) ==
  /\ r \in ResetReqs
  /\ pc[r] = "read"
  /\ HasRecord(r) /\ ~Throttled(r)
  /\ issued < MaxHash
  /\ issued' = issued + 1
  /\ hash' = [hash EXCEPT ![r] = issued + 1]
  /\ view' = [view EXCEPT ![r].resetHash = issued + 1, ![r].resetDateReq = now]
  /\ Goto(r, "save")
  /\ UNCHANGED <<now, db, tries, outbox, history>>

\* saveResetReq; pendingMail is set as soon as it returns, before the commit.
Save(r) ==
  /\ pc[r] = "save"
  /\ ~Conflict(r)
  /\ lock' = r
  /\ outbox' = [outbox EXCEPT ![r] = hash[r]]
  /\ Goto(r, "commit")
  /\ UNCHANGED <<now, issued, acct, current, tries, hash, view, history>>

\* After a commit that succeeded: mail the link if pendingMail is set.
MailLink(r) ==
  /\ r \in ResetReqs
  /\ pc[r] = "committed"
  /\ mailed' = mailed \cup ({outbox[r]} \ {NoHash})
  /\ Finish(r)
  /\ UNCHANGED <<now, issued, db, persisted, changedBy, confirmed>>

----------------------------------------------------------------------------
(* updatePassword                                                          *)

\* The caller holds a link that was mailed, or makes a hash up.
CallUpdate(r) ==
  /\ r \in UpdateReqs
  /\ pc[r] = "idle"
  /\ MaxAttempts > 0
  /\ \E h \in mailed \cup {GuessedHash} : hash' = [hash EXCEPT ![r] = h]
  /\ Goto(r, "callback")
  /\ tries' = [tries EXCEPT ![r] = 1]
  /\ UNCHANGED <<now, issued, db, view, outbox, history>>

\* assertResetAllowed on what the transaction read.
ResetAllowed(r) ==
  /\ HasRecord(r)
  /\ view[r].resetHash # NoHash
  /\ view[r].resetDateReq # NoDate
  /\ view[r].resetHash = hash[r]
  /\ minElapsed(view[r].resetDateReq) <= Lifetime

\* The 403 is no transient error: the transaction is aborted and it is thrown.
Refuse(r) ==
  /\ r \in UpdateReqs
  /\ pc[r] = "read"
  /\ ~ResetAllowed(r)
  /\ Abort(r)
  /\ Finish(r)
  /\ UNCHANGED <<now, issued, acct, history>>

Allow(r) ==
  /\ r \in UpdateReqs
  /\ pc[r] = "read"
  /\ ResetAllowed(r)
  /\ Goto(r, "write")
  /\ UNCHANGED <<now, issued, db, local, history>>

\* updatePasswordDb, once bcrypt has hashed the password.
WritePassword(r) ==
  /\ pc[r] = "write"
  /\ ~Conflict(r)
  /\ lock' = r
  /\ view' = [view EXCEPT ![r].password = r]
  /\ Goto(r, "wrote")
  /\ UNCHANGED <<now, issued, acct, current, tries, hash, outbox, history>>

\* removeResetReq; the callback then returns the name confirmTo is set to.
ClearReset(r) ==
  /\ pc[r] = "wrote"
  /\ view' = [view EXCEPT ![r].resetHash = NoHash, ![r].resetDateReq = NoDate]
  /\ outbox' = [outbox EXCEPT ![r] = hash[r]]
  /\ Goto(r, "commit")
  /\ UNCHANGED <<now, issued, db, tries, hash, history>>

\* After a commit that succeeded: the awaited confirmation; its failure is
\* swallowed, so the request answers true either way (Kill is the case that
\* no confirmation leaves).
Confirm(r) ==
  /\ r \in UpdateReqs
  /\ pc[r] = "committed"
  /\ confirmed' = IF outbox[r] = NoHash THEN confirmed ELSE confirmed \cup {r}
  /\ Finish(r)
  /\ UNCHANGED <<now, issued, db, persisted, mailed, changedBy>>

----------------------------------------------------------------------------
(* How a transaction ends.                                                 *)

\* The server applies the transaction of r: every other open snapshot is old.
Apply(r) ==
  IF lock = r
  THEN /\ acct' = view[r]
       /\ lock' = NoReq
       /\ current' = {}
       /\ persisted' = persisted \cup ({view[r].resetHash} \ {NoHash})
       /\ changedBy' = IF r \in UpdateReqs THEN changedBy \cup {r} ELSE changedBy
  ELSE /\ current' = current \ {r}
       /\ UNCHANGED <<acct, lock, persisted, changedBy>>

CommitOk(r) ==
  /\ pc[r] = "commit"
  /\ Apply(r)
  /\ Goto(r, "committed")
  /\ UNCHANGED <<now, issued, local, mailed, confirmed>>

\* Applied, but the answer was lost until withTransaction ran out of time.
CommitUnknown(r) ==
  /\ pc[r] = "commit"
  /\ Apply(r)
  /\ Finish(r)
  /\ UNCHANGED <<now, issued, mailed, confirmed>>

\* Mutant: the callback is re-run without a limit.
RetryTransientForever(r) ==
  /\ pc[r] \in {"callback", "write", "wrote", "commit"}
  /\ Abort(r)
  /\ Goto(r, "callback")
  /\ UNCHANGED <<now, issued, acct, local, history>>

\* An error that carries the TransientTransactionError label (a write
\* conflict, a failover) re-runs the callback.  saveResetReq replaces the
\* driver's error by one of its own, so the label is lost at "save".
\* The variables of the resolver outside the callback keep their values.
RetryTransient(r) ==
  /\ pc[r] \in {"callback", "write", "wrote", "commit"}
  /\ tries[r] < MaxAttempts
  /\ tries' = [tries EXCEPT ![r] = @ + 1]
  /\ Abort(r)
  /\ Goto(r, "callback")
  /\ UNCHANGED <<now, issued, acct, hash, view, outbox, history>>

\* Mutant: the catch reports the error and falls through to the mail.
ThrowSwallowed(r) ==
  /\ pc[r] \in InCallback \ {"read"}
  /\ Abort(r)
  /\ Goto(r, "committed")
  /\ UNCHANGED <<now, issued, acct, local, history>>

\* Any other error, a conflict at "save", or no time left: the transaction is
\* aborted and tryCatchRethrow throws, so no mail is sent.
Throw(r) ==
  /\ pc[r] \in InCallback \ {"read"}
  /\ Abort(r)
  /\ Finish(r)
  /\ UNCHANGED <<now, issued, acct, history>>

\* The process is killed; the server rolls an open transaction back, and a
\* mail not yet handed over is lost.
Kill(r) ==
  /\ pc[r] \notin {"idle", "done"}
  /\ Abort(r)
  /\ Finish(r)
  /\ UNCHANGED <<now, issued, acct, history>>

----------------------------------------------------------------------------
(* The rest of the world.                                                  *)

\* A plain write (the control panel, abandonUser) waits for the document lock.
SetStatus(s) ==
  /\ lock = NoReq
  /\ acct.status # s
  /\ acct' = [acct EXCEPT !.status = s]
  /\ current' = {}
  /\ UNCHANGED <<now, issued, lock, pc, local, history>>

Tick ==
  /\ now < MaxTime
  /\ now' = now + 1
  /\ UNCHANGED <<issued, db, pc, local, history>>

Step(r) ==
  \/ Read(r)
  \/ SkipSilently(r)
  \/ DrawHash(r)
  \/ Save(r)
  \/ MailLink(r)
  \/ Refuse(r)
  \/ Allow(r)
  \/ WritePassword(r)
  \/ ClearReset(r)
  \/ Confirm(r)
  \/ CommitOk(r)
  \/ CommitUnknown(r)
  \/ RetryTransient(r)
  \/ Throw(r)

Next ==
  \/ \E r \in Reqs : CallReset(r) \/ CallUpdate(r) \/ Step(r) \/ Kill(r)
  \/ \E s \in {"active", "blocked"} : SetStatus(s)
  \/ Tick

Spec == Init /\ [][Next]_vars

\* Every request keeps being scheduled; nothing else is promised.
FairSpec == Spec /\ \A r \in Reqs : WF_vars(Step(r))

----------------------------------------------------------------------------
(* Properties                                                              *)

\* One reset hash changes the password at most once, however many
\* updatePassword requests present it at the same time.
HashSpentOnce ==
  \A r, q \in changedBy : hash[r] = hash[q] => r = q

\* The password of an account that is deleted or disabled is never changed,
\* even when the flag is set between the check and the commit.
NoChangeWhileBlocked ==
  [][acct'.password # acct.password =>
       acct.status = "active" /\ acct'.status = "active"]_vars

\* A password change presents the hash stored at the instant it commits: a
\* link superseded by a later request, or already spent, changes nothing.
OnlyTheStoredHashWorks ==
  [][\A r \in UpdateReqs :
       acct'.password = r /\ acct.password # r => hash[r] = acct.resetHash]_vars

\* Of two hashes stored one after the other, the second was requested at
\* least Throttle minutes after the first, unless the first was cleared.
StoredAtMostEveryThrottle ==
  [][acct.resetDateReq # NoDate /\ acct'.resetHash \notin {NoHash, acct.resetHash}
       => acct'.resetDateReq - acct.resetDateReq >= Throttle]_vars

\* The confirmation is mailed only by a request whose change was committed,
\* and updatePassword answers true only then.
ConfirmedMeansChanged ==
  /\ confirmed \subseteq changedBy
  /\ \A r \in UpdateReqs : pc[r] = "committed" => r \in changedBy

\* pendingMail outlives a run of the callback that is re-run, so a link may be
\* mailed that was never stored (resetPwd.mts:103); only a re-run can do that: a
\* request whose callback ran once mails what its transaction persisted.
UnstoredMailNeedsRetry ==
  \A r \in ResetReqs :
    pc[r] = "committed" /\ outbox[r] \notin persisted \cup {NoHash} => tries[r] > 1

\* Every request that was made ends: withTransaction gives up,
\* and no request waits for another one.
EveryRequestSettles ==
  \A r \in Reqs : pc[r] # "idle" ~> pc[r] = "done"
----------------------------------------------------------------------------
(* The inductive invariant behind the safety properties.                   *)

\* Only an open transaction that wrote holds the document, and what it read
\* is still the document; only an open transaction has a snapshot.
LockInv ==
  /\ lock # NoReq => lock \in current /\ pc[lock] \in {"wrote", "commit"}
  /\ \A r \in current : pc[r] \in InCallback \ {"callback"}
  /\ \A r \in Reqs : pc[r] = "wrote" => lock = r
  /\ \A r \in UpdateReqs : pc[r] = "commit" => lock = r

\* A snapshot that is current is the document; past its check, an update that
\* could still commit was let through by the hash the document holds.
SnapshotInv ==
  \A r \in current :
    /\ view[r].status = acct.status
    /\ pc[r] \in {"read", "write"} => view[r] = acct
    /\ r \in ResetReqs => view[r].password = acct.password
    /\ r \in UpdateReqs /\ pc[r] \in {"write", "wrote", "commit"} =>
         acct.status = "active" /\ acct.resetHash = hash[r] /\ hash[r] \in Hashes
    /\ r \in UpdateReqs /\ pc[r] \in {"wrote", "commit"} => view[r].password = r
    /\ r \in UpdateReqs /\ pc[r] = "commit" => view[r].resetHash = NoHash

\* No hash that changed a password is stored, or about to be stored, again.
FreshInv ==
  /\ acct.resetHash <= issued
  /\ \A q \in changedBy : /\ hash[q] \in Hashes
                          /\ hash[q] <= issued
                          /\ hash[q] # acct.resetHash
                          /\ pc[q] \in {"committed", "done"}
  /\ \A r \in current \cap ResetReqs :
       pc[r] = "save" \/ lock = r =>
         /\ view[r].resetHash = hash[r]
         /\ hash[r] \in Hashes /\ hash[r] <= issued
         /\ \A q \in changedBy : hash[q] # hash[r]

IInv == TypeOK /\ LockInv /\ SnapshotInv /\ FreshInv /\ HashSpentOnce
============================================================================
