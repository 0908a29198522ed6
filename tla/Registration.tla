---------------------------- MODULE Registration ----------------------------
(***************************************************************************)
(* Who owns an e-mail address: the signUp mutation, the e-mail activation  *)
(* link (routerVerifyEmail and its guard chain) and the confirmation of an *)
(* e-mail change (emailChangeHashVerify), run by concurrent requests over  *)
(* the UserBase collection.  Only signUp uses a transaction; the other two *)
(* read a row, decide on the copy and write later, by _id or by address.   *)
(*                                                                         *)
(* A request is a process and every await is a boundary between actions.   *)
(* Hashes are numbered in the order emailHash draws them, and a row is     *)
(* identified by the hash it was registered with, which stands for _id.    *)
(***************************************************************************)
EXTENDS Integers, FiniteSets

CONSTANTS
  Emails,       \* lower-cased addresses
  SignUps,      \* the calls of signUp
  Links,        \* the visits of routerVerifyEmail
  Changes,      \* the calls of emailChangeHashVerify
  Modes,        \* onAbandon of the flows mounted: "delete", "soft-delete", "keep"
  Strikes,      \* the 5 of handleIfTooMuchRequestsTimes
  Window,       \* the 3 days a link stays valid
  MaxTime,      \* bound on the clock
  MaxHash,      \* bound on the hashes drawn
  MaxAttempts   \* bound on the runs of the transaction callback of signUp

Reqs == SignUps \cup Links \cup Changes

NoEmail == ""

ASSUME RegistrationAssumption ==
  /\ SignUps \cap Links = {} /\ SignUps \cap Changes = {} /\ Links \cap Changes = {}
  /\ Modes \subseteq {"delete", "soft-delete", "keep"}
  /\ {Strikes, Window, MaxTime, MaxHash, MaxAttempts} \subseteq Nat
  /\ NoEmail \notin Emails

Unset == -1                     \* a field the document does not have
NoHash == 0
Hashes == 1 .. MaxHash
GuessedHash == MaxHash + 1      \* a string no mail ever carried
Ids == Hashes                   \* _id of a row
NoId == 0

\* The fields these flows read and write: login.email, account.email.* and
\* whether account.deleted or account.disabled is set.
Rows == [email : Emails \cup {NoEmail}, valid : BOOLEAN, hash : 0 .. MaxHash,
         dateLastReq : (0 .. MaxTime) \cup {Unset},
         requestTimes : Nat \cup {Unset},
         newEmailTmp : Emails \cup {NoEmail}, blocked : BOOLEAN]

Blank == [email |-> NoEmail, valid |-> FALSE, hash |-> NoHash, dateLastReq |-> Unset,
          requestTimes |-> Unset, newEmailTmp |-> NoEmail, blocked |-> FALSE]

VARIABLES
  now,        \* the clock
  issued,     \* hashes drawn so far
  live,       \* the _ids of the rows in the collection
  rows,       \* the rows (Blank when not live)
  pc,         \* where each request stands
  email,      \* the address each request is about
  hash,       \* the hash it presents (signUp: the one it drew)
  uid,        \* the row it found
  copy,       \* the row as it was read
  tries,      \* runs of the transaction callback
  mailedTo,   \* history: <<hash, address>> of every link mailed
  strikes     \* history: wrong hashes counted against each row since its hash was set

db == <<live, rows>>
args == <<email, hash>>
found == <<uid, copy>>
history == <<mailedTo, strikes>>
vars == <<now, issued, db, pc, args, found, tries, history>>

PCs == {"idle", "exists", "register", "mail", "commit",
        "lookup", "guards", "strikeOut", "expire", "enable", "welcome",
        "load", "decide", "count", "confirm", "wrongHash", "done"}

TypeOK ==
  /\ now \in 0 .. MaxTime
  /\ issued \in 0 .. MaxHash
  /\ live \subseteq Ids
  /\ rows \in [Ids -> Rows]
  /\ \A id \in Ids \ live : rows[id] = Blank
  /\ pc \in [Reqs -> PCs]
  /\ email \in [Reqs -> Emails \cup {NoEmail}]
  /\ hash \in [Reqs -> 0 .. GuessedHash]
  /\ uid \in [Reqs -> 0 .. MaxHash]
  /\ copy \in [Reqs -> Rows]
  /\ tries \in [SignUps -> 0 .. MaxAttempts]
  /\ mailedTo \subseteq Hashes \X Emails
  /\ strikes \in [Ids -> Nat]

Init ==
  /\ now = 0
  /\ issued = 0
  /\ live = {}
  /\ rows = [id \in Ids |-> Blank]
  /\ pc = [r \in Reqs |-> "idle"]
  /\ email = [r \in Reqs |-> NoEmail]
  /\ hash = [r \in Reqs |-> NoHash]
  /\ uid = [r \in Reqs |-> NoId]
  /\ copy = [r \in Reqs |-> Blank]
  /\ tries = [s \in SignUps |-> 0]
  /\ mailedTo = {}
  /\ strikes = [id \in Ids |-> 0]

----------------------------------------------------------------------------
Goto(r, place) == pc' = [pc EXCEPT ![r] = place]

\* Answered, redirected or thrown: the variables of the handler are gone.
Finish(r) ==
  /\ Goto(r, "done")
  /\ email' = [email EXCEPT ![r] = NoEmail]
  /\ hash' = [hash EXCEPT ![r] = NoHash]
  /\ uid' = [uid EXCEPT ![r] = NoId]
  /\ copy' = [copy EXCEPT ![r] = Blank]
  /\ tries' = IF r \in SignUps THEN [tries EXCEPT ![r] = 0] ELSE tries

\* findOne: some row that satisfies a filter on one field.
RowsWith(e) == {id \in live : rows[id].email = e}
RowsChangingTo(e) == {id \in live : rows[id].newEmailTmp = e}

\* dateLastReq is more than three days old.
TooOld(date) == now - Window > date

\* An address and a hash a caller may hold: any link mailed, or a guess.
Presentable == {m[1] : m \in mailedTo} \cup {GuessedHash}

----------------------------------------------------------------------------
(* signUp: one transaction, and the mail is sent inside its callback.      *)

CallSignUp(s) ==
  /\ pc[s] = "idle"
  /\ MaxAttempts > 0
  /\ \E e \in Emails : email' = [email EXCEPT ![s] = e]
  /\ tries' = [tries EXCEPT ![s] = 1]
  /\ Goto(s, "exists")
  /\ UNCHANGED <<now, issued, db, hash, found, history>>

\* userExist in the snapshot: the owner is told by mail and the caller gets 409.
Taken(s) ==
  /\ pc[s] = "exists"
  /\ RowsWith(email[s]) # {}
  /\ Finish(s)
  /\ UNCHANGED <<now, issued, db, history>>

NotTaken(s) ==
  /\ pc[s] = "exists"
  /\ RowsWith(email[s]) = {}
  /\ Goto(s, "register")
  /\ UNCHANGED <<now, issued, db, args, found, tries, history>>

\* registerNewUser: the insert is buffered by the transaction.  UserBase has
\* no unique index on login.email, so two inserts never conflict.
RegisterNewUser(s) ==
  /\ pc[s] = "register"
  /\ issued < MaxHash
  /\ issued' = issued + 1
  /\ hash' = [hash EXCEPT ![s] = issued + 1]
  /\ copy' = [copy EXCEPT ![s] =
       [Blank EXCEPT !.email = email[s], !.hash = issued + 1,
                     !.dateLastReq = now, !.requestTimes = 1]]
  /\ Goto(s, "mail")
  /\ UNCHANGED <<now, db, email, uid, tries, history>>

\* Mutant: a run that is not the first sends no mail.
SendEmailVerifyFirstRunOnly(s) ==
  /\ pc[s] = "mail"
  /\ mailedTo' = IF tries[s] = 1 THEN mailedTo \cup {<<hash[s], email[s]>>} ELSE mailedTo
  /\ Goto(s, "commit")
  /\ UNCHANGED <<now, issued, db, args, found, tries, strikes>>

SendEmailVerify(s) ==
  /\ pc[s] = "mail"
  /\ mailedTo' = mailedTo \cup {<<hash[s], email[s]>>}
  /\ Goto(s, "commit")
  /\ UNCHANGED <<now, issued, db, args, found, tries, strikes>>

CommitSignUp(s) ==
  /\ pc[s] = "commit"
  /\ live' = live \cup {hash[s]}
  /\ rows' = [rows EXCEPT ![hash[s]] = copy[s]]
  /\ Finish(s)
  /\ UNCHANGED <<now, issued, history>>

\* A TransientTransactionError re-runs the callback, mail included.
RetrySignUp(s) ==
  /\ pc[s] \in {"exists", "register", "commit"}
  /\ tries[s] < MaxAttempts
  /\ tries' = [tries EXCEPT ![s] = @ + 1]
  /\ copy' = [copy EXCEPT ![s] = Blank]
  /\ hash' = [hash EXCEPT ![s] = NoHash]
  /\ Goto(s, "exists")
  /\ UNCHANGED <<now, issued, db, email, uid, history>>

\* Anything else, the mail's failure included, aborts and is thrown.
ThrowSignUp(s) ==
  /\ pc[s] \in {"exists", "register", "mail", "commit"}
  /\ Finish(s)
  /\ UNCHANGED <<now, issued, db, history>>

----------------------------------------------------------------------------
(* routerVerifyEmail: read, guard chain on the copy, then one write.       *)

CallLink(l) ==
  /\ pc[l] = "idle"
  /\ \E e \in Emails : email' = [email EXCEPT ![l] = e]
  /\ \E h \in Presentable : hash' = [hash EXCEPT ![l] = h]
  /\ Goto(l, "lookup")
  /\ UNCHANGED <<now, issued, db, found, tries, history>>

\* userData4VerifyEmail.
Lookup(l) ==
  /\ pc[l] = "lookup"
  /\ \E id \in RowsWith(email[l]) :
       /\ uid' = [uid EXCEPT ![l] = id]
       /\ copy' = [copy EXCEPT ![l] = rows[id]]
  /\ Goto(l, "guards")
  /\ UNCHANGED <<now, issued, db, args, tries, history>>

LookupMiss(l) ==
  /\ pc[l] = "lookup"
  /\ RowsWith(email[l]) = {}
  /\ Finish(l)
  /\ UNCHANGED <<now, issued, db, history>>

\* The guards of assertVerifyEmailAllowed, in the order they are awaited.
AlreadyValid(l) == copy[l].valid
BadDB(l) == copy[l].requestTimes = Unset \/ copy[l].dateLastReq = Unset
TooMuchRequestsTimes(l) == copy[l].requestTimes >= Strikes
\* Mutant: the hash is not compared.
HashBadNever(l) == FALSE
HashBad(l) == copy[l].hash # hash[l]
MoreThan3DaysPassed(l) == TooOld(copy[l].dateLastReq)
Blocked(l) == copy[l].blocked

\* The branch the first guard that fires takes.
Verdict(l) ==
  IF AlreadyValid(l) \/ BadDB(l) THEN "refuse"
  ELSE IF TooMuchRequestsTimes(l) THEN "strikeOut"
  ELSE IF HashBad(l) THEN "wrongHash"
  ELSE IF MoreThan3DaysPassed(l) THEN "expire"
  ELSE IF Blocked(l) THEN "refuse" ELSE "enable"

Guards(l) ==
  /\ pc[l] = "guards"
  /\ Verdict(l) # "refuse"
  /\ Goto(l, Verdict(l))
  /\ copy' = [copy EXCEPT ![l] = Blank]
  /\ UNCHANGED <<now, issued, db, args, uid, tries, history>>

RefuseLink(l) ==
  /\ pc[l] = "guards"
  /\ Verdict(l) = "refuse"
  /\ Finish(l)
  /\ UNCHANGED <<now, issued, db, history>>

\* abandonUser, after the mail was awaited.  It is keyed by the address as
\* the link spelled it, and the stored addresses are lower case: with a capital
\* in the link (exact is FALSE; nothing before this reads the spelling) it
\* matches no row.
Dispose(l) ==
  /\ pc[l] \in {"strikeOut", "expire"}
  /\ \E mode \in Modes, exact \in BOOLEAN :
       IF mode # "keep" /\ exact /\ RowsWith(email[l]) # {}
       THEN \E id \in RowsWith(email[l]) :
              IF mode = "delete"
              THEN /\ live' = live \ {id}
                   /\ rows' = [rows EXCEPT ![id] = Blank]
              ELSE /\ rows' = [rows EXCEPT ![id].blocked = TRUE]
                   /\ UNCHANGED live
       ELSE UNCHANGED db
  /\ Finish(l)
  /\ UNCHANGED <<now, issued, history>>

\* The mail before the disposal fails, and its error ends the chain; so does
\* a write that fails.
ThrowLink(l) ==
  /\ pc[l] \in {"lookup", "strikeOut", "expire", "wrongHash", "enable"}
  /\ Finish(l)
  /\ UNCHANGED <<now, issued, db, history>>

\* enableEmailAccess: an update by _id, which matches nothing if the row is gone.
Enable(l) ==
  /\ pc[l] = "enable"
  /\ rows' = IF uid[l] \in live
             THEN [rows EXCEPT ![uid[l]].valid = TRUE, ![uid[l]].hash = NoHash,
                               ![uid[l]].dateLastReq = Unset,
                               ![uid[l]].requestTimes = Unset]
             ELSE rows
  /\ Goto(l, "welcome")
  /\ UNCHANGED <<now, issued, live, args, found, tries, history>>

\* Its failure is swallowed.
SendWelcome(l) ==
  /\ pc[l] = "welcome"
  /\ Finish(l)
  /\ UNCHANGED <<now, issued, db, mailedTo, strikes>>

\* Mutant: the counter is set to what was read plus one.
IncReqTimesBySet(r) ==
  /\ pc[r] = "wrongHash"
  /\ IF uid[r] \in live
     THEN /\ rows' = [rows EXCEPT ![uid[r]].requestTimes = IF @ = Unset THEN 1 ELSE 2]
          /\ strikes' = [strikes EXCEPT ![uid[r]] = @ + 1]
     ELSE UNCHANGED <<rows, strikes>>
  /\ Finish(r)
  /\ UNCHANGED <<now, issued, live, mailedTo>>

\* incReqTimes of both flows: $inc by _id, atomic, creating an unset field.
IncReqTimes(r) ==
  /\ pc[r] = "wrongHash"
  /\ IF uid[r] \in live
     THEN /\ rows' = [rows EXCEPT ![uid[r]].requestTimes =
                        IF @ = Unset THEN 1 ELSE @ + 1]
          /\ strikes' = [strikes EXCEPT ![uid[r]] = @ + 1]
     ELSE UNCHANGED <<rows, strikes>>
  /\ Finish(r)
  /\ UNCHANGED <<now, issued, live, mailedTo>>

----------------------------------------------------------------------------
(* emailChangeHashVerify                                                   *)

\* The mutation that starts a change belongs to the consumer: for an active
\* account it stores the new address and calls setEmailHash.
StartChange(id, e) ==
  /\ id \in live
  /\ rows[id].valid /\ ~rows[id].blocked
  /\ issued < MaxHash
  /\ issued' = issued + 1
  /\ rows' = [rows EXCEPT ![id].newEmailTmp = e, ![id].hash = issued + 1,
                          ![id].requestTimes = 1, ![id].dateLastReq = now]
  /\ mailedTo' = mailedTo \cup {<<issued + 1, e>>}
  /\ strikes' = [strikes EXCEPT ![id] = 0]
  /\ UNCHANGED <<now, live, pc, args, found, tries>>

CallChange(c) ==
  /\ pc[c] = "idle"
  /\ \E e \in Emails : email' = [email EXCEPT ![c] = e]
  /\ \E h \in Presentable : hash' = [hash EXCEPT ![c] = h]
  /\ Goto(c, "load")
  /\ UNCHANGED <<now, issued, db, found, tries, history>>

\* loadVerifyContext.
Load(c) ==
  /\ pc[c] = "load"
  /\ \E id \in RowsChangingTo(email[c]) :
       /\ uid' = [uid EXCEPT ![c] = id]
       /\ copy' = [copy EXCEPT ![c] = rows[id]]
  /\ Goto(c, "decide")
  /\ UNCHANGED <<now, issued, db, args, tries, history>>

LoadMiss(c) ==
  /\ pc[c] = "load"
  /\ RowsChangingTo(email[c]) = {}
  /\ Finish(c)
  /\ UNCHANGED <<now, issued, db, history>>

\* handleHashMismatch throws when there is no counter, and otherwise counts.
Mismatch(c) ==
  /\ pc[c] = "decide"
  /\ HashBad(c)
  /\ copy[c].requestTimes # Unset
  /\ Goto(c, "wrongHash")
  /\ copy' = [copy EXCEPT ![c] = Blank]
  /\ UNCHANGED <<now, issued, db, args, uid, tries, history>>

\* handleValidHash up to its first await.
ChangeAllowed(c) ==
  /\ ~HashBad(c)
  /\ copy[c].dateLastReq # Unset
  /\ ~MoreThan3DaysPassed(c)
  /\ ~Blocked(c)

Match(c) ==
  /\ pc[c] = "decide"
  /\ ChangeAllowed(c)
  /\ Goto(c, "count")
  /\ copy' = [copy EXCEPT ![c] = Blank]
  /\ UNCHANGED <<now, issued, db, args, uid, tries, history>>

RefuseChange(c) ==
  /\ pc[c] = "decide"
  /\ ~ChangeAllowed(c)
  /\ HashBad(c) => copy[c].requestTimes = Unset
  /\ Finish(c)
  /\ UNCHANGED <<now, issued, db, history>>

\* countDocuments: has somebody registered with this address meanwhile?
CountFree(c) ==
  /\ pc[c] = "count"
  /\ RowsWith(email[c]) = {}
  /\ Goto(c, "confirm")
  /\ UNCHANGED <<now, issued, db, args, found, tries, history>>

CountTaken(c) ==
  /\ pc[c] = "count"
  /\ RowsWith(email[c]) # {}
  /\ Finish(c)
  /\ UNCHANGED <<now, issued, db, history>>

ConfirmNewEmail(c) ==
  /\ pc[c] = "confirm"
  /\ rows' = IF uid[c] \in live
             THEN [rows EXCEPT ![uid[c]].email = email[c], ![uid[c]].hash = NoHash,
                               ![uid[c]].dateLastReq = Unset,
                               ![uid[c]].requestTimes = Unset,
                               ![uid[c]].newEmailTmp = NoEmail]
             ELSE rows
  /\ Finish(c)
  /\ UNCHANGED <<now, issued, live, history>>

----------------------------------------------------------------------------
\* The control panel sets or clears the deleted or disabled flag.
SetBlocked(id, b) ==
  /\ id \in live
  /\ rows[id].blocked # b
  /\ rows' = [rows EXCEPT ![id].blocked = b]
  /\ UNCHANGED <<now, issued, live, pc, args, found, tries, history>>

Tick ==
  /\ now < MaxTime
  /\ now' = now + 1
  /\ UNCHANGED <<issued, db, pc, args, found, tries, history>>

SignUpStep(s) ==
  \/ CallSignUp(s)
  \/ Taken(s)
  \/ NotTaken(s)
  \/ RegisterNewUser(s)
  \/ SendEmailVerify(s)
  \/ CommitSignUp(s)
  \/ RetrySignUp(s)
  \/ ThrowSignUp(s)

LinkStep(l) ==
  \/ CallLink(l)
  \/ Lookup(l)
  \/ LookupMiss(l)
  \/ Guards(l)
  \/ RefuseLink(l)
  \/ Dispose(l)
  \/ ThrowLink(l)
  \/ Enable(l)
  \/ SendWelcome(l)
  \/ IncReqTimes(l)

ChangeStep(c) ==
  \/ CallChange(c)
  \/ Load(c)
  \/ LoadMiss(c)
  \/ Mismatch(c)
  \/ Match(c)
  \/ RefuseChange(c)
  \/ CountFree(c)
  \/ CountTaken(c)
  \/ ConfirmNewEmail(c)
  \/ IncReqTimes(c)

Next ==
  \/ \E s \in SignUps : SignUpStep(s)
  \/ \E l \in Links : LinkStep(l)
  \/ \E c \in Changes : ChangeStep(c)
  \/ \E id \in Ids, e \in Emails : StartChange(id, e)
  \/ \E id \in Ids, b \in BOOLEAN : SetBlocked(id, b)
  \/ Tick

Spec == Init /\ [][Next]_vars

----------------------------------------------------------------------------
(* Properties                                                              *)

\* An address becomes verified only when a request presents a hash that was
\* mailed to that very address, whatever happened to the row since it was read.
VerifiedByItsMail ==
  [][\A id \in live :
       ~rows[id].valid /\ rows'[id].valid =>
         \E l \in Links : /\ pc[l] = "enable" /\ uid[l] = id
                          /\ <<hash[l], rows[id].email>> \in mailedTo]_vars

\* The login address of a row changes only to an address whose hash, mailed
\* to it, was presented.
ChangedByItsMail ==
  [][\A id \in live \cap live' :
       rows'[id].email # rows[id].email =>
         \E c \in Changes : <<hash[c], rows'[id].email>> \in mailedTo]_vars

\* No wrong hash goes uncounted: concurrent requests never lose a strike of a
\* pending row, whose counter starts at 1.
NoStrikeLost ==
  \A id \in live : ~rows[id].valid => rows[id].requestTimes = 1 + strikes[id]

\* A pending row always has a link somebody can follow: its hash was mailed to
\* its address, whichever run of the callback committed it.
PendingIsReachable ==
  \A id \in live : ~rows[id].valid => <<rows[id].hash, rows[id].email>> \in mailedTo

\* accessPaths.mts:136: what the guards dispose of is "an abandoned pending
\* registration", never an account that has been verified.
OnlyPendingDisposed ==
  [][\A id \in live : id \notin live' => ~rows[id].valid]_vars

----------------------------------------------------------------------------
(* What the proofs need.                                                   *)

\* A registration that the transaction has buffered: its hash is nobody else's,
\* and it has no row yet that a wrong hash could be counted against.
Buffered(s) == pc[s] \in {"mail", "commit"}

FreshIds ==
  /\ \A id \in Ids : id > issued => strikes[id] = 0
  /\ \A s \in SignUps :
       Buffered(s) =>
         /\ hash[s] \in 1 .. issued /\ hash[s] \notin live /\ strikes[hash[s]] = 0
         /\ \A t \in SignUps : Buffered(t) /\ hash[t] = hash[s] => t = s
         /\ \A r \in Reqs : uid[r] # hash[s]

SignUpOk(s) ==
  /\ pc[s] \in {"idle", "exists", "register", "mail", "commit", "done"}
  /\ pc[s] \notin {"idle", "done"} => email[s] \in Emails
  /\ Buffered(s) => /\ copy[s].email = email[s] /\ copy[s].hash = hash[s]
                    /\ ~copy[s].valid /\ copy[s].requestTimes = 1
                    /\ copy[s].newEmailTmp = NoEmail
  /\ pc[s] = "commit" => <<hash[s], email[s]>> \in mailedTo

\* The row a link has found, as long as it is pending: it still has the address
\* the link names, and the hash the link was compared with was mailed there.
LinkOk(l) ==
  /\ pc[l] \in {"idle", "lookup", "guards", "strikeOut", "expire", "enable", "welcome",
                "wrongHash", "done"}
  /\ pc[l] \in {"idle", "lookup"} => uid[l] = NoId
  /\ uid[l] \in live /\ ~rows[uid[l]].valid =>
       /\ rows[uid[l]].email = email[l]
       /\ pc[l] = "guards" => <<copy[l].hash, email[l]>> \in mailedTo
       /\ pc[l] = "enable" => <<hash[l], email[l]>> \in mailedTo

\* Only a verified account changes its address.
ChangeOk(c) ==
  /\ pc[c] \in {"idle", "load", "decide", "count", "confirm", "wrongHash", "done"}
  /\ uid[c] \in live => rows[uid[c]].valid
  /\ pc[c] \notin {"idle", "done"} => email[c] \in Emails /\ hash[c] # NoHash
  /\ pc[c] = "decide" => copy[c].hash = NoHash \/ <<copy[c].hash, email[c]>> \in mailedTo
  /\ pc[c] \in {"count", "confirm"} => <<hash[c], email[c]>> \in mailedTo

ReqOk(r) ==
  /\ uid[r] <= issued
  /\ r \in SignUps => SignUpOk(r)
  /\ r \in Links => LinkOk(r)
  /\ r \in Changes => ChangeOk(r)

\* A change that is under way: of a verified account, and its hash was mailed to
\* the new address or has been taken away.
RowOk(id) ==
  /\ id <= issued
  /\ rows[id].newEmailTmp # NoEmail =>
       /\ rows[id].valid
       /\ rows[id].hash = NoHash \/ <<rows[id].hash, rows[id].newEmailTmp>> \in mailedTo

\* No registration is out of reach: that, and what requests and rows rely on, is
\* inductive, and the other properties follow from it.
IInv ==
  /\ TypeOK
  /\ PendingIsReachable
  /\ FreshIds
  /\ \A r \in Reqs : ReqOk(r)
  /\ \A id \in live : RowOk(id)
============================================================================
