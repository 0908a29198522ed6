------------------------ MODULE ResetPasswordProofs ------------------------
(***************************************************************************)
(* Proofs about ResetPassword: the inductive invariant IInv and the safety *)
(* properties that follow from it, for any number of requests, any clock   *)
(* and any number of re-runs.                                              *)
(*                                                                         *)
(* Why the properties are not inductive alone: HashSpentOnce speaks of     *)
(* changes that happened, while a second change is prevented by what open  *)
(* transactions know.  LockInv says who may still commit, SnapshotInv that *)
(* what such a transaction read is what the document holds, FreshInv that  *)
(* a hash that was spent is never stored again, MailInv that a link to     *)
(* mail was stored first, DateInv that no date lies ahead of the clock.    *)
(***************************************************************************)
EXTENDS ResetPassword, TLAPS

USE ReqsAssumption, BoundsAssumption
    DEF Reqs, Docs, Hashes, NoHash, NoDate, GuessedHash, PCs, InCallback, Goto,
        db, local, history, vars

\* The initial state satisfies the inductive invariant.
LEMMA InitIInv == Init => IInv
  BY DEF Init, Fresh, IInv, TypeOK, LockInv, SnapshotInv, FreshInv, HashSpentOnce

\* Every step preserves it, action by action and conjunct by conjunct.
LEMMA NextIInv == IInv /\ [Next]_vars => IInv'
  <1> SUFFICES ASSUME IInv, [Next]_vars PROVE IInv'
    OBVIOUS
  <1> USE DEF IInv
  <1>1. ASSUME NEW r \in Reqs, CallReset(r) PROVE IInv'
    <2>1. TypeOK'
      BY <1>1 DEF CallReset, TypeOK
    <2>2. LockInv'
      BY <1>1 DEF CallReset, TypeOK, LockInv
    <2>3. SnapshotInv'
      BY <1>1 DEF CallReset, TypeOK, LockInv, SnapshotInv
    <2>4. FreshInv'
      BY <1>1 DEF CallReset, TypeOK, LockInv, FreshInv
    <2>5. HashSpentOnce'
      BY <1>1 DEF CallReset, TypeOK, FreshInv, HashSpentOnce
    <2> QED BY <2>1, <2>2, <2>3, <2>4, <2>5
  <1>2. ASSUME NEW r \in Reqs, Read(r) PROVE IInv'
    <2>1. TypeOK'
      BY <1>2 DEF Read, TypeOK
    <2>2. LockInv'
      BY <1>2 DEF Read, TypeOK, LockInv
    <2>3. SnapshotInv'
      BY <1>2 DEF Read, TypeOK, LockInv, SnapshotInv
    <2>4. FreshInv'
      BY <1>2 DEF Read, TypeOK, LockInv, FreshInv
    <2>5. HashSpentOnce'
      BY <1>2 DEF Read, TypeOK, FreshInv, HashSpentOnce
    <2> QED BY <2>1, <2>2, <2>3, <2>4, <2>5
  <1>3. ASSUME NEW r \in Reqs, SkipSilently(r) PROVE IInv'
    <2>1. TypeOK'
      BY <1>3 DEF SkipSilently, TypeOK
    <2>2. LockInv'
      BY <1>3 DEF SkipSilently, TypeOK, LockInv
    <2>3. SnapshotInv'
      BY <1>3 DEF SkipSilently, TypeOK, LockInv, SnapshotInv
    <2>4. FreshInv'
      BY <1>3 DEF SkipSilently, TypeOK, LockInv, FreshInv
    <2>5. HashSpentOnce'
      BY <1>3 DEF SkipSilently, TypeOK, FreshInv, HashSpentOnce
    <2> QED BY <2>1, <2>2, <2>3, <2>4, <2>5
  <1>4. ASSUME NEW r \in Reqs, DrawHash(r) PROVE IInv'
    <2>1. TypeOK'
      <3>1. issued + 1 \in Hashes
        BY <1>4 DEF DrawHash, TypeOK
      <3>2. [view[r] EXCEPT !.resetHash = issued + 1, !.resetDateReq = now] \in Docs
        BY <3>1 DEF TypeOK
      <3>3. view' \in [Reqs -> Docs]
        BY <1>4, <3>2 DEF DrawHash, TypeOK
      <3> QED BY <1>4, <3>1, <3>3 DEF DrawHash, TypeOK
    <2>2. LockInv'
      BY <1>4 DEF DrawHash, TypeOK, LockInv
    <2>3. SnapshotInv'
      BY <1>4 DEF DrawHash, TypeOK, LockInv, SnapshotInv
    <2>4. FreshInv'
      BY <1>4 DEF DrawHash, TypeOK, LockInv, FreshInv
    <2>5. HashSpentOnce'
      BY <1>4 DEF DrawHash, TypeOK, FreshInv, HashSpentOnce
    <2> QED BY <2>1, <2>2, <2>3, <2>4, <2>5
  <1>5. ASSUME NEW r \in Reqs, Save(r) PROVE IInv'
    <2>1. TypeOK'
      BY <1>5 DEF Save, Conflict, TypeOK, FreshInv
    <2>2. LockInv'
      BY <1>5 DEF Save, Conflict, TypeOK, LockInv
    <2>3. SnapshotInv'
      BY <1>5 DEF Save, Conflict, TypeOK, LockInv, SnapshotInv
    <2>4. FreshInv'
      BY <1>5 DEF Save, Conflict, TypeOK, LockInv, FreshInv
    <2>5. HashSpentOnce'
      BY <1>5 DEF Save, Conflict, TypeOK, FreshInv, HashSpentOnce
    <2> QED BY <2>1, <2>2, <2>3, <2>4, <2>5
  <1>6. ASSUME NEW r \in Reqs, MailLink(r) PROVE IInv'
    <2>1. TypeOK'
      <3>1. {outbox[r]} \ {NoHash} \subseteq Hashes
        BY DEF TypeOK
      <3>2. mailed' \subseteq Hashes
        BY <1>6, <3>1 DEF MailLink, TypeOK
      <3> QED BY <1>6, <3>2 DEF MailLink, Finish, Fresh, TypeOK
    <2>2. LockInv'
      BY <1>6 DEF MailLink, Finish, Fresh, TypeOK, LockInv
    <2>3. SnapshotInv'
      BY <1>6 DEF MailLink, Finish, Fresh, TypeOK, LockInv, SnapshotInv
    <2>4. FreshInv'
      BY <1>6 DEF MailLink, Finish, Fresh, TypeOK, LockInv, FreshInv
    <2>5. HashSpentOnce'
      BY <1>6 DEF MailLink, Finish, Fresh, TypeOK, FreshInv, HashSpentOnce
    <2> QED BY <2>1, <2>2, <2>3, <2>4, <2>5
  <1>7. ASSUME NEW r \in Reqs, CallUpdate(r) PROVE IInv'
    <2>1. TypeOK'
      BY <1>7 DEF CallUpdate, TypeOK
    <2>2. LockInv'
      BY <1>7 DEF CallUpdate, TypeOK, LockInv
    <2>3. SnapshotInv'
      BY <1>7 DEF CallUpdate, TypeOK, LockInv, SnapshotInv
    <2>4. FreshInv'
      BY <1>7 DEF CallUpdate, TypeOK, LockInv, FreshInv
    <2>5. HashSpentOnce'
      BY <1>7 DEF CallUpdate, TypeOK, FreshInv, HashSpentOnce
    <2> QED BY <2>1, <2>2, <2>3, <2>4, <2>5
  <1>8. ASSUME NEW r \in Reqs, Refuse(r) PROVE IInv'
    <2>1. TypeOK'
      BY <1>8 DEF Refuse, Abort, Finish, Fresh, TypeOK
    <2>2. LockInv'
      BY <1>8 DEF Refuse, Abort, Finish, Fresh, TypeOK, LockInv
    <2>3. SnapshotInv'
      BY <1>8 DEF Refuse, Abort, Finish, Fresh, TypeOK, LockInv, SnapshotInv
    <2>4. FreshInv'
      BY <1>8 DEF Refuse, Abort, Finish, Fresh, TypeOK, LockInv, FreshInv
    <2>5. HashSpentOnce'
      BY <1>8 DEF Refuse, Abort, Finish, Fresh, TypeOK, FreshInv, HashSpentOnce
    <2> QED BY <2>1, <2>2, <2>3, <2>4, <2>5
  <1>9. ASSUME NEW r \in Reqs, Allow(r) PROVE IInv'
    <2>1. TypeOK'
      BY <1>9 DEF Allow, ResetAllowed, HasRecord, TypeOK
    <2>2. LockInv'
      BY <1>9 DEF Allow, ResetAllowed, HasRecord, TypeOK, LockInv
    <2>3. SnapshotInv'
      BY <1>9 DEF Allow, ResetAllowed, HasRecord, TypeOK, LockInv, SnapshotInv
    <2>4. FreshInv'
      BY <1>9 DEF Allow, ResetAllowed, HasRecord, TypeOK, LockInv, FreshInv
    <2>5. HashSpentOnce'
      BY <1>9 DEF Allow, ResetAllowed, HasRecord, TypeOK, FreshInv, HashSpentOnce
    <2> QED BY <2>1, <2>2, <2>3, <2>4, <2>5
  <1>10. ASSUME NEW r \in Reqs, WritePassword(r) PROVE IInv'
    <2>1. TypeOK'
      BY <1>10 DEF WritePassword, Conflict, TypeOK
    <2>2. LockInv'
      BY <1>10 DEF WritePassword, Conflict, TypeOK, LockInv
    <2>3. SnapshotInv'
      BY <1>10 DEF WritePassword, Conflict, TypeOK, LockInv, SnapshotInv
    <2>4. FreshInv'
      BY <1>10 DEF WritePassword, Conflict, TypeOK, LockInv, FreshInv
    <2>5. HashSpentOnce'
      BY <1>10 DEF WritePassword, Conflict, TypeOK, FreshInv, HashSpentOnce
    <2> QED BY <2>1, <2>2, <2>3, <2>4, <2>5
  <1>11. ASSUME NEW r \in Reqs, ClearReset(r) PROVE IInv'
    <2>1. TypeOK'
      BY <1>11 DEF ClearReset, TypeOK, LockInv, SnapshotInv
    <2>2. LockInv'
      BY <1>11 DEF ClearReset, TypeOK, LockInv
    <2>3. SnapshotInv'
      BY <1>11 DEF ClearReset, TypeOK, LockInv, SnapshotInv
    <2>4. FreshInv'
      BY <1>11 DEF ClearReset, TypeOK, LockInv, FreshInv
    <2>5. HashSpentOnce'
      BY <1>11 DEF ClearReset, TypeOK, FreshInv, HashSpentOnce
    <2> QED BY <2>1, <2>2, <2>3, <2>4, <2>5
  <1>12. ASSUME NEW r \in Reqs, Confirm(r) PROVE IInv'
    <2>1. TypeOK'
      BY <1>12 DEF Confirm, Finish, Fresh, TypeOK
    <2>2. LockInv'
      BY <1>12 DEF Confirm, Finish, Fresh, TypeOK, LockInv
    <2>3. SnapshotInv'
      BY <1>12 DEF Confirm, Finish, Fresh, TypeOK, LockInv, SnapshotInv
    <2>4. FreshInv'
      BY <1>12 DEF Confirm, Finish, Fresh, TypeOK, LockInv, FreshInv
    <2>5. HashSpentOnce'
      BY <1>12 DEF Confirm, Finish, Fresh, TypeOK, FreshInv, HashSpentOnce
    <2> QED BY <2>1, <2>2, <2>3, <2>4, <2>5
  <1>13. ASSUME NEW r \in Reqs, CommitOk(r) PROVE IInv'
    <2>1. TypeOK'
      <3>1. view[r] \in Docs /\ {view[r].resetHash} \ {NoHash} \subseteq Hashes
        BY DEF TypeOK
      <3>2. acct' \in Docs /\ persisted' \subseteq Hashes
        BY <1>13, <3>1 DEF CommitOk, Apply, TypeOK
      <3> QED BY <1>13, <3>2 DEF CommitOk, Apply, TypeOK
    <2>2. LockInv'
      BY <1>13 DEF CommitOk, Apply, TypeOK, LockInv
    <2>3. SnapshotInv'
      BY <1>13 DEF CommitOk, Apply, TypeOK, LockInv, SnapshotInv
    <2>4. FreshInv'
      BY <1>13 DEF CommitOk, Apply, TypeOK, LockInv, FreshInv, SnapshotInv
    <2>5. HashSpentOnce'
      BY <1>13 DEF CommitOk, Apply, TypeOK, FreshInv, HashSpentOnce, LockInv, SnapshotInv
    <2> QED BY <2>1, <2>2, <2>3, <2>4, <2>5
  <1>14. ASSUME NEW r \in Reqs, CommitUnknown(r) PROVE IInv'
    <2>1. TypeOK'
      <3>1. view[r] \in Docs /\ {view[r].resetHash} \ {NoHash} \subseteq Hashes
        BY DEF TypeOK
      <3>2. acct' \in Docs /\ persisted' \subseteq Hashes
        BY <1>14, <3>1 DEF CommitUnknown, Apply, TypeOK
      <3> QED BY <1>14, <3>2 DEF CommitUnknown, Apply, Finish, Fresh, TypeOK
    <2>2. LockInv'
      BY <1>14 DEF CommitUnknown, Apply, Finish, Fresh, TypeOK, LockInv
    <2>3. SnapshotInv'
      BY <1>14 DEF CommitUnknown, Apply, Finish, Fresh, TypeOK, LockInv, SnapshotInv
    <2>4. FreshInv'
      BY <1>14 DEF CommitUnknown, Apply, Finish, Fresh, TypeOK, LockInv, FreshInv, SnapshotInv
    <2>5. HashSpentOnce'
      BY <1>14 DEF CommitUnknown, Apply, Finish, Fresh, TypeOK, FreshInv, HashSpentOnce, LockInv, SnapshotInv
    <2> QED BY <2>1, <2>2, <2>3, <2>4, <2>5
  <1>15. ASSUME NEW r \in Reqs, RetryTransient(r) PROVE IInv'
    <2>1. TypeOK'
      BY <1>15 DEF RetryTransient, Abort, TypeOK
    <2>2. LockInv'
      BY <1>15 DEF RetryTransient, Abort, TypeOK, LockInv
    <2>3. SnapshotInv'
      BY <1>15 DEF RetryTransient, Abort, TypeOK, LockInv, SnapshotInv
    <2>4. FreshInv'
      BY <1>15 DEF RetryTransient, Abort, TypeOK, LockInv, FreshInv
    <2>5. HashSpentOnce'
      BY <1>15 DEF RetryTransient, Abort, TypeOK, FreshInv, HashSpentOnce
    <2> QED BY <2>1, <2>2, <2>3, <2>4, <2>5
  <1>16. ASSUME NEW r \in Reqs, Throw(r) PROVE IInv'
    <2>1. TypeOK'
      BY <1>16 DEF Throw, Abort, Finish, Fresh, TypeOK
    <2>2. LockInv'
      BY <1>16 DEF Throw, Abort, Finish, Fresh, TypeOK, LockInv
    <2>3. SnapshotInv'
      BY <1>16 DEF Throw, Abort, Finish, Fresh, TypeOK, LockInv, SnapshotInv
    <2>4. FreshInv'
      BY <1>16 DEF Throw, Abort, Finish, Fresh, TypeOK, LockInv, FreshInv
    <2>5. HashSpentOnce'
      BY <1>16 DEF Throw, Abort, Finish, Fresh, TypeOK, FreshInv, HashSpentOnce
    <2> QED BY <2>1, <2>2, <2>3, <2>4, <2>5
  <1>17. ASSUME NEW r \in Reqs, Kill(r) PROVE IInv'
    <2>1. TypeOK'
      BY <1>17 DEF Kill, Abort, Finish, Fresh, TypeOK
    <2>2. LockInv'
      BY <1>17 DEF Kill, Abort, Finish, Fresh, TypeOK, LockInv
    <2>3. SnapshotInv'
      BY <1>17 DEF Kill, Abort, Finish, Fresh, TypeOK, LockInv, SnapshotInv
    <2>4. FreshInv'
      BY <1>17 DEF Kill, Abort, Finish, Fresh, TypeOK, LockInv, FreshInv
    <2>5. HashSpentOnce'
      BY <1>17 DEF Kill, Abort, Finish, Fresh, TypeOK, FreshInv, HashSpentOnce
    <2> QED BY <2>1, <2>2, <2>3, <2>4, <2>5
  <1>18. ASSUME NEW s \in {"active", "blocked"}, SetStatus(s) PROVE IInv'
    <2>1. TypeOK'
      BY <1>18 DEF SetStatus, TypeOK
    <2>2. LockInv'
      BY <1>18 DEF SetStatus, TypeOK, LockInv
    <2>3. SnapshotInv'
      BY <1>18 DEF SetStatus, TypeOK, LockInv, SnapshotInv
    <2>4. FreshInv'
      BY <1>18 DEF SetStatus, TypeOK, LockInv, FreshInv
    <2>5. HashSpentOnce'
      BY <1>18 DEF SetStatus, TypeOK, FreshInv, HashSpentOnce
    <2> QED BY <2>1, <2>2, <2>3, <2>4, <2>5
  <1>19. CASE Tick
    <2>1. TypeOK'
      BY <1>19 DEF Tick, TypeOK
    <2>2. LockInv'
      BY <1>19 DEF Tick, TypeOK, LockInv
    <2>3. SnapshotInv'
      BY <1>19 DEF Tick, TypeOK, LockInv, SnapshotInv
    <2>4. FreshInv'
      BY <1>19 DEF Tick, TypeOK, LockInv, FreshInv
    <2>5. HashSpentOnce'
      BY <1>19 DEF Tick, TypeOK, FreshInv, HashSpentOnce
    <2> QED BY <2>1, <2>2, <2>3, <2>4, <2>5
  <1>20. CASE UNCHANGED vars
    <2>1. TypeOK'
      BY <1>20 DEF TypeOK
    <2>2. LockInv'
      BY <1>20 DEF TypeOK, LockInv
    <2>3. SnapshotInv'
      BY <1>20 DEF TypeOK, LockInv, SnapshotInv
    <2>4. FreshInv'
      BY <1>20 DEF TypeOK, LockInv, FreshInv
    <2>5. HashSpentOnce'
      BY <1>20 DEF TypeOK, FreshInv, HashSpentOnce
    <2> QED BY <2>1, <2>2, <2>3, <2>4, <2>5
  <1> QED BY <1>1, <1>2, <1>3, <1>4, <1>5, <1>6, <1>7, <1>8, <1>9, <1>10, <1>11, <1>12, <1>13, <1>14, <1>15, <1>16, <1>17, <1>18, <1>19, <1>20 DEF Next, Step

\* The inductive invariant holds in every reachable state.
THEOREM ResetIInv == Spec => []IInv
  BY InitIInv, NextIInv, PTL DEF Spec

\* Every reachable state of the reset flow is well typed.
THEOREM ResetTypeOK == Spec => []TypeOK
  <1>1. IInv => TypeOK
    BY DEF IInv
  <1> QED BY <1>1, ResetIInv, PTL

\* applyPasswordReset spends a hash at most once: of any number of
\* updatePassword requests presenting the same hash, interleaved and re-run
\* in any way, one changes the password.
THEOREM ResetHashSpentOnce == Spec => []HashSpentOnce
  <1>1. IInv => HashSpentOnce
    BY DEF IInv
  <1> QED BY <1>1, ResetIInv, PTL

\* Only the two commits change the password, and only under the lock.
LEMMA PasswordChange ==
  ASSUME IInv, Next, acct'.password # acct.password
  PROVE  \E r \in UpdateReqs : /\ lock = r
                               /\ acct' = view[r]
                               /\ pc[r] = "commit"
  <1>1. ASSUME NEW r \in Reqs, CallReset(r) \/ CallUpdate(r) \/ Kill(r)
        PROVE  acct' = acct
    BY <1>1 DEF CallReset, CallUpdate, Kill
  <1>2. ASSUME NEW r \in Reqs, Step(r), ~CommitOk(r), ~CommitUnknown(r)
        PROVE  acct' = acct
    BY <1>2 DEF Step, Read, SkipSilently, DrawHash, Save, MailLink, Refuse, Allow,
                WritePassword, ClearReset, Confirm, RetryTransient, Throw
  <1>3. ASSUME NEW s \in {"active", "blocked"}, SetStatus(s)
        PROVE  acct'.password = acct.password
    BY <1>3 DEF SetStatus, IInv, TypeOK
  <1>4. Tick => acct' = acct
    BY DEF Tick
  <1>5. PICK r \in Reqs : CommitOk(r) \/ CommitUnknown(r)
    BY <1>1, <1>2, <1>3, <1>4 DEF Next
  <1>6. lock = r /\ acct' = view[r] /\ pc[r] = "commit"
    BY <1>5 DEF CommitOk, CommitUnknown, Apply
  <1>7. r \in UpdateReqs
    BY <1>6 DEF IInv, TypeOK, LockInv, SnapshotInv
  <1> QED BY <1>6, <1>7

\* The flags getResetPwd reads protect the account up to the commit: no
\* interleaving with the control panel changes the password of an account
\* that is deleted or disabled.
THEOREM ResetNoChangeWhileBlocked == Spec => NoChangeWhileBlocked
  <1>1. ASSUME IInv, [Next]_vars
        PROVE  [acct'.password # acct.password =>
                  acct.status = "active" /\ acct'.status = "active"]_vars
    <2> SUFFICES ASSUME Next, acct'.password # acct.password
                 PROVE  acct.status = "active" /\ acct'.status = "active"
      BY <1>1
    <2>1. PICK r \in UpdateReqs : lock = r /\ acct' = view[r] /\ pc[r] = "commit"
      BY <1>1, PasswordChange
    <2> QED BY <1>1, <2>1 DEF IInv, LockInv, SnapshotInv
  <1> QED BY <1>1, ResetIInv, PTL DEF Spec, NoChangeWhileBlocked

\* The hash checked at the start of the callback is still the stored one when
\* the change commits: superseded and spent links are dead.
THEOREM ResetOnlyTheStoredHashWorks == Spec => OnlyTheStoredHashWorks
  <1>1. ASSUME IInv, [Next]_vars
        PROVE  [\A r \in UpdateReqs :
                  acct'.password = r /\ acct.password # r
                    => hash[r] = acct.resetHash]_vars
    <2> SUFFICES ASSUME Next, NEW r \in UpdateReqs,
                        acct'.password = r, acct.password # r
                 PROVE  hash[r] = acct.resetHash
      BY <1>1
    <2>1. PICK q \in UpdateReqs : lock = q /\ acct' = view[q] /\ pc[q] = "commit"
      BY <1>1, PasswordChange
    <2>2. q = r
      BY <1>1, <2>1 DEF IInv, LockInv, SnapshotInv
    <2> QED BY <1>1, <2>1, <2>2 DEF IInv, LockInv, SnapshotInv
  <1> QED BY <1>1, ResetIInv, PTL DEF Spec, OnlyTheStoredHashWorks

----------------------------------------------------------------------------
(* What else is promised: about the mails, and about the time between two. *)

\* A request whose callback has run once has a link to mail only when the open
\* transaction, or one that was committed, has stored it.
MailInv ==
  \A r \in Reqs :
    /\ pc[r] = "idle" => tries[r] = 0
    /\ pc[r] \in InCallback => tries[r] >= 1
    /\ r \in ResetReqs /\ tries[r] <= 1 =>
         /\ pc[r] \notin {"commit", "committed"} => outbox[r] = NoHash
         /\ pc[r] = "commit" /\ outbox[r] # NoHash =>
              lock = r /\ view[r].resetHash = outbox[r]
         /\ pc[r] = "committed" => outbox[r] \in persisted \cup {NoHash}

\* No date lies ahead, and one about to be stored keeps its distance.
DateInv ==
  /\ acct.resetDateReq <= now
  /\ \A r \in Reqs : view[r].resetDateReq <= now
  /\ \A r \in current \cap ResetReqs :
       pc[r] = "save" \/ lock = r =>
         acct.resetDateReq = NoDate \/ view[r].resetDateReq - acct.resetDateReq >= Throttle

MoreInv == ConfirmedMeansChanged /\ MailInv /\ DateInv

\* Nothing is mailed, confirmed or dated yet.
LEMMA InitMore == Init => MoreInv
  BY DEF Init, Fresh, MoreInv, ConfirmedMeansChanged, MailInv, DateInv

\* Every step preserves them, with what IInv knows of open transactions.
LEMMA NextMore == IInv /\ MoreInv /\ [Next]_vars => MoreInv'
  <1> SUFFICES ASSUME IInv, MoreInv, [Next]_vars PROVE MoreInv'
    OBVIOUS
  <1> USE DEF IInv, MoreInv
  <1>1. ASSUME NEW r \in Reqs, CallReset(r) PROVE MoreInv'
    <2>1. ConfirmedMeansChanged'
      BY <1>1 DEF CallReset, TypeOK, LockInv, ConfirmedMeansChanged
    <2>2. MailInv'
      BY <1>1 DEF CallReset, TypeOK, LockInv, FreshInv, MailInv
    <2>3. DateInv'
      BY <1>1 DEF CallReset, TypeOK, LockInv, SnapshotInv, DateInv
    <2> QED BY <2>1, <2>2, <2>3
  <1>2. ASSUME NEW r \in Reqs, Read(r) PROVE MoreInv'
    <2>1. ConfirmedMeansChanged'
      BY <1>2 DEF Read, TypeOK, LockInv, ConfirmedMeansChanged
    <2>2. MailInv'
      BY <1>2 DEF Read, TypeOK, LockInv, FreshInv, MailInv
    <2>3. DateInv'
      BY <1>2 DEF Read, TypeOK, LockInv, SnapshotInv, DateInv
    <2> QED BY <2>1, <2>2, <2>3
  <1>3. ASSUME NEW r \in Reqs, SkipSilently(r) PROVE MoreInv'
    <2>1. ConfirmedMeansChanged'
      BY <1>3 DEF SkipSilently, TypeOK, LockInv, ConfirmedMeansChanged
    <2>2. MailInv'
      BY <1>3 DEF SkipSilently, TypeOK, LockInv, FreshInv, MailInv
    <2>3. DateInv'
      BY <1>3 DEF SkipSilently, TypeOK, LockInv, SnapshotInv, DateInv
    <2> QED BY <2>1, <2>2, <2>3
  <1>4. ASSUME NEW r \in Reqs, DrawHash(r) PROVE MoreInv'
    <2>1. ConfirmedMeansChanged'
      BY <1>4 DEF DrawHash, Throttled, minElapsed, TypeOK, LockInv, ConfirmedMeansChanged
    <2>2. MailInv'
      BY <1>4 DEF DrawHash, Throttled, minElapsed, TypeOK, LockInv, FreshInv, MailInv
    <2>3. DateInv'
      BY <1>4 DEF DrawHash, Throttled, minElapsed, TypeOK, LockInv, SnapshotInv, DateInv
    <2> QED BY <2>1, <2>2, <2>3
  <1>5. ASSUME NEW r \in Reqs, Save(r) PROVE MoreInv'
    <2>1. ConfirmedMeansChanged'
      BY <1>5 DEF Save, Conflict, TypeOK, LockInv, ConfirmedMeansChanged
    <2>2. MailInv'
      BY <1>5 DEF Save, Conflict, TypeOK, LockInv, FreshInv, MailInv
    <2>3. DateInv'
      BY <1>5 DEF Save, Conflict, TypeOK, LockInv, SnapshotInv, DateInv
    <2> QED BY <2>1, <2>2, <2>3
  <1>6. ASSUME NEW r \in Reqs, MailLink(r) PROVE MoreInv'
    <2>1. ConfirmedMeansChanged'
      BY <1>6 DEF MailLink, Finish, Fresh, TypeOK, LockInv, ConfirmedMeansChanged
    <2>2. MailInv'
      BY <1>6 DEF MailLink, Finish, Fresh, TypeOK, LockInv, FreshInv, MailInv
    <2>3. DateInv'
      BY <1>6 DEF MailLink, Finish, Fresh, TypeOK, LockInv, SnapshotInv, DateInv
    <2> QED BY <2>1, <2>2, <2>3
  <1>7. ASSUME NEW r \in Reqs, CallUpdate(r) PROVE MoreInv'
    <2>1. ConfirmedMeansChanged'
      BY <1>7 DEF CallUpdate, TypeOK, LockInv, ConfirmedMeansChanged
    <2>2. MailInv'
      BY <1>7 DEF CallUpdate, TypeOK, LockInv, FreshInv, MailInv
    <2>3. DateInv'
      BY <1>7 DEF CallUpdate, TypeOK, LockInv, SnapshotInv, DateInv
    <2> QED BY <2>1, <2>2, <2>3
  <1>8. ASSUME NEW r \in Reqs, Refuse(r) PROVE MoreInv'
    <2>1. ConfirmedMeansChanged'
      BY <1>8 DEF Refuse, Abort, Finish, Fresh, TypeOK, LockInv, ConfirmedMeansChanged
    <2>2. MailInv'
      BY <1>8 DEF Refuse, Abort, Finish, Fresh, TypeOK, LockInv, FreshInv, MailInv
    <2>3. DateInv'
      BY <1>8 DEF Refuse, Abort, Finish, Fresh, TypeOK, LockInv, SnapshotInv, DateInv
    <2> QED BY <2>1, <2>2, <2>3
  <1>9. ASSUME NEW r \in Reqs, Allow(r) PROVE MoreInv'
    <2>1. ConfirmedMeansChanged'
      BY <1>9 DEF Allow, TypeOK, LockInv, ConfirmedMeansChanged
    <2>2. MailInv'
      BY <1>9 DEF Allow, TypeOK, LockInv, FreshInv, MailInv
    <2>3. DateInv'
      BY <1>9 DEF Allow, TypeOK, LockInv, SnapshotInv, DateInv
    <2> QED BY <2>1, <2>2, <2>3
  <1>10. ASSUME NEW r \in Reqs, WritePassword(r) PROVE MoreInv'
    <2>1. ConfirmedMeansChanged'
      BY <1>10 DEF WritePassword, Conflict, TypeOK, LockInv, ConfirmedMeansChanged
    <2>2. MailInv'
      BY <1>10 DEF WritePassword, Conflict, TypeOK, LockInv, FreshInv, MailInv
    <2>3. DateInv'
      BY <1>10 DEF WritePassword, Conflict, TypeOK, LockInv, SnapshotInv, DateInv
    <2> QED BY <2>1, <2>2, <2>3
  <1>11. ASSUME NEW r \in Reqs, ClearReset(r) PROVE MoreInv'
    <2>1. ConfirmedMeansChanged'
      BY <1>11 DEF ClearReset, TypeOK, LockInv, ConfirmedMeansChanged
    <2>2. MailInv'
      BY <1>11 DEF ClearReset, TypeOK, LockInv, FreshInv, MailInv
    <2>3. DateInv'
      BY <1>11 DEF ClearReset, TypeOK, LockInv, SnapshotInv, DateInv
    <2> QED BY <2>1, <2>2, <2>3
  <1>12. ASSUME NEW r \in Reqs, Confirm(r) PROVE MoreInv'
    <2>1. ConfirmedMeansChanged'
      BY <1>12 DEF Confirm, Finish, Fresh, TypeOK, LockInv, ConfirmedMeansChanged
    <2>2. MailInv'
      BY <1>12 DEF Confirm, Finish, Fresh, TypeOK, LockInv, FreshInv, MailInv
    <2>3. DateInv'
      BY <1>12 DEF Confirm, Finish, Fresh, TypeOK, LockInv, SnapshotInv, DateInv
    <2> QED BY <2>1, <2>2, <2>3
  <1>13. ASSUME NEW r \in Reqs, CommitOk(r) PROVE MoreInv'
    <2>1. ConfirmedMeansChanged'
      BY <1>13 DEF CommitOk, Apply, TypeOK, LockInv, ConfirmedMeansChanged
    <2>2. MailInv'
      BY <1>13 DEF CommitOk, Apply, TypeOK, LockInv, FreshInv, MailInv
    <2>3. DateInv'
      BY <1>13 DEF CommitOk, Apply, TypeOK, LockInv, SnapshotInv, DateInv
    <2> QED BY <2>1, <2>2, <2>3
  <1>14. ASSUME NEW r \in Reqs, CommitUnknown(r) PROVE MoreInv'
    <2>1. ConfirmedMeansChanged'
      BY <1>14 DEF CommitUnknown, Apply, Finish, Fresh, TypeOK, LockInv, ConfirmedMeansChanged
    <2>2. MailInv'
      BY <1>14 DEF CommitUnknown, Apply, Finish, Fresh, TypeOK, LockInv, FreshInv, MailInv
    <2>3. DateInv'
      BY <1>14 DEF CommitUnknown, Apply, Finish, Fresh, TypeOK, LockInv, SnapshotInv, DateInv
    <2> QED BY <2>1, <2>2, <2>3
  <1>15. ASSUME NEW r \in Reqs, RetryTransient(r) PROVE MoreInv'
    <2>1. ConfirmedMeansChanged'
      BY <1>15 DEF RetryTransient, Abort, TypeOK, LockInv, ConfirmedMeansChanged
    <2>2. MailInv'
      BY <1>15 DEF RetryTransient, Abort, TypeOK, LockInv, FreshInv, MailInv
    <2>3. DateInv'
      BY <1>15 DEF RetryTransient, Abort, TypeOK, LockInv, SnapshotInv, DateInv
    <2> QED BY <2>1, <2>2, <2>3
  <1>16. ASSUME NEW r \in Reqs, Throw(r) PROVE MoreInv'
    <2>1. ConfirmedMeansChanged'
      BY <1>16 DEF Throw, Abort, Finish, Fresh, TypeOK, LockInv, ConfirmedMeansChanged
    <2>2. MailInv'
      BY <1>16 DEF Throw, Abort, Finish, Fresh, TypeOK, LockInv, FreshInv, MailInv
    <2>3. DateInv'
      BY <1>16 DEF Throw, Abort, Finish, Fresh, TypeOK, LockInv, SnapshotInv, DateInv
    <2> QED BY <2>1, <2>2, <2>3
  <1>17. ASSUME NEW r \in Reqs, Kill(r) PROVE MoreInv'
    <2>1. ConfirmedMeansChanged'
      BY <1>17 DEF Kill, Abort, Finish, Fresh, TypeOK, LockInv, ConfirmedMeansChanged
    <2>2. MailInv'
      BY <1>17 DEF Kill, Abort, Finish, Fresh, TypeOK, LockInv, FreshInv, MailInv
    <2>3. DateInv'
      BY <1>17 DEF Kill, Abort, Finish, Fresh, TypeOK, LockInv, SnapshotInv, DateInv
    <2> QED BY <2>1, <2>2, <2>3
  <1>18. ASSUME NEW s \in {"active", "blocked"}, SetStatus(s) PROVE MoreInv'
    <2>1. ConfirmedMeansChanged'
      BY <1>18 DEF SetStatus, TypeOK, ConfirmedMeansChanged
    <2>2. MailInv'
      BY <1>18 DEF SetStatus, TypeOK, LockInv, MailInv
    <2>3. DateInv'
      BY <1>18 DEF SetStatus, TypeOK, DateInv
    <2> QED BY <2>1, <2>2, <2>3
  <1>19. CASE Tick
    <2>1. ConfirmedMeansChanged'
      BY <1>19 DEF Tick, TypeOK, ConfirmedMeansChanged
    <2>2. MailInv'
      BY <1>19 DEF Tick, TypeOK, LockInv, MailInv
    <2>3. DateInv'
      BY <1>19 DEF Tick, TypeOK, DateInv
    <2> QED BY <2>1, <2>2, <2>3
  <1>20. CASE UNCHANGED vars
    <2>1. ConfirmedMeansChanged'
      BY <1>20 DEF TypeOK, ConfirmedMeansChanged
    <2>2. MailInv'
      BY <1>20 DEF TypeOK, LockInv, MailInv
    <2>3. DateInv'
      BY <1>20 DEF TypeOK, DateInv
    <2> QED BY <2>1, <2>2, <2>3
  <1> QED
    BY <1>1, <1>2, <1>3, <1>4, <1>5, <1>6, <1>7, <1>8, <1>9, <1>10, <1>11, <1>12, <1>13, <1>14, <1>15, <1>16, <1>17, <1>18, <1>19, <1>20 DEF Next, Step

\* The inductive invariants hold together in every reachable state.
LEMMA ResetMore == Spec => [](IInv /\ MoreInv)
  BY InitIInv, NextIInv, InitMore, NextMore, PTL DEF Spec

\* updatePassword answers true, and mails its confirmation, only after its own
\* change was committed.
THEOREM ResetConfirmedMeansChanged == Spec => []ConfirmedMeansChanged
  <1>1. MoreInv => ConfirmedMeansChanged
    BY DEF MoreInv
  <1> QED BY <1>1, ResetMore, PTL

\* The link resetPwd mails after the commit is one that was stored, unless its
\* callback was re-run: pendingMail is set inside the callback.
THEOREM ResetUnstoredMailNeedsRetry == Spec => []UnstoredMailNeedsRetry
  <1>1. IInv /\ MoreInv => UnstoredMailNeedsRetry
    BY DEF IInv, TypeOK, MoreInv, MailInv, UnstoredMailNeedsRetry
  <1> QED BY <1>1, ResetMore, PTL

\* Only the two commits store a hash, and only under the lock.
LEMMA HashChange ==
  ASSUME IInv, Next, acct'.resetHash # acct.resetHash
  PROVE  \E r \in Reqs : lock = r /\ acct' = view[r] /\ pc[r] = "commit"
  <1>1. ASSUME NEW r \in Reqs, CallReset(r) \/ CallUpdate(r) \/ Kill(r)
        PROVE  acct' = acct
    BY <1>1 DEF CallReset, CallUpdate, Kill
  <1>2. ASSUME NEW r \in Reqs, Step(r), ~CommitOk(r), ~CommitUnknown(r)
        PROVE  acct' = acct
    BY <1>2 DEF Step, Read, SkipSilently, DrawHash, Save, MailLink, Refuse, Allow,
                WritePassword, ClearReset, Confirm, RetryTransient, Throw
  <1>3. ASSUME NEW s \in {"active", "blocked"}, SetStatus(s)
        PROVE  acct'.resetHash = acct.resetHash
    BY <1>3 DEF SetStatus, IInv, TypeOK
  <1>4. Tick => acct' = acct
    BY DEF Tick
  <1>5. PICK r \in Reqs : CommitOk(r) \/ CommitUnknown(r)
    BY <1>1, <1>2, <1>3, <1>4 DEF Next
  <1> QED BY <1>5 DEF CommitOk, CommitUnknown, Apply

\* Two links are stored at least Throttle minutes apart, whoever asks and
\* however the two transactions overlap.
THEOREM ResetStoredAtMostEveryThrottle == Spec => StoredAtMostEveryThrottle
  <1>1. ASSUME IInv, MoreInv, [Next]_vars
        PROVE  [acct.resetDateReq # NoDate /\ acct'.resetHash \notin {NoHash, acct.resetHash}
                  => acct'.resetDateReq - acct.resetDateReq >= Throttle]_vars
    <2> SUFFICES ASSUME Next, acct.resetDateReq # NoDate,
                        acct'.resetHash \notin {NoHash, acct.resetHash}
                 PROVE  acct'.resetDateReq - acct.resetDateReq >= Throttle
      BY <1>1
    <2>1. PICK r \in Reqs : lock = r /\ acct' = view[r] /\ pc[r] = "commit"
      BY <1>1, HashChange
    <2>2. r \in current /\ r \in ResetReqs
      BY <1>1, <2>1 DEF IInv, LockInv, SnapshotInv
    <2> QED BY <1>1, <2>1, <2>2 DEF MoreInv, DateInv
  <1> QED BY <1>1, ResetMore, PTL DEF Spec, StoredAtMostEveryThrottle
============================================================================
