-------------------------- MODULE RegistrationProofs --------------------------
(***************************************************************************)
(* Proofs about Registration: for any number of requests, addresses and    *)
(* hashes, a pending registration stays within reach of its mail, no wrong *)
(* hash goes uncounted, and an address is verified or changed only through *)
(* a hash that was mailed to it.                                           *)
(*                                                                         *)
(* IInv says what a request may still rely on between two awaits: the row  *)
(* a link has found keeps its address while it is pending, and the row a   *)
(* change has found is verified for good.  A step of one request preserves *)
(* what the others rely on when every row it leaves stays verified once    *)
(* it is, and keeps its address while it is not (Keeps, Frame).  Three     *)
(* lemmas follow, one for each way a step may touch the rest: not at all   *)
(* (LocalIInv), by ending (FinishIInv), by ending with a write to a row    *)
(* (FinishRowIInv).                                                        *)
(***************************************************************************)
EXTENDS Registration, TLAPS

USE RegistrationAssumption DEF NoHash, NoId, Unset, Hashes, Ids, GuessedHash

\* What a step leaves to a request that it does not take.
Untouched(q) == UNCHANGED <<pc[q], email[q], hash[q], uid[q], copy[q]>>

\* What a step leaves of a row: it stays verified, and keeps its address while it
\* is not.
Keeps(id) ==
  /\ id \in live
  /\ rows[id].valid => rows'[id].valid
  /\ ~rows'[id].valid => rows'[id].email = rows[id].email

\* The fields of a row.
LEMMA RowTypes ==
  ASSUME NEW x \in Rows
  PROVE  /\ x.email \in Emails \cup {NoEmail} /\ x.valid \in BOOLEAN /\ x.hash \in 0 .. MaxHash
         /\ x.dateLastReq \in (0 .. MaxTime) \cup {Unset}
         /\ x.requestTimes \in Nat \cup {Unset}
         /\ x.newEmailTmp \in Emails \cup {NoEmail} /\ x.blocked \in BOOLEAN
  BY DEF Rows

\* A document without the fields these flows write is a row.
LEMMA BlankIsRow == Blank \in Rows
  BY DEF Blank, Rows

\* A link carries a hash that was mailed, or a guess.
LEMMA PresentableTypes ==
  ASSUME TypeOK, NEW h \in Presentable
  PROVE  h \in 1 .. GuessedHash
<1>1. CASE h = GuessedHash
  BY <1>1
<1>2. CASE h # GuessedHash
  <2>1. PICK m \in mailedTo : h = m[1]
    BY <1>2 DEF Presentable
  <2>2. m[1] \in 1 .. MaxHash
    BY <2>1 DEF TypeOK
  <2> QED
    BY <1>1, <2>1, <2>2
<1> QED
  BY <1>1, <1>2

\* A step that keeps the row a request has found keeps what it relies on.
LEMMA Frame ==
  ASSUME IInv, NEW q \in Reqs, Untouched(q), mailedTo \subseteq mailedTo',
         issued' \in Nat, issued <= issued', \A id \in live' : uid[q] = id => Keeps(id)
  PROVE  ReqOk(q)'
<1>1. TypeOK /\ ReqOk(q)
  BY DEF IInv
<1>2. uid'[q] <= issued'
  BY <1>1 DEF TypeOK, ReqOk, Untouched
<1>3. q \in SignUps => SignUpOk(q)'
  BY <1>1 DEF ReqOk, SignUpOk, Buffered, Untouched
<1>4. q \in Links => LinkOk(q)'
  BY <1>1 DEF ReqOk, LinkOk, Untouched, Keeps
<1>5. q \in Changes => ChangeOk(q)'
  BY <1>1 DEF ReqOk, ChangeOk, Untouched, Keeps
<1> QED
  BY <1>2, <1>3, <1>4, <1>5 DEF ReqOk

\* A step between two awaits of one request that writes to no row.
LEMMA LocalIInv ==
  ASSUME IInv, NEW r \in Reqs, UNCHANGED <<issued, db, history>>, TypeOK', ReqOk(r)',
         \A q \in Reqs : q # r => Untouched(q),
         uid'[r] \in {uid[r], NoId} \cup live,
         r \in SignUps /\ Buffered(r)' => Buffered(r) /\ hash'[r] = hash[r]
  PROVE  IInv'
<1>1. PendingIsReachable'
  BY DEF IInv, PendingIsReachable, db, history
<1>2. FreshIds'
  <2> SUFFICES ASSUME NEW s \in SignUps, Buffered(s)'
               PROVE  /\ hash'[s] \in 1 .. issued' /\ hash'[s] \notin live' /\ strikes'[hash'[s]] = 0
                      /\ \A t \in SignUps : Buffered(t)' /\ hash'[t] = hash'[s] => t = s
                      /\ \A q \in Reqs : uid'[q] # hash'[s]
    BY DEF IInv, FreshIds, history
  <2>1. \A t \in SignUps : Buffered(t)' => Buffered(t) /\ hash'[t] = hash[t]
    BY DEF Buffered, Untouched, Reqs
  <2>2. /\ hash[s] \in 1 .. issued /\ hash[s] \notin live /\ strikes[hash[s]] = 0
        /\ \A t \in SignUps : Buffered(t) /\ hash[t] = hash[s] => t = s
        /\ \A q \in Reqs : uid[q] # hash[s]
    BY <2>1 DEF IInv, FreshIds
  <2>3. \A q \in Reqs : uid'[q] # hash[s]
    BY <2>2 DEF Untouched
  <2> QED
    BY <2>1, <2>2, <2>3 DEF db, history
<1>3. ASSUME NEW q \in Reqs PROVE ReqOk(q)'
  <2>1. issued' \in Nat /\ issued <= issued'
    BY DEF IInv, TypeOK
  <2>2. \A id \in live' : Keeps(id)
    BY DEF Keeps, db
  <2> QED
    BY <2>1, <2>2, Frame DEF history
<1>4. ASSUME NEW id \in live' PROVE RowOk(id)'
  BY <1>4 DEF IInv, RowOk, db, history
<1> QED
  BY <1>1, <1>2, <1>3, <1>4 DEF IInv

\* A request that has ended relies on nothing, and leaves the others alone.
LEMMA FinishOk ==
  ASSUME IInv, NEW r \in Reqs, Finish(r), live' \subseteq Ids, issued' \in Nat
  PROVE  /\ ReqOk(r)' /\ ~Buffered(r)' /\ uid'[r] = NoId
         /\ \A q \in Reqs : q # r => Untouched(q)
         /\ pc' \in [Reqs -> PCs] /\ email' \in [Reqs -> Emails \cup {NoEmail}]
         /\ hash' \in [Reqs -> 0 .. GuessedHash] /\ uid' \in [Reqs -> 0 .. MaxHash]
         /\ copy' \in [Reqs -> Rows] /\ tries' \in [SignUps -> 0 .. MaxAttempts]
<1>1. TypeOK
  BY DEF IInv
<1>2. /\ pc'[r] = "done" /\ uid'[r] = NoId
      /\ \A q \in Reqs : q # r => Untouched(q)
  BY <1>1 DEF Finish, Goto, TypeOK, Untouched
<1>3. ReqOk(r)' /\ ~Buffered(r)'
  BY <1>2 DEF ReqOk, SignUpOk, LinkOk, ChangeOk, Buffered
<1>4. /\ pc' \in [Reqs -> PCs] /\ email' \in [Reqs -> Emails \cup {NoEmail}]
      /\ hash' \in [Reqs -> 0 .. GuessedHash] /\ uid' \in [Reqs -> 0 .. MaxHash]
  BY <1>1 DEF Finish, Goto, TypeOK, PCs
<1>5. copy' \in [Reqs -> Rows] /\ tries' \in [SignUps -> 0 .. MaxAttempts]
  BY <1>1, BlankIsRow DEF Finish, TypeOK
<1> QED
  BY <1>2, <1>3, <1>4, <1>5

\* A request that ends without a write.
LEMMA FinishIInv ==
  ASSUME IInv, NEW r \in Reqs, Finish(r), UNCHANGED <<now, issued, db, history>>
  PROVE  IInv'
<1>1. TypeOK
  BY DEF IInv
<1>2. live' \subseteq Ids /\ issued' \in Nat
  BY <1>1 DEF TypeOK, db
<1>3. TypeOK'
  BY <1>1, <1>2, FinishOk DEF TypeOK, db, history
<1> QED
  BY <1>2, <1>3, FinishOk, LocalIInv

\* With no row and no request there is nothing to rely on.
LEMMA InitIInv == Init => IInv
<1> SUFFICES ASSUME Init PROVE IInv
  OBVIOUS
<1>1. TypeOK
  BY BlankIsRow DEF Init, TypeOK, PCs
<1>2. PendingIsReachable /\ FreshIds
  BY DEF Init, PendingIsReachable, FreshIds, Buffered, Reqs
<1>3. ASSUME NEW r \in Reqs PROVE ReqOk(r)
  BY <1>3 DEF Init, ReqOk, SignUpOk, LinkOk, ChangeOk, Buffered
<1> QED
  BY <1>1, <1>2, <1>3 DEF Init, IInv

\* The inductive invariant across a call of signUp.
LEMMA CallSignUpIInv ==
  ASSUME IInv, NEW r \in SignUps, CallSignUp(r)
  PROVE  IInv'
<1>1. TypeOK /\ ReqOk(r) /\ r \in Reqs
  BY DEF IInv, Reqs
<1>2. UNCHANGED <<issued, db, history>> /\ \A q \in Reqs : q # r => Untouched(q)
  BY <1>1 DEF CallSignUp, Goto, TypeOK, Untouched, found, args
<1>3. TypeOK'
  BY <1>1, <1>2, SMTT(30) DEF CallSignUp, Goto, TypeOK, PCs, found, args, db, history, Reqs
<1>4. ReqOk(r)'
  BY <1>1, <1>2, RegistrationAssumption DEF CallSignUp, Goto, TypeOK, ReqOk, SignUpOk, Buffered, db, history, found, args, Reqs
<1> QED
  BY <1>1, <1>2, <1>3, <1>4, LocalIInv DEF CallSignUp, Goto, TypeOK, Buffered, Reqs, found, args

\* Across the check that finds the address free.
LEMMA NotTakenIInv ==
  ASSUME IInv, NEW r \in SignUps, NotTaken(r)
  PROVE  IInv'
<1>1. TypeOK /\ ReqOk(r) /\ r \in Reqs
  BY DEF IInv, Reqs
<1>2. UNCHANGED <<issued, db, history>> /\ \A q \in Reqs : q # r => Untouched(q)
  BY <1>1 DEF NotTaken, Goto, TypeOK, Untouched, found, args
<1>3. TypeOK'
  BY <1>1, <1>2 DEF NotTaken, Goto, TypeOK, PCs, found, args, db, history, Reqs
<1>4. ReqOk(r)'
  BY <1>1, <1>2, RegistrationAssumption DEF NotTaken, Goto, TypeOK, ReqOk, SignUpOk, Buffered, db, history, found, args, Reqs
<1> QED
  BY <1>1, <1>2, <1>3, <1>4, LocalIInv DEF NotTaken, Goto, TypeOK, Buffered, Reqs, found, args

\* Across a new run of the transaction callback, which forgets the buffered row.
LEMMA RetrySignUpIInv ==
  ASSUME IInv, NEW r \in SignUps, RetrySignUp(r)
  PROVE  IInv'
<1>1. TypeOK /\ ReqOk(r) /\ r \in Reqs
  BY DEF IInv, Reqs
<1>t. copy' \in [Reqs -> Rows] /\ tries' \in [SignUps -> 0 .. MaxAttempts]
  <2>1. /\ copy \in [Reqs -> Rows] /\ copy' = [copy EXCEPT ![r] = Blank]
        /\ tries \in [SignUps -> 0 .. MaxAttempts] /\ tries[r] < MaxAttempts
        /\ tries' = [tries EXCEPT ![r] = @ + 1]
    BY <1>1 DEF RetrySignUp, TypeOK
  <2> QED
    BY <1>1, <2>1, BlankIsRow
<1>2. UNCHANGED <<issued, db, history>> /\ \A q \in Reqs : q # r => Untouched(q)
  BY <1>1 DEF RetrySignUp, Goto, TypeOK, Untouched, found, args
<1>3. TypeOK'
  <2>1. pc' \in [Reqs -> PCs] /\ hash' \in [Reqs -> 0 .. GuessedHash]
    BY <1>1 DEF RetrySignUp, Goto, TypeOK, PCs
  <2>2. UNCHANGED <<now, issued, live, rows, email, uid, mailedTo, strikes>>
    BY DEF RetrySignUp, db, history
  <2> QED
    BY <1>1, <1>t, <2>1, <2>2 DEF TypeOK
<1>4. ReqOk(r)'
  BY <1>1, <1>2, RegistrationAssumption DEF RetrySignUp, Goto, TypeOK, ReqOk, SignUpOk, Buffered, db, history, found, args, Reqs
<1> QED
  BY <1>1, <1>2, <1>3, <1>4, LocalIInv DEF RetrySignUp, Goto, TypeOK, Buffered, Reqs, found, args

\* Across the visit of a link.
LEMMA CallLinkIInv ==
  ASSUME IInv, NEW r \in Links, CallLink(r)
  PROVE  IInv'
<1>1. TypeOK /\ ReqOk(r) /\ r \in Reqs
  BY DEF IInv, Reqs
<1>t. hash' \in [Reqs -> 0 .. GuessedHash]
  <2>1. PICK h \in Presentable : hash' = [hash EXCEPT ![r] = h]
    BY DEF CallLink
  <2>2. h \in 1 .. GuessedHash /\ hash \in [Reqs -> 0 .. GuessedHash]
    BY <1>1, PresentableTypes DEF TypeOK
  <2> QED
    BY <1>1, <2>1, <2>2
<1>2. UNCHANGED <<issued, db, history>> /\ \A q \in Reqs : q # r => Untouched(q)
  BY <1>1 DEF CallLink, Goto, TypeOK, Untouched, found, args
<1>3. TypeOK'
  BY <1>1, <1>2, <1>t, SMTT(30) DEF CallLink, Goto, TypeOK, PCs, found, args, db, history, Reqs
<1>4. ReqOk(r)'
  BY <1>1, <1>2, RegistrationAssumption DEF CallLink, Goto, TypeOK, ReqOk, LinkOk, Buffered, db, history, found, args, Reqs
<1> QED
  BY <1>1, <1>2, <1>3, <1>4, LocalIInv DEF CallLink, Goto, TypeOK, Buffered, Reqs, found, args

\* Across the read of the row: if it is pending, its hash was mailed to this address.
LEMMA LookupIInv ==
  ASSUME IInv, NEW r \in Links, Lookup(r)
  PROVE  IInv'
<1>1. TypeOK /\ ReqOk(r) /\ r \in Reqs
  BY DEF IInv, Reqs
<1>t. uid' \in [Reqs -> 0 .. MaxHash] /\ copy' \in [Reqs -> Rows]
  <2>1. PICK id \in RowsWith(email[r]) :
          uid' = [uid EXCEPT ![r] = id] /\ copy' = [copy EXCEPT ![r] = rows[id]]
    BY DEF Lookup
  <2>2. /\ id \in 1 .. MaxHash /\ rows[id] \in Rows
        /\ uid \in [Reqs -> 0 .. MaxHash] /\ copy \in [Reqs -> Rows]
    BY <1>1 DEF RowsWith, TypeOK
  <2> QED
    BY <1>1, <2>1, <2>2
<1>2. UNCHANGED <<issued, db, history>> /\ \A q \in Reqs : q # r => Untouched(q)
  BY <1>1 DEF Lookup, Goto, TypeOK, Untouched, found, args
<1>3. TypeOK'
  BY <1>1, <1>2, <1>t DEF Lookup, Goto, TypeOK, PCs, found, args, db, history, Reqs
<1>4. ReqOk(r)'
  <2>1. PICK id \in RowsWith(email[r]) :
          uid' = [uid EXCEPT ![r] = id] /\ copy' = [copy EXCEPT ![r] = rows[id]]
    BY DEF Lookup
  <2>2. /\ id \in live /\ rows[id].email = email[r] /\ id <= issued
        /\ ~rows[id].valid => <<rows[id].hash, email[r]>> \in mailedTo
    BY DEF IInv, RowsWith, PendingIsReachable, RowOk
  <2>3. uid'[r] = id /\ copy'[r] = rows[id] /\ pc'[r] = "guards" /\ email'[r] = email[r]
    BY <1>1, <2>1 DEF Lookup, Goto, TypeOK, args, Reqs
  <2> QED
    BY <1>2, <2>2, <2>3 DEF ReqOk, LinkOk, db, history
<1> QED
  <2>1. uid'[r] \in live /\ pc'[r] \notin {"mail", "commit"} /\ r \in Reqs
    BY <1>1 DEF Lookup, RowsWith, Goto, TypeOK, Reqs
  <2> QED
    BY <1>2, <1>3, <1>4, <2>1, LocalIInv DEF Buffered

\* Across the guards: only the hash of the copy gets past them.
LEMMA GuardsIInv ==
  ASSUME IInv, NEW r \in Links, Guards(r)
  PROVE  IInv'
<1>1. TypeOK /\ ReqOk(r) /\ r \in Reqs
  BY DEF IInv, Reqs
<1>t. Verdict(r) \in {"refuse", "strikeOut", "wrongHash", "expire", "enable"}
  BY DEF Verdict
<1>u. copy' \in [Reqs -> Rows]
  BY <1>1, BlankIsRow DEF Guards, TypeOK
<1>2. UNCHANGED <<issued, db, history>> /\ \A q \in Reqs : q # r => Untouched(q)
  BY <1>1 DEF Guards, Goto, TypeOK, Untouched, found, args
<1>3. TypeOK'
  BY <1>1, <1>2, <1>t, <1>u DEF Guards, Goto, TypeOK, PCs, found, args, db, history, Reqs
<1>4. ReqOk(r)'
  <2>1. pc'[r] = Verdict(r) /\ UNCHANGED <<uid, email, hash>>
    BY <1>1 DEF Guards, Goto, TypeOK, args, Reqs
  <2>2. Verdict(r) = "enable" => copy[r].hash = hash[r]
    BY DEF Verdict, HashBad
  <2> QED
    BY <1>1, <1>2, <2>1, <2>2, <1>t DEF Guards, ReqOk, LinkOk, db, history
<1> QED
  BY <1>1, <1>2, <1>3, <1>4, <1>t, LocalIInv DEF Guards, Goto, TypeOK, Buffered, Reqs, found, args

\* Across a call of emailChangeHashVerify.
LEMMA CallChangeIInv ==
  ASSUME IInv, NEW r \in Changes, CallChange(r)
  PROVE  IInv'
<1>1. TypeOK /\ ReqOk(r) /\ r \in Reqs
  BY DEF IInv, Reqs
<1>t. hash' \in [Reqs -> 0 .. GuessedHash]
  <2>1. PICK h \in Presentable : hash' = [hash EXCEPT ![r] = h]
    BY DEF CallChange
  <2>2. h \in 1 .. GuessedHash /\ hash \in [Reqs -> 0 .. GuessedHash]
    BY <1>1, PresentableTypes DEF TypeOK
  <2> QED
    BY <1>1, <2>1, <2>2
<1>2. UNCHANGED <<issued, db, history>> /\ \A q \in Reqs : q # r => Untouched(q)
  BY <1>1 DEF CallChange, Goto, TypeOK, Untouched, found, args
<1>3. TypeOK'
  BY <1>1, <1>2, <1>t, SMTT(30) DEF CallChange, Goto, TypeOK, PCs, found, args, db, history, Reqs
<1>4. ReqOk(r)'
  <2>1. PICK e \in Emails, h \in Presentable :
          email' = [email EXCEPT ![r] = e] /\ hash' = [hash EXCEPT ![r] = h]
    BY DEF CallChange
  <2>2. h # NoHash
    BY <1>1, PresentableTypes DEF NoHash
  <2>3. pc'[r] = "load" /\ email'[r] \in Emails /\ hash'[r] # NoHash
    BY <1>1, <2>1, <2>2 DEF CallChange, Goto, TypeOK
  <2>4. UNCHANGED <<issued, uid, live, rows, copy, mailedTo>>
    BY DEF CallChange, db, history, found
  <2>5. r \notin SignUps /\ r \notin Links
    BY RegistrationAssumption
  <2> QED
    BY <1>1, <2>3, <2>4, <2>5 DEF ReqOk, ChangeOk
<1> QED
  BY <1>1, <1>2, <1>3, <1>4, LocalIInv DEF CallChange, Goto, TypeOK, Buffered, Reqs, found, args

\* Across the read of the row: a row that is changing its address is verified.
LEMMA LoadIInv ==
  ASSUME IInv, NEW r \in Changes, Load(r)
  PROVE  IInv'
<1>1. TypeOK /\ ReqOk(r) /\ r \in Reqs
  BY DEF IInv, Reqs
<1>t. uid' \in [Reqs -> 0 .. MaxHash] /\ copy' \in [Reqs -> Rows]
  <2>1. PICK id \in RowsChangingTo(email[r]) :
          uid' = [uid EXCEPT ![r] = id] /\ copy' = [copy EXCEPT ![r] = rows[id]]
    BY DEF Load
  <2>2. /\ id \in 1 .. MaxHash /\ rows[id] \in Rows
        /\ uid \in [Reqs -> 0 .. MaxHash] /\ copy \in [Reqs -> Rows]
    BY <1>1 DEF RowsChangingTo, TypeOK
  <2> QED
    BY <1>1, <2>1, <2>2
<1>2. UNCHANGED <<issued, db, history>> /\ \A q \in Reqs : q # r => Untouched(q)
  BY <1>1 DEF Load, Goto, TypeOK, Untouched, found, args
<1>3. TypeOK'
  BY <1>1, <1>2, <1>t DEF Load, Goto, TypeOK, PCs, found, args, db, history, Reqs
<1>4. ReqOk(r)'
  <2>1. PICK id \in RowsChangingTo(email[r]) :
          uid' = [uid EXCEPT ![r] = id] /\ copy' = [copy EXCEPT ![r] = rows[id]]
    BY DEF Load
  <2>2. id \in live /\ rows[id].newEmailTmp = email[r] /\ email[r] \in Emails
    BY <1>1 DEF RowsChangingTo, Load, ReqOk, ChangeOk
  <2>3. RowOk(id)
    BY <2>2 DEF IInv
  <2>4. /\ uid'[r] = id /\ copy'[r] = rows[id] /\ pc'[r] = "decide" /\ email'[r] = email[r]
        /\ hash'[r] = hash[r]
    BY <1>1, <2>1 DEF Load, Goto, TypeOK, args, Reqs
  <2> QED
    BY <1>1, <1>2, <2>2, <2>3, <2>4, RegistrationAssumption DEF Load, ReqOk, ChangeOk, RowOk, db, history
<1> QED
  <2>1. uid'[r] \in live /\ pc'[r] \notin {"mail", "commit"} /\ r \in Reqs
    BY <1>1 DEF Load, RowsChangingTo, Goto, TypeOK, Reqs
  <2> QED
    BY <1>2, <1>3, <1>4, <2>1, LocalIInv DEF Buffered

\* Across the comparison that fails.
LEMMA MismatchIInv ==
  ASSUME IInv, NEW r \in Changes, Mismatch(r)
  PROVE  IInv'
<1>1. TypeOK /\ ReqOk(r) /\ r \in Reqs
  BY DEF IInv, Reqs
<1>t. copy' \in [Reqs -> Rows]
  BY <1>1, BlankIsRow DEF Mismatch, TypeOK
<1>2. UNCHANGED <<issued, db, history>> /\ \A q \in Reqs : q # r => Untouched(q)
  BY <1>1 DEF Mismatch, Goto, TypeOK, Untouched, found, args
<1>3. TypeOK'
  BY <1>1, <1>2, <1>t DEF Mismatch, Goto, TypeOK, PCs, found, args, db, history, Reqs
<1>4. ReqOk(r)'
  BY <1>1, <1>2, RegistrationAssumption DEF Mismatch, Goto, TypeOK, ReqOk, ChangeOk, Buffered, db, history, found, args, Reqs
<1> QED
  BY <1>1, <1>2, <1>3, <1>4, LocalIInv DEF Mismatch, Goto, TypeOK, Buffered, Reqs, found, args

\* Across the comparison that succeeds: the hash presented was mailed to the address.
LEMMA MatchIInv ==
  ASSUME IInv, NEW r \in Changes, Match(r)
  PROVE  IInv'
<1>1. TypeOK /\ ReqOk(r) /\ r \in Reqs
  BY DEF IInv, Reqs
<1>t. copy' \in [Reqs -> Rows]
  BY <1>1, BlankIsRow DEF Match, TypeOK
<1>2. UNCHANGED <<issued, db, history>> /\ \A q \in Reqs : q # r => Untouched(q)
  BY <1>1 DEF Match, Goto, TypeOK, Untouched, found, args
<1>3. TypeOK'
  BY <1>1, <1>2, <1>t DEF Match, Goto, TypeOK, PCs, found, args, db, history, Reqs
<1>4. ReqOk(r)'
  BY <1>1, <1>2, RegistrationAssumption DEF Match, ChangeAllowed, HashBad, Goto, TypeOK, ReqOk, ChangeOk, Buffered, db, history, found, args, Reqs
<1> QED
  BY <1>1, <1>2, <1>3, <1>4, LocalIInv DEF Match, Goto, TypeOK, Buffered, Reqs, found, args

\* Across the count that finds the address free.
LEMMA CountFreeIInv ==
  ASSUME IInv, NEW r \in Changes, CountFree(r)
  PROVE  IInv'
<1>1. TypeOK /\ ReqOk(r) /\ r \in Reqs
  BY DEF IInv, Reqs
<1>2. UNCHANGED <<issued, db, history>> /\ \A q \in Reqs : q # r => Untouched(q)
  BY <1>1 DEF CountFree, Goto, TypeOK, Untouched, found, args
<1>3. TypeOK'
  BY <1>1, <1>2 DEF CountFree, Goto, TypeOK, PCs, found, args, db, history, Reqs
<1>4. ReqOk(r)'
  BY <1>1, <1>2, RegistrationAssumption DEF CountFree, Goto, TypeOK, ReqOk, ChangeOk, Buffered, db, history, found, args, Reqs
<1> QED
  BY <1>1, <1>2, <1>3, <1>4, LocalIInv DEF CountFree, Goto, TypeOK, Buffered, Reqs, found, args

\* The new hash is nobody's: every row, and every row found, is older.
LEMMA RegisterNewUserIInv ==
  ASSUME IInv, NEW r \in SignUps, RegisterNewUser(r)
  PROVE  IInv'
<1>1. TypeOK /\ ReqOk(r) /\ r \in Reqs /\ FreshIds
  BY DEF IInv, Reqs
<1>2. /\ UNCHANGED <<now, live, rows, email, uid, tries, mailedTo, strikes>>
      /\ issued' = issued + 1 /\ issued < MaxHash
      /\ pc[r] = "register"
      /\ pc' = [pc EXCEPT ![r] = "mail"] /\ hash' = [hash EXCEPT ![r] = issued + 1]
      /\ copy' = [copy EXCEPT ![r] =
           [Blank EXCEPT !.email = email[r], !.hash = issued + 1,
                         !.dateLastReq = now, !.requestTimes = 1]]
  BY DEF RegisterNewUser, Goto, db, history
<1>3. email[r] \in Emails
  BY <1>1, <1>2 DEF ReqOk, SignUpOk
<1>4. copy'[r] = [email |-> email[r], valid |-> FALSE, hash |-> issued + 1, dateLastReq |-> now,
                  requestTimes |-> 1, newEmailTmp |-> NoEmail, blocked |-> FALSE]
  BY <1>1, <1>2 DEF TypeOK, Blank
<1>5. TypeOK'
  <2>1. copy'[r] \in Rows
    <3>1. issued + 1 \in 0 .. MaxHash /\ now \in 0 .. MaxTime
      BY <1>1, <1>2 DEF TypeOK
    <3> QED
      BY <1>3, <1>4, <3>1 DEF Rows
  <2>2. copy' \in [Reqs -> Rows]
    BY <1>1, <1>2, <2>1 DEF TypeOK
  <2>3. pc' \in [Reqs -> PCs] /\ hash' \in [Reqs -> 0 .. GuessedHash] /\ issued' \in 0 .. MaxHash
    BY <1>1, <1>2 DEF TypeOK, PCs
  <2> QED
    BY <1>1, <1>2, <2>2, <2>3 DEF TypeOK
<1>6. \A q \in Reqs : q # r => Untouched(q)
  BY <1>1, <1>2 DEF TypeOK, Untouched
<1>7. PendingIsReachable' /\ \A id \in live' : RowOk(id)'
  BY <1>1, <1>2, SMTT(30) DEF IInv, TypeOK, PendingIsReachable, RowOk
<1>8. FreshIds'
  <2>1. hash'[r] = issued + 1 /\ \A t \in SignUps : t # r /\ Buffered(t)' => Buffered(t) /\ hash'[t] = hash[t]
    BY <1>1, <1>2 DEF TypeOK, Buffered, Reqs
  <2>2. issued + 1 \notin live /\ strikes[issued + 1] = 0 /\ \A q \in Reqs : uid[q] # issued + 1
    <3>1. issued \in Nat /\ \A id \in live : id <= issued
      <4>1. issued \in Nat
        BY <1>1 DEF TypeOK
      <4>2. \A id \in live : id <= issued
        BY DEF IInv, RowOk
      <4> QED
        BY <4>1, <4>2
    <3>2. \A q \in Reqs : uid[q] \in Nat /\ uid[q] <= issued
      BY <1>1 DEF IInv, TypeOK, ReqOk
    <3>3. strikes[issued + 1] = 0
      BY <1>1, <1>2 DEF TypeOK, FreshIds
    <3> QED
      BY <3>1, <3>2, <3>3
  <2>3. issued \in Nat /\ issued' \in Nat
    BY <1>1, <1>2 DEF TypeOK
  <2>4. \A id \in Ids : id > issued' => strikes'[id] = 0
    BY <1>1, <1>2, <2>3 DEF FreshIds
  <2>5. ASSUME NEW t \in SignUps, Buffered(t)'
        PROVE  /\ hash'[t] \in 1 .. issued' /\ hash'[t] \notin live' /\ strikes'[hash'[t]] = 0
               /\ \A q \in Reqs : uid'[q] # hash'[t]
    BY <1>1, <1>2, <2>1, <2>2, <2>3, <2>5 DEF FreshIds
  <2>6. \A t, u \in SignUps : Buffered(t)' /\ Buffered(u)' /\ hash'[t] = hash'[u] => t = u
    BY <1>1, <2>1, <2>3 DEF FreshIds
  <2> QED
    BY <2>4, <2>5, <2>6 DEF FreshIds
<1>9. ASSUME NEW q \in Reqs PROVE ReqOk(q)'
  <2>1. CASE q = r
    <3>1. pc'[r] = "mail" /\ hash'[r] = issued + 1
      BY <1>1, <1>2 DEF TypeOK
    <3>2. uid'[r] <= issued'
      BY <1>1, <1>2 DEF TypeOK, ReqOk
    <3>3. r \notin Links /\ r \notin Changes
      BY RegistrationAssumption
    <3>4. SignUpOk(r)'
      <4>1. email'[r] = email[r]
        BY <1>2
      <4> QED
        BY <1>3, <1>4, <3>1, <4>1 DEF SignUpOk, Buffered
    <3> QED
      BY <2>1, <3>2, <3>3, <3>4 DEF ReqOk
  <2>2. CASE q # r
    <3>1. \A id \in live' : Keeps(id)
      BY <1>2 DEF Keeps
    <3>2. issued' \in Nat /\ issued <= issued' /\ mailedTo' = mailedTo
      BY <1>1, <1>2 DEF TypeOK
    <3> QED
      BY <1>6, <2>2, <3>1, <3>2, Frame
  <2> QED
    BY <2>1, <2>2
<1> QED
  BY <1>5, <1>7, <1>8, <1>9 DEF IInv

\* The link mailed is the one of the registration that is buffered.
LEMMA SendEmailVerifyIInv ==
  ASSUME IInv, NEW r \in SignUps, SendEmailVerify(r)
  PROVE  IInv'
<1>1. TypeOK /\ ReqOk(r) /\ r \in Reqs /\ FreshIds
  BY DEF IInv, Reqs
<1>2. /\ UNCHANGED <<now, issued, live, rows, email, hash, uid, copy, tries, strikes>>
      /\ pc[r] = "mail" /\ pc' = [pc EXCEPT ![r] = "commit"]
      /\ mailedTo' = mailedTo \cup {<<hash[r], email[r]>>}
  BY DEF SendEmailVerify, Goto, db, args, found
<1>3. email[r] \in Emails /\ hash[r] \in 1 .. MaxHash
  BY <1>1, <1>2 DEF ReqOk, SignUpOk, FreshIds, Buffered, TypeOK
<1>4. TypeOK'
  <2>1. mailedTo' \subseteq Hashes \X Emails /\ pc' \in [Reqs -> PCs]
    BY <1>1, <1>2, <1>3 DEF TypeOK, PCs
  <2> QED
    BY <1>1, <1>2, <2>1 DEF TypeOK
<1>5. PendingIsReachable' /\ \A id \in live' : RowOk(id)'
  BY <1>1, <1>2 DEF IInv, PendingIsReachable, RowOk
<1>6. FreshIds'
  <2>1. \A t \in SignUps : Buffered(t)' => Buffered(t)
    BY <1>1, <1>2 DEF TypeOK, Buffered, Reqs
  <2> QED
    BY <1>1, <1>2, <2>1 DEF FreshIds
<1>7. ASSUME NEW q \in Reqs PROVE ReqOk(q)'
  <2>1. CASE q = r
    <3>1. pc'[r] = "commit" /\ r \notin Links /\ r \notin Changes
      BY <1>1, <1>2, RegistrationAssumption DEF TypeOK
    <3> QED
      BY <1>1, <1>2, <2>1, <3>1 DEF ReqOk, SignUpOk, Buffered
  <2>2. CASE q # r
    <3>1. Untouched(q) /\ \A id \in live' : Keeps(id)
      BY <1>1, <1>2, <2>2 DEF TypeOK, Untouched, Keeps
    <3> QED
      BY <1>1, <1>2, <3>1, Frame DEF TypeOK
  <2> QED
    BY <2>1, <2>2
<1> QED
  BY <1>4, <1>5, <1>6, <1>7 DEF IInv

\* The row that appears is pending, and its link was mailed before.
LEMMA CommitSignUpIInv ==
  ASSUME IInv, NEW r \in SignUps, CommitSignUp(r)
  PROVE  IInv'
<1>1. TypeOK /\ ReqOk(r) /\ r \in Reqs /\ FreshIds
  BY DEF IInv, Reqs
<1>2. /\ UNCHANGED <<now, issued, mailedTo, strikes>> /\ Finish(r)
      /\ live' = live \cup {hash[r]} /\ rows' = [rows EXCEPT ![hash[r]] = copy[r]]
      /\ pc[r] = "commit" /\ Buffered(r)
  BY DEF CommitSignUp, history, Buffered
<1>3. /\ hash[r] \in 1 .. MaxHash /\ hash[r] <= issued /\ hash[r] \notin live
      /\ copy[r] \in Rows /\ copy[r].email = email[r] /\ copy[r].hash = hash[r]
      /\ ~copy[r].valid /\ copy[r].newEmailTmp = NoEmail
      /\ <<hash[r], email[r]>> \in mailedTo
  BY <1>1, <1>2 DEF ReqOk, SignUpOk, FreshIds, TypeOK
<1>4. live' \subseteq Ids /\ issued' \in Nat
  <2>1. live \subseteq Ids /\ issued \in Nat
    BY <1>1 DEF TypeOK
  <2> QED
    BY <1>2, <1>3, <2>1
<1>5. /\ rows'[hash[r]] = copy[r]
      /\ \A id \in live : id # hash[r] /\ rows'[id] = rows[id]
  BY <1>1, <1>2, <1>3 DEF TypeOK
<1>6. TypeOK'
  BY <1>1, <1>2, <1>3, <1>4, FinishOk DEF TypeOK
<1>7. PendingIsReachable' /\ \A id \in live' : RowOk(id)'
  BY <1>2, <1>3, <1>5 DEF IInv, PendingIsReachable, RowOk
<1>8. FreshIds'
  <2>1. \A t \in SignUps : Buffered(t)' => t # r /\ Buffered(t) /\ hash'[t] = hash[t]
    BY <1>1, <1>2, <1>4, FinishOk DEF Buffered, Untouched, Reqs
  <2>2. \A q \in Reqs : uid'[q] \in {uid[q], NoId}
    BY <1>1, <1>2, <1>4, FinishOk DEF Untouched
  <2> QED
    BY <1>1, <1>2, <2>1, <2>2 DEF FreshIds
<1>9. ASSUME NEW q \in Reqs PROVE ReqOk(q)'
  <2>1. CASE q = r
    BY <1>1, <1>2, <1>4, <2>1, FinishOk
  <2>2. CASE q # r
    <3>1. Untouched(q)
      BY <1>1, <1>2, <1>4, <2>2, FinishOk
    <3>2. \A id \in live' : uid[q] = id => Keeps(id)
      BY <1>1, <1>2, <1>5 DEF FreshIds, Keeps
    <3> QED
      BY <1>1, <1>2, <3>1, <3>2, Frame DEF TypeOK
  <2> QED
    BY <2>1, <2>2
<1> QED
  BY <1>6, <1>7, <1>8, <1>9 DEF IInv

\* A request that ends with writes that keep the rows they leave.
LEMMA FinishRowIInv ==
  ASSUME IInv, NEW r \in Reqs, Finish(r), UNCHANGED <<now, issued, mailedTo>>,
         live' \subseteq live, rows' \in [Ids -> Rows], \A id \in Ids \ live' : rows'[id] = Blank,
         strikes' \in [Ids -> Nat], \A id \in Ids \ live : strikes'[id] = strikes[id],
         \A id \in live' : Keeps(id) /\ RowOk(id)',
         \A id \in live' : ~rows'[id].valid => rows'[id].hash = rows[id].hash
  PROVE  IInv'
<1>1. TypeOK /\ FreshIds /\ \A id \in live : RowOk(id)
  BY DEF IInv
<1>2. live' \subseteq Ids /\ issued' \in Nat /\ issued' = issued /\ mailedTo' = mailedTo
  BY <1>1 DEF TypeOK
<1>3. TypeOK'
  BY <1>1, <1>2, FinishOk DEF TypeOK
<1>4. PendingIsReachable'
  BY DEF IInv, PendingIsReachable, Keeps
<1>5. FreshIds'
  <2>1. \A t \in SignUps : Buffered(t)' => t # r /\ Buffered(t) /\ hash'[t] = hash[t]
    BY <1>2, FinishOk DEF Buffered, Untouched, Reqs
  <2>2. \A q \in Reqs : uid'[q] \in {uid[q], NoId}
    BY <1>2, FinishOk DEF Untouched
  <2>3. \A id \in Ids : id > issued => id \notin live
    <3>1. issued \in Nat
      BY <1>1 DEF TypeOK
    <3>2. \A id \in live : id <= issued
      BY <1>1 DEF RowOk
    <3> QED
      BY <3>1, <3>2
  <2>4. \A id \in Ids : id > issued' => strikes'[id] = 0
    BY <1>1, <1>2, <2>3 DEF FreshIds
  <2>5. ASSUME NEW t \in SignUps, Buffered(t)'
        PROVE  /\ hash'[t] \in 1 .. issued' /\ hash'[t] \notin live' /\ strikes'[hash'[t]] = 0
               /\ \A q \in Reqs : uid'[q] # hash'[t]
    <3>1. /\ hash[t] \in 1 .. issued /\ hash[t] \notin live /\ strikes[hash[t]] = 0
          /\ \A q \in Reqs : uid[q] # hash[t]
      BY <1>1, <2>1, <2>5 DEF FreshIds
    <3>2. hash[t] \in Ids
      BY <1>1, <3>1 DEF TypeOK
    <3> QED
      BY <1>2, <2>1, <2>2, <2>5, <3>1, <3>2
  <2>6. \A t, u \in SignUps : Buffered(t)' /\ Buffered(u)' /\ hash'[t] = hash'[u] => t = u
    BY <1>1, <2>1 DEF FreshIds
  <2> QED
    BY <2>4, <2>5, <2>6 DEF FreshIds
<1>6. ASSUME NEW q \in Reqs PROVE ReqOk(q)'
  <2>1. CASE q = r
    BY <1>2, <2>1, FinishOk
  <2>2. CASE q # r
    <3>1. Untouched(q)
      BY <1>2, <2>2, FinishOk
    <3> QED
      BY <1>2, <3>1, Frame
  <2> QED
    BY <2>1, <2>2
<1> QED
  BY <1>3, <1>4, <1>5, <1>6 DEF IInv

\* A row that is disposed of goes, or is only blocked.
LEMMA DisposeIInv ==
  ASSUME IInv, NEW r \in Links, Dispose(r)
  PROVE  IInv'
<1>1. TypeOK /\ r \in Reqs /\ \A id \in live : RowOk(id)
  BY DEF IInv, Reqs
<1>2. UNCHANGED <<now, issued, mailedTo, strikes>> /\ Finish(r)
  BY DEF Dispose, history
<1>3. CASE UNCHANGED <<live, rows>>
  BY <1>2, <1>3, <1>1, FinishIInv DEF db, history
<1>4. CASE \E id \in live : live' = live \ {id} /\ rows' = [rows EXCEPT ![id] = Blank]
  <2>1. PICK id \in live : live' = live \ {id} /\ rows' = [rows EXCEPT ![id] = Blank]
    BY <1>4
  <2>2. rows' \in [Ids -> Rows] /\ \A x \in Ids \ live' : rows'[x] = Blank
    BY <1>1, <2>1, BlankIsRow DEF TypeOK
  <2>3. \A x \in live' : x \in live /\ rows'[x] = rows[x]
    BY <1>1, <2>1 DEF TypeOK
  <2>4. \A x \in live' : Keeps(x) /\ RowOk(x)' /\ (~rows'[x].valid => rows'[x].hash = rows[x].hash)
    BY <1>1, <1>2, <2>3 DEF Keeps, RowOk
  <2> QED
    BY <1>1, <1>2, <2>1, <2>2, <2>4, FinishRowIInv DEF TypeOK
<1>5. CASE \E id \in live : live' = live /\ rows' = [rows EXCEPT ![id].blocked = TRUE]
  <2>1. PICK id \in live : live' = live /\ rows' = [rows EXCEPT ![id].blocked = TRUE]
    BY <1>5
  <2>2. rows[id] \in Rows /\ id \in Ids /\ rows \in [Ids -> Rows]
    BY <1>1, <2>1 DEF TypeOK
  <2>3. /\ rows'[id] = [rows[id] EXCEPT !.blocked = TRUE]
        /\ rows' = [j \in Ids |-> rows'[j]] /\ \A j \in Ids : j # id => rows'[j] = rows[j]
    BY <2>1, <2>2
  <2>5. /\ rows'[id] \in Rows /\ rows'[id].valid = rows[id].valid
        /\ rows'[id].hash = rows[id].hash /\ rows'[id].email = rows[id].email
        /\ rows'[id].newEmailTmp = rows[id].newEmailTmp
    BY <2>2, <2>3 DEF Rows
  <2>6. rows' \in [Ids -> Rows] /\ \A x \in Ids \ live' : rows'[x] = Blank
    <3>1. \A x \in Ids : rows'[x] \in Rows
      BY <2>2, <2>3, <2>5
    <3>2. \A x \in Ids \ live : rows[x] = Blank /\ x # id
      BY <1>1 DEF TypeOK
    <3> QED
      BY <2>1, <2>3, <3>1, <3>2
  <2>7. \A x \in live' : /\ rows'[x].valid = rows[x].valid /\ rows'[x].hash = rows[x].hash
                          /\ rows'[x].email = rows[x].email
                          /\ rows'[x].newEmailTmp = rows[x].newEmailTmp
    BY <1>1, <2>1, <2>3, <2>5 DEF TypeOK
  <2>4. \A x \in live' : Keeps(x) /\ RowOk(x)' /\ (~rows'[x].valid => rows'[x].hash = rows[x].hash)
    BY <1>1, <1>2, <2>1, <2>7 DEF Keeps, RowOk
  <2> QED
    BY <1>1, <1>2, <2>1, <2>4, <2>6, FinishRowIInv DEF TypeOK
<1> QED
  BY <1>3, <1>4, <1>5 DEF Dispose, RowsWith, db
\* Enabling a row takes its hash away, and no change relies on a pending row.
LEMMA EnableIInv ==
  ASSUME IInv, NEW r \in Links, Enable(r)
  PROVE  IInv'
<1>1. TypeOK /\ r \in Reqs /\ ReqOk(r) /\ LinkOk(r) /\ FreshIds /\ \A id \in live : RowOk(id)
  BY DEF IInv, Reqs, ReqOk
<1>2. /\ UNCHANGED <<now, issued, live, email, hash, uid, copy, tries, mailedTo, strikes>>
      /\ pc[r] = "enable" /\ pc' = [pc EXCEPT ![r] = "welcome"]
  BY DEF Enable, Goto, args, found, history
<1>3. pc'[r] = "welcome" /\ \A q \in Reqs : q # r => Untouched(q)
  BY <1>1, <1>2 DEF TypeOK, Untouched
<1>4. /\ rows' \in [Ids -> Rows] /\ \A x \in Ids \ live' : rows'[x] = Blank
      /\ \A x \in live : rows'[x] = rows[x]
                         \/ /\ x = uid[r] /\ rows'[x].valid /\ rows'[x].hash = NoHash
                            /\ rows'[x].email = rows[x].email
                            /\ rows'[x].newEmailTmp = rows[x].newEmailTmp
  <2>1. CASE uid[r] \notin live
    BY <1>1, <1>2, <2>1 DEF Enable, TypeOK
  <2>2. CASE uid[r] \in live
    <3> DEFINE id == uid[r]
    <3>1. id \in live /\ id \in Ids /\ rows \in [Ids -> Rows] /\ rows[id] \in Rows
      BY <1>1, <2>2 DEF TypeOK
    <3>2. rows' = [rows EXCEPT ![id].valid = TRUE, ![id].hash = NoHash,
                               ![id].dateLastReq = Unset, ![id].requestTimes = Unset]
      BY <2>2 DEF Enable
    <3> HIDE DEF id
    <3>3. /\ rows'[id] = [rows[id] EXCEPT !.valid = TRUE, !.hash = NoHash,
                                          !.dateLastReq = Unset, !.requestTimes = Unset]
          /\ rows' = [j \in Ids |-> rows'[j]] /\ \A j \in Ids : j # id => rows'[j] = rows[j]
      BY <3>1, <3>2
    <3>4. /\ rows'[id] \in Rows /\ rows'[id].valid /\ rows'[id].hash = NoHash
          /\ rows'[id].email = rows[id].email /\ rows'[id].newEmailTmp = rows[id].newEmailTmp
      <4> DEFINE x == rows[id]
      <4>1. rows'[id] = [email |-> x.email, valid |-> TRUE, hash |-> NoHash, dateLastReq |-> Unset,
                         requestTimes |-> Unset, newEmailTmp |-> x.newEmailTmp,
                         blocked |-> x.blocked]
        BY <3>1, <3>3 DEF Rows
      <4>2. x.email \in Emails \cup {NoEmail} /\ x.newEmailTmp \in Emails \cup {NoEmail} /\ x.blocked \in BOOLEAN
        BY <3>1, RowTypes
      <4> HIDE DEF x
      <4>3. rows'[id] \in Rows
        BY <4>1, <4>2 DEF Rows
      <4> QED
        BY <4>1, <4>3 DEF x
    <3>5. \A x \in Ids : rows'[x] \in Rows
      BY <3>1, <3>3, <3>4
    <3>6. live \subseteq Ids /\ \A x \in Ids \ live : rows[x] = Blank
      BY <1>1 DEF TypeOK
    <3>7. id = uid[r]
      BY DEF id
    <3> QED
      BY <1>2, <3>1, <3>3, <3>4, <3>5, <3>6, <3>7, ZenonT(40)
  <2> QED
    BY <2>1, <2>2
<1>5. TypeOK'
  <2>1. pc' \in [Reqs -> PCs]
    BY <1>1, <1>2 DEF TypeOK, PCs
  <2> QED
    BY <1>1, <1>2, <1>4, <2>1 DEF TypeOK
<1>6. PendingIsReachable' /\ \A id \in live' : RowOk(id)' /\ Keeps(id)
  BY <1>1, <1>2, <1>4 DEF IInv, PendingIsReachable, RowOk, Keeps
<1>7. FreshIds'
  <2>1. \A t \in SignUps : Buffered(t)' => Buffered(t)
    BY <1>1, <1>2 DEF TypeOK, Buffered, Reqs
  <2> QED
    BY <1>1, <1>2, <2>1 DEF FreshIds
<1>8. ASSUME NEW q \in Reqs PROVE ReqOk(q)'
  <2>1. CASE q = r
    <3>1. r \notin SignUps /\ r \notin Changes
      BY RegistrationAssumption
    <3>2. LinkOk(r)'
      BY <1>1, <1>2, <1>3, <1>4 DEF LinkOk
    <3> QED
      BY <1>1, <1>2, <2>1, <3>1, <3>2 DEF ReqOk
  <2>2. CASE q # r
    BY <1>1, <1>2, <1>3, <1>6, <2>2, Frame DEF TypeOK
  <2> QED
    BY <2>1, <2>2
<1> QED
  BY <1>5, <1>6, <1>7, <1>8 DEF IInv

\* Counting a strike changes nothing a request relies on.
LEMMA IncReqTimesIInv ==
  ASSUME IInv, NEW r \in Links \cup Changes, IncReqTimes(r)
  PROVE  IInv'
<1>1. TypeOK /\ r \in Reqs /\ \A id \in live : RowOk(id)
  BY DEF IInv, Reqs
<1>2. UNCHANGED <<now, issued, live, mailedTo>> /\ Finish(r)
  BY DEF IncReqTimes
<1>3. CASE uid[r] \notin live
  <2>1. UNCHANGED <<live, rows, strikes>>
    BY <1>2, <1>3 DEF IncReqTimes
  <2> QED
    BY <1>1, <1>2, <2>1, FinishIInv DEF db, history
<1>4. CASE uid[r] \in live
  <2> DEFINE id == uid[r]
  <2>1. id \in live /\ id \in Ids /\ rows \in [Ids -> Rows] /\ rows[id] \in Rows
    BY <1>1, <1>4 DEF TypeOK
  <2>2. /\ rows' = [rows EXCEPT ![id].requestTimes = IF @ = Unset THEN 1 ELSE @ + 1]
        /\ strikes' = [strikes EXCEPT ![id] = @ + 1]
    BY <1>4 DEF IncReqTimes
  <2> HIDE DEF id
  <2> DEFINE n == IF rows[id].requestTimes = Unset THEN 1 ELSE rows[id].requestTimes + 1
  <2>3. n \in Nat
    BY <2>1, RowTypes
  <2>4. /\ rows'[id] = [rows[id] EXCEPT !.requestTimes = n]
        /\ rows' = [j \in Ids |-> rows'[j]] /\ \A j \in Ids : j # id => rows'[j] = rows[j]
    BY <2>1, <2>2
  <2> HIDE DEF n
  <2>5. /\ rows'[id] \in Rows /\ rows'[id].valid = rows[id].valid
        /\ rows'[id].hash = rows[id].hash /\ rows'[id].email = rows[id].email
        /\ rows'[id].newEmailTmp = rows[id].newEmailTmp
    BY <2>1, <2>3, <2>4 DEF Rows
  <2>6. rows' \in [Ids -> Rows] /\ \A x \in Ids \ live' : rows'[x] = Blank
    <3>1. \A x \in Ids : rows'[x] \in Rows
      BY <2>1, <2>4, <2>5
    <3>2. \A x \in Ids \ live : rows[x] = Blank /\ x # id
      BY <1>1, <2>1 DEF TypeOK
    <3> QED
      BY <1>2, <2>4, <3>1, <3>2
  <2>7. \A x \in live' : /\ rows'[x].valid = rows[x].valid /\ rows'[x].hash = rows[x].hash
                          /\ rows'[x].email = rows[x].email
                          /\ rows'[x].newEmailTmp = rows[x].newEmailTmp
    <3>1. live' = live /\ live \subseteq Ids
      BY <1>1, <1>2 DEF TypeOK
    <3> QED
      BY <2>4, <2>5, <3>1
  <2>8. \A x \in live' : Keeps(x) /\ RowOk(x)' /\ (~rows'[x].valid => rows'[x].hash = rows[x].hash)
    BY <1>1, <1>2, <2>7 DEF Keeps, RowOk
  <2>9. strikes' \in [Ids -> Nat] /\ \A x \in Ids \ live : strikes'[x] = strikes[x]
    <3>1. strikes \in [Ids -> Nat]
      BY <1>1 DEF TypeOK
    <3> QED
      BY <2>1, <2>2, <3>1
  <2>10. UNCHANGED <<now, issued, mailedTo>> /\ live' \subseteq live
    BY <1>2
  <2> QED
    BY <1>1, <1>2, <2>6, <2>8, <2>9, <2>10, FinishRowIInv
<1> QED
  BY <1>3, <1>4

\* Only a verified row gets a new address.
LEMMA ConfirmNewEmailIInv ==
  ASSUME IInv, NEW r \in Changes, ConfirmNewEmail(r)
  PROVE  IInv'
<1>1. TypeOK /\ r \in Reqs /\ ChangeOk(r) /\ \A id \in live : RowOk(id)
  BY DEF IInv, Reqs, ReqOk
<1>2. UNCHANGED <<now, issued, live, mailedTo, strikes>> /\ Finish(r) /\ pc[r] = "confirm"
  BY DEF ConfirmNewEmail, history
<1>3. CASE uid[r] \notin live
  <2>1. UNCHANGED <<live, rows, strikes>>
    BY <1>2, <1>3 DEF ConfirmNewEmail
  <2> QED
    BY <1>1, <1>2, <2>1, FinishIInv DEF db, history
<1>4. CASE uid[r] \in live
  <2> DEFINE id == uid[r]
  <2>1. /\ id \in live /\ id \in Ids /\ rows \in [Ids -> Rows] /\ rows[id] \in Rows
        /\ rows[id].valid
    BY <1>1, <1>4 DEF TypeOK, ChangeOk
  <2>2. rows' = [rows EXCEPT ![id].email = email[r], ![id].hash = NoHash,
                             ![id].dateLastReq = Unset, ![id].requestTimes = Unset,
                             ![id].newEmailTmp = NoEmail]
    BY <1>4 DEF ConfirmNewEmail
  <2>3. email[r] \in Emails
    BY <1>1, <1>2 DEF ChangeOk
  <2> HIDE DEF id
  <2>4. /\ rows'[id] = [rows[id] EXCEPT !.email = email[r], !.hash = NoHash,
                                        !.dateLastReq = Unset, !.requestTimes = Unset,
                                        !.newEmailTmp = NoEmail]
        /\ rows' = [j \in Ids |-> rows'[j]] /\ \A j \in Ids : j # id => rows'[j] = rows[j]
    BY <2>1, <2>2
  <2>5. /\ rows'[id] \in Rows /\ rows'[id].valid /\ rows'[id].hash = NoHash
        /\ rows'[id].newEmailTmp = NoEmail
    <3> DEFINE x == rows[id]
    <3>1. rows'[id] = [email |-> email[r], valid |-> x.valid, hash |-> NoHash, dateLastReq |-> Unset,
                       requestTimes |-> Unset, newEmailTmp |-> NoEmail, blocked |-> x.blocked]
      BY <2>1, <2>4, ZenonT(40) DEF Rows
    <3>2. x.valid \in BOOLEAN /\ x.blocked \in BOOLEAN
      BY <2>1, RowTypes
    <3>3. x.valid
      BY <2>1
    <3> HIDE DEF x
    <3>4. rows'[id] \in Rows
      BY <2>3, <3>1, <3>2 DEF Rows
    <3> QED
      BY <3>1, <3>3, <3>4
  <2>6. rows' \in [Ids -> Rows] /\ \A x \in Ids \ live' : rows'[x] = Blank
    <3>1. \A x \in Ids : rows'[x] \in Rows
      BY <2>1, <2>4, <2>5
    <3>2. \A x \in Ids \ live : rows[x] = Blank /\ x # id
      BY <1>1, <2>1 DEF TypeOK
    <3> QED
      BY <1>2, <2>4, <3>1, <3>2
  <2>7. \A x \in live' : Keeps(x) /\ RowOk(x)' /\ (~rows'[x].valid => rows'[x].hash = rows[x].hash)
    <3>1. live' = live /\ live \subseteq Ids /\ issued' = issued
      BY <1>1, <1>2 DEF TypeOK
    <3>2. \A x \in live : x # id => rows'[x] = rows[x]
      BY <2>4, <3>1
    <3> QED
      BY <1>1, <1>2, <2>5, <3>1, <3>2 DEF Keeps, RowOk
  <2>8. UNCHANGED <<now, issued, mailedTo, strikes>> /\ live' \subseteq live /\ strikes \in [Ids -> Nat]
    BY <1>1, <1>2 DEF TypeOK
  <2> QED
    BY <1>1, <1>2, <2>6, <2>7, <2>8, FinishRowIInv
<1> QED
  BY <1>3, <1>4

\* A change that starts draws a new hash and mails it to the new address.
LEMMA StartChangeIInv ==
  ASSUME IInv, NEW id \in Ids, NEW e \in Emails, StartChange(id, e)
  PROVE  IInv'
<1>1. TypeOK /\ FreshIds /\ \A x \in live : RowOk(x)
  BY DEF IInv
<1>2. /\ UNCHANGED <<now, live, pc, email, hash, uid, copy, tries>>
      /\ id \in live /\ rows[id].valid /\ issued < MaxHash /\ issued' = issued + 1
      /\ mailedTo' = mailedTo \cup {<<issued + 1, e>>}
      /\ strikes' = [strikes EXCEPT ![id] = 0]
      /\ rows' = [rows EXCEPT ![id].newEmailTmp = e, ![id].hash = issued + 1,
                              ![id].requestTimes = 1, ![id].dateLastReq = now]
  BY DEF StartChange, args, found
<1>3. /\ rows \in [Ids -> Rows] /\ rows[id] \in Rows /\ now \in 0 .. MaxTime
      /\ issued \in Nat /\ issued + 1 \in 1 .. MaxHash
  BY <1>1, <1>2 DEF TypeOK
<1>4. /\ rows'[id] = [rows[id] EXCEPT !.newEmailTmp = e, !.hash = issued + 1,
                                      !.requestTimes = 1, !.dateLastReq = now]
      /\ rows' = [j \in Ids |-> rows'[j]] /\ \A j \in Ids : j # id => rows'[j] = rows[j]
  BY <1>2, <1>3
<1>5. /\ rows'[id] \in Rows /\ rows'[id].valid /\ rows'[id].hash = issued + 1
      /\ rows'[id].newEmailTmp = e /\ rows'[id].email = rows[id].email
  <2> DEFINE x == rows[id]
  <2>1. rows'[id] = [email |-> x.email, valid |-> x.valid, hash |-> issued + 1, dateLastReq |-> now,
                     requestTimes |-> 1, newEmailTmp |-> e, blocked |-> x.blocked]
    BY <1>3, <1>4 DEF Rows
  <2>2. x.email \in Emails \cup {NoEmail} /\ x.valid \in BOOLEAN /\ x.blocked \in BOOLEAN
    BY <1>2, <1>3, RowTypes
  <2>3. x.valid
    BY <1>2
  <2> HIDE DEF x
  <2>4. issued + 1 \in 0 .. MaxHash
    BY <1>3
  <2>5. rows'[id] \in Rows
    BY <1>3, <2>1, <2>2, <2>4 DEF Rows
  <2> QED
    BY <2>1, <2>3, <2>5 DEF x
<1>6. rows' \in [Ids -> Rows] /\ \A x \in Ids \ live' : rows'[x] = Blank
  <2>1. \A x \in Ids : rows'[x] \in Rows
    BY <1>3, <1>4, <1>5
  <2>2. \A x \in Ids \ live : rows[x] = Blank /\ x # id
    BY <1>1, <1>2 DEF TypeOK
  <2> QED
    BY <1>2, <1>4, <2>1, <2>2
<1>7. strikes' \in [Ids -> Nat] /\ \A x \in Ids \ live : strikes'[x] = strikes[x]
  <2>1. strikes \in [Ids -> Nat]
    BY <1>1 DEF TypeOK
  <2> QED
    BY <1>2, <2>1
<1>8. TypeOK'
  <2>1. issued' \in 0 .. MaxHash
    BY <1>2, <1>3
  <2>2. mailedTo' \subseteq Hashes \X Emails
    BY <1>1, <1>2, <1>3 DEF TypeOK
  <2> QED
    BY <1>1, <1>2, <1>6, <1>7, <2>1, <2>2 DEF TypeOK
<1>9. live \subseteq Ids /\ \A x \in live : x # id => rows'[x] = rows[x]
  BY <1>1, <1>4 DEF TypeOK
<1>10. PendingIsReachable'
  <2> SUFFICES ASSUME NEW x \in live, ~rows'[x].valid
               PROVE  <<rows'[x].hash, rows'[x].email>> \in mailedTo'
    BY <1>2 DEF PendingIsReachable
  <2>1. x # id /\ rows'[x] = rows[x]
    BY <1>5, <1>9
  <2>2. <<rows[x].hash, rows[x].email>> \in mailedTo
    BY <2>1 DEF IInv, PendingIsReachable
  <2> QED
    BY <1>2, <2>1, <2>2
<1>11. \A x \in live' : RowOk(x)' /\ Keeps(x)
  <2>1. issued' \in Nat /\ issued <= issued' /\ \A x \in live : x \in Nat /\ x <= issued'
    <3>1. \A x \in live : x \in Nat /\ x <= issued
      <4>1. \A x \in live : x <= issued
        BY <1>1 DEF RowOk
      <4> QED
        BY <1>9, <4>1
    <3> QED
      BY <1>2, <1>3, <3>1
  <2>2. ASSUME NEW x \in live PROVE Keeps(x)
    <3>1. CASE x = id
      BY <1>5, <3>1 DEF Keeps
    <3>2. CASE x # id
      BY <1>9, <3>2 DEF Keeps
    <3> QED
      BY <3>1, <3>2
  <2>3. ASSUME NEW x \in live PROVE RowOk(x)'
    <3>1. CASE x = id
      BY <1>2, <1>5, <2>1, <3>1 DEF RowOk
    <3>2. CASE x # id
      <4>1. RowOk(x) /\ rows'[x] = rows[x] /\ x <= issued' /\ mailedTo \subseteq mailedTo'
        BY <1>1, <1>2, <1>9, <2>1, <3>2
      <4> QED
        BY <4>1 DEF RowOk
    <3> QED
      BY <3>1, <3>2
  <2> QED
    BY <1>2, <2>2, <2>3
<1>12. FreshIds'
  <2>1. \A x \in Ids : x > issued' => strikes'[x] = 0
    <3>1. \A x \in Ids : x # id => strikes'[x] = strikes[x]
      BY <1>1, <1>2 DEF TypeOK
    <3>2. strikes'[id] = 0
      BY <1>1, <1>2 DEF TypeOK
    <3>3. \A x \in Ids : x > issued' => x > issued
      BY <1>2, <1>3
    <3> QED
      BY <1>1, <3>1, <3>2, <3>3 DEF FreshIds
  <2>2. ASSUME NEW t \in SignUps, Buffered(t)
        PROVE  /\ hash[t] \in 1 .. issued' /\ hash[t] \notin live /\ strikes'[hash[t]] = 0
               /\ \A u \in SignUps : Buffered(u) /\ hash[u] = hash[t] => u = t
               /\ \A q \in Reqs : uid[q] # hash[t]
    <3>1. /\ hash[t] \in 1 .. issued /\ hash[t] \notin live /\ strikes[hash[t]] = 0
          /\ \A u \in SignUps : Buffered(u) /\ hash[u] = hash[t] => u = t
          /\ \A q \in Reqs : uid[q] # hash[t]
      BY <1>1, <2>2 DEF FreshIds
    <3>2. hash[t] \in Ids \ live /\ hash[t] \in 1 .. issued'
      BY <1>2, <1>3, <3>1
    <3> QED
      BY <1>7, <3>1, <3>2
  <2> QED
    BY <1>2, <2>1, <2>2 DEF FreshIds, Buffered
<1>13. ASSUME NEW q \in Reqs PROVE ReqOk(q)'
  <2>1. Untouched(q) /\ issued' \in Nat /\ issued <= issued' /\ mailedTo \subseteq mailedTo'
    BY <1>2, <1>3 DEF Untouched
  <2> QED
    BY <1>11, <2>1, Frame
<1> QED
  BY <1>8, <1>10, <1>11, <1>12, <1>13 DEF IInv

\* Across a flag set or cleared in the control panel.
LEMMA SetBlockedIInv ==
  ASSUME IInv, NEW id \in Ids, NEW b \in BOOLEAN, SetBlocked(id, b)
  PROVE  IInv'
<1>1. TypeOK /\ FreshIds /\ \A x \in live : RowOk(x)
  BY DEF IInv
<1>2. /\ UNCHANGED <<now, issued, live, pc, email, hash, uid, copy, tries, mailedTo, strikes>>
      /\ id \in live /\ rows' = [rows EXCEPT ![id].blocked = b]
  BY DEF SetBlocked, args, found, history
<1>3. rows \in [Ids -> Rows] /\ rows[id] \in Rows
  BY <1>1 DEF TypeOK
<1>4. /\ rows'[id] = [rows[id] EXCEPT !.blocked = b]
      /\ rows' = [j \in Ids |-> rows'[j]] /\ \A j \in Ids : j # id => rows'[j] = rows[j]
  BY <1>2, <1>3
<1>5. /\ rows'[id] \in Rows /\ rows'[id].valid = rows[id].valid
      /\ rows'[id].hash = rows[id].hash /\ rows'[id].email = rows[id].email
      /\ rows'[id].newEmailTmp = rows[id].newEmailTmp
  BY <1>3, <1>4 DEF Rows
<1>6. rows' \in [Ids -> Rows] /\ \A x \in Ids \ live' : rows'[x] = Blank
  <2>1. \A x \in Ids : rows'[x] \in Rows
    BY <1>3, <1>4, <1>5
  <2>2. \A x \in Ids \ live : rows[x] = Blank /\ x # id
    BY <1>1, <1>2 DEF TypeOK
  <2> QED
    BY <1>2, <1>4, <2>1, <2>2
<1>7. TypeOK'
  BY <1>1, <1>2, <1>6 DEF TypeOK
<1>8. \A x \in live : /\ rows'[x].valid = rows[x].valid /\ rows'[x].hash = rows[x].hash
                      /\ rows'[x].email = rows[x].email
                      /\ rows'[x].newEmailTmp = rows[x].newEmailTmp
  BY <1>1, <1>4, <1>5 DEF TypeOK
<1>9. PendingIsReachable' /\ \A x \in live' : RowOk(x)' /\ Keeps(x)
  BY <1>1, <1>2, <1>8 DEF IInv, PendingIsReachable, RowOk, Keeps
<1>10. FreshIds'
  BY <1>1, <1>2 DEF FreshIds, Buffered
<1>11. ASSUME NEW q \in Reqs PROVE ReqOk(q)'
  <2>1. Untouched(q) /\ issued' \in Nat /\ issued <= issued' /\ mailedTo \subseteq mailedTo'
    BY <1>1, <1>2 DEF Untouched, TypeOK
  <2> QED
    BY <1>9, <2>1, Frame
<1> QED
  BY <1>7, <1>9, <1>10, <1>11 DEF IInv

\* Across the passing of time.
LEMMA TickIInv ==
  ASSUME IInv, Tick
  PROVE  IInv'
<1>1. TypeOK /\ FreshIds /\ PendingIsReachable /\ \A x \in live : RowOk(x)
  BY DEF IInv
<1>2. /\ UNCHANGED <<issued, live, rows, pc, email, hash, uid, copy, tries, mailedTo, strikes>>
      /\ now < MaxTime /\ now' = now + 1
  BY DEF Tick, db, args, found, history
<1>3. TypeOK'
  <2>1. now' \in 0 .. MaxTime
    BY <1>1, <1>2 DEF TypeOK
  <2> QED
    BY <1>1, <1>2, <2>1 DEF TypeOK
<1>4. PendingIsReachable' /\ FreshIds' /\ \A x \in live' : RowOk(x)'
  BY <1>1, <1>2 DEF PendingIsReachable, FreshIds, Buffered, RowOk
<1>5. ASSUME NEW q \in Reqs PROVE ReqOk(q)'
  <2>1. /\ Untouched(q) /\ issued' \in Nat /\ issued <= issued' /\ mailedTo \subseteq mailedTo'
        /\ \A x \in live' : Keeps(x)
    BY <1>1, <1>2 DEF Untouched, Keeps, TypeOK
  <2> QED
    BY <2>1, Frame
<1> QED
  BY <1>3, <1>4, <1>5 DEF IInv

\* Across a step that changes nothing.
LEMMA StutterIInv ==
  ASSUME IInv, UNCHANGED vars
  PROVE  IInv'
<1>1. TypeOK /\ FreshIds /\ PendingIsReachable /\ \A x \in live : RowOk(x)
  BY DEF IInv
<1>2. UNCHANGED <<now, issued, live, rows, pc, email, hash, uid, copy, tries, mailedTo, strikes>>
  BY DEF vars, db, args, found, history
<1>3. TypeOK'
  BY <1>1, <1>2 DEF TypeOK
<1>4. PendingIsReachable' /\ FreshIds' /\ \A x \in live' : RowOk(x)'
  BY <1>1, <1>2 DEF PendingIsReachable, FreshIds, Buffered, RowOk
<1>5. ASSUME NEW q \in Reqs PROVE ReqOk(q)'
  <2>1. /\ Untouched(q) /\ issued' \in Nat /\ issued <= issued' /\ mailedTo \subseteq mailedTo'
        /\ \A x \in live' : Keeps(x)
    BY <1>1, <1>2 DEF Untouched, Keeps, TypeOK
  <2> QED
    BY <2>1, Frame
<1> QED
  BY <1>3, <1>4, <1>5 DEF IInv

\* Every step of a sign-up preserves the inductive invariant.
LEMMA SignUpStepIInv ==
  ASSUME IInv, NEW s \in SignUps, SignUpStep(s)
  PROVE  IInv'
<1>1. s \in Reqs
  BY DEF Reqs
<1>2. CASE CallSignUp(s)
  BY <1>2, CallSignUpIInv
<1>3. CASE Taken(s)
  BY <1>1, <1>3, FinishIInv DEF Taken
<1>4. CASE NotTaken(s)
  BY <1>4, NotTakenIInv
<1>5. CASE RegisterNewUser(s)
  BY <1>5, RegisterNewUserIInv
<1>6. CASE SendEmailVerify(s)
  BY <1>6, SendEmailVerifyIInv
<1>7. CASE CommitSignUp(s)
  BY <1>7, CommitSignUpIInv
<1>8. CASE RetrySignUp(s)
  BY <1>8, RetrySignUpIInv
<1>9. CASE ThrowSignUp(s)
  BY <1>1, <1>9, FinishIInv DEF ThrowSignUp
<1> QED
  BY <1>2, <1>3, <1>4, <1>5, <1>6, <1>7, <1>8, <1>9 DEF SignUpStep

\* Every step of an activation link preserves it.
LEMMA LinkStepIInv ==
  ASSUME IInv, NEW l \in Links, LinkStep(l)
  PROVE  IInv'
<1>1. l \in Reqs /\ l \in Links \cup Changes
  BY DEF Reqs
<1>2. CASE CallLink(l)
  BY <1>2, CallLinkIInv
<1>3. CASE Lookup(l)
  BY <1>3, LookupIInv
<1>4. CASE LookupMiss(l)
  BY <1>1, <1>4, FinishIInv DEF LookupMiss
<1>5. CASE Guards(l)
  BY <1>5, GuardsIInv
<1>6. CASE RefuseLink(l)
  BY <1>1, <1>6, FinishIInv DEF RefuseLink
<1>7. CASE Dispose(l)
  BY <1>7, DisposeIInv
<1>8. CASE ThrowLink(l)
  BY <1>1, <1>8, FinishIInv DEF ThrowLink
<1>9. CASE Enable(l)
  BY <1>9, EnableIInv
<1>10. CASE SendWelcome(l)
  BY <1>1, <1>10, FinishIInv DEF SendWelcome, history
<1>11. CASE IncReqTimes(l)
  BY <1>1, <1>11, IncReqTimesIInv
<1> QED
  BY <1>2, <1>3, <1>4, <1>5, <1>6, <1>7, <1>8, <1>9, <1>10, <1>11 DEF LinkStep

\* Every step of a change preserves it.
LEMMA ChangeStepIInv ==
  ASSUME IInv, NEW c \in Changes, ChangeStep(c)
  PROVE  IInv'
<1>1. c \in Reqs /\ c \in Links \cup Changes
  BY DEF Reqs
<1>2. CASE CallChange(c)
  BY <1>2, CallChangeIInv
<1>3. CASE Load(c)
  BY <1>3, LoadIInv
<1>4. CASE LoadMiss(c)
  BY <1>1, <1>4, FinishIInv DEF LoadMiss
<1>5. CASE Mismatch(c)
  BY <1>5, MismatchIInv
<1>6. CASE Match(c)
  BY <1>6, MatchIInv
<1>7. CASE RefuseChange(c)
  BY <1>1, <1>7, FinishIInv DEF RefuseChange
<1>8. CASE CountFree(c)
  BY <1>8, CountFreeIInv
<1>9. CASE CountTaken(c)
  BY <1>1, <1>9, FinishIInv DEF CountTaken
<1>10. CASE ConfirmNewEmail(c)
  BY <1>10, ConfirmNewEmailIInv
<1>11. CASE IncReqTimes(c)
  BY <1>1, <1>11, IncReqTimesIInv
<1> QED
  BY <1>2, <1>3, <1>4, <1>5, <1>6, <1>7, <1>8, <1>9, <1>10, <1>11 DEF ChangeStep

\* Every step preserves the inductive invariant.
LEMMA NextIInv ==
  ASSUME IInv, [Next]_vars
  PROVE  IInv'
<1>1. CASE \E s \in SignUps : SignUpStep(s)
  BY <1>1, SignUpStepIInv
<1>2. CASE \E l \in Links : LinkStep(l)
  BY <1>2, LinkStepIInv
<1>3. CASE \E c \in Changes : ChangeStep(c)
  BY <1>3, ChangeStepIInv
<1>4. CASE \E id \in Ids, e \in Emails : StartChange(id, e)
  BY <1>4, StartChangeIInv
<1>5. CASE \E id \in Ids, b \in BOOLEAN : SetBlocked(id, b)
  BY <1>5, SetBlockedIInv
<1>6. CASE Tick
  BY <1>6, TickIInv
<1>7. CASE UNCHANGED vars
  BY <1>7, StutterIInv
<1> QED
  BY <1>1, <1>2, <1>3, <1>4, <1>5, <1>6, <1>7 DEF Next

\* Whatever sign-ups, links and changes do between one another's awaits, the
\* inductive invariant holds; PendingIsReachable is one of its conjuncts.
THEOREM RegistrationIInv == Spec => []IInv
<1>1. Init => IInv
  BY InitIInv
<1>2. IInv /\ [Next]_vars => IInv'
  BY NextIInv
<1> QED
  BY <1>1, <1>2, PTL DEF Spec

\* No wrong hash goes uncounted: the counter of a pending row is one more than
\* the wrong hashes presented for it, whatever requests count at once.
THEOREM RegistrationNoStrikeLost == Spec => []NoStrikeLost
<1>1. Init => NoStrikeLost
  BY DEF Init, NoStrikeLost
<1>2. ASSUME IInv, NoStrikeLost, [Next]_vars PROVE NoStrikeLost'
  <2>1. TypeOK /\ FreshIds /\ \A r \in Reqs : ReqOk(r)
    BY <1>2 DEF IInv
  <2>2. ASSUME UNCHANGED <<db, strikes>> PROVE NoStrikeLost'
    BY <1>2, <2>2 DEF NoStrikeLost, db
  <2>3. CASE UNCHANGED <<db, strikes>>
    BY <2>2, <2>3
  <2>4. ASSUME NEW s \in SignUps, CommitSignUp(s) PROVE NoStrikeLost'
    <3>1. hash[s] \in Ids /\ strikes[hash[s]] = 0 /\ ~copy[s].valid /\ copy[s].requestTimes = 1
      <4>1. Buffered(s) /\ s \in Reqs
        BY <2>4 DEF CommitSignUp, Buffered, Reqs
      <4>2. SignUpOk(s)
        BY <2>1, <4>1 DEF ReqOk
      <4>3. hash[s] \in 1 .. issued /\ strikes[hash[s]] = 0 /\ issued \in 0 .. MaxHash
        BY <2>1, <4>1 DEF FreshIds, TypeOK
      <4> QED
        BY <4>1, <4>2, <4>3 DEF SignUpOk
    <3>2. /\ live' = live \cup {hash[s]} /\ strikes' = strikes
          /\ rows'[hash[s]] = copy[s] /\ \A id \in live : id # hash[s] => rows'[id] = rows[id]
      BY <2>1, <2>4, <3>1 DEF CommitSignUp, TypeOK, history
    <3> QED
      BY <1>2, <3>1, <3>2 DEF NoStrikeLost
  <2>5. ASSUME NEW l \in Links, Dispose(l) PROVE NoStrikeLost'
    <3>1. strikes' = strikes /\ live' \subseteq live
      BY <2>5 DEF Dispose, history, db
    <3>2. \A x \in live' : /\ rows'[x].valid = rows[x].valid
                           /\ rows'[x].requestTimes = rows[x].requestTimes
      <4>1. CASE UNCHANGED <<live, rows>>
        BY <4>1
      <4>2. CASE \E id \in live : live' = live \ {id} /\ rows' = [rows EXCEPT ![id] = Blank]
        BY <2>1, <4>2 DEF TypeOK
      <4>3. CASE \E id \in live : live' = live /\ rows' = [rows EXCEPT ![id].blocked = TRUE]
        <5>1. PICK id \in live : live' = live /\ rows' = [rows EXCEPT ![id].blocked = TRUE]
          BY <4>3
        <5>2. rows[id] \in Rows /\ live \subseteq Ids /\ rows \in [Ids -> Rows]
          BY <2>1 DEF TypeOK
        <5>3. rows'[id] = [rows[id] EXCEPT !.blocked = TRUE] /\ \A x \in live : x # id => rows'[x] = rows[x]
          BY <5>1, <5>2
        <5>4. rows'[id].valid = rows[id].valid /\ rows'[id].requestTimes = rows[id].requestTimes
          BY <5>2, <5>3 DEF Rows
        <5> QED
          BY <5>1, <5>3, <5>4
      <4> QED
        BY <2>5, <4>1, <4>2, <4>3 DEF Dispose, RowsWith, db
    <3> QED
      BY <1>2, <3>1, <3>2 DEF NoStrikeLost
  <2>6. ASSUME NEW l \in Links, Enable(l) PROVE NoStrikeLost'
    <3>1. live' = live /\ strikes' = strikes
      BY <2>6 DEF Enable, history
    <3>2. \A x \in live : rows'[x] = rows[x] \/ rows'[x].valid
      <4>1. CASE uid[l] \notin live
        BY <2>6, <4>1 DEF Enable
      <4>2. CASE uid[l] \in live
        <5>1. rows[uid[l]] \in Rows /\ live \subseteq Ids /\ rows \in [Ids -> Rows]
          BY <2>1, <4>2 DEF TypeOK
        <5>2. /\ rows'[uid[l]] = [rows[uid[l]] EXCEPT !.valid = TRUE, !.hash = NoHash,
                                     !.dateLastReq = Unset, !.requestTimes = Unset]
              /\ \A x \in live : x # uid[l] => rows'[x] = rows[x]
          BY <2>6, <4>2, <5>1 DEF Enable
        <5>3. rows'[uid[l]].valid
          BY <5>1, <5>2 DEF Rows
        <5> QED
          BY <5>2, <5>3
      <4> QED
        BY <4>1, <4>2
    <3> QED
      BY <1>2, <3>1, <3>2 DEF NoStrikeLost
  <2>7. ASSUME NEW r \in Reqs, IncReqTimes(r) PROVE NoStrikeLost'
    <3>1. CASE uid[r] \notin live
      BY <2>2, <2>7, <3>1 DEF IncReqTimes, db
    <3>2. CASE uid[r] \in live
      <4> DEFINE id == uid[r]
      <4>1. rows[id] \in Rows /\ live \subseteq Ids /\ rows \in [Ids -> Rows] /\ strikes \in [Ids -> Nat]
        BY <2>1, <3>2 DEF TypeOK
      <4>2. /\ id \in live /\ live' = live
            /\ rows' = [rows EXCEPT ![id].requestTimes = IF @ = Unset THEN 1 ELSE @ + 1]
            /\ strikes' = [strikes EXCEPT ![id] = @ + 1]
        BY <2>7, <3>2 DEF IncReqTimes
      <4> HIDE DEF id
      <4>3. rows'[id] = [rows[id] EXCEPT !.requestTimes = IF rows[id].requestTimes = Unset THEN 1 ELSE rows[id].requestTimes + 1]
        BY <4>1, <4>2
      <4>4. /\ rows'[id].valid = rows[id].valid
            /\ rows[id].requestTimes # Unset => rows'[id].requestTimes = rows[id].requestTimes + 1
        BY <4>1, <4>3 DEF Rows
      <4>5. strikes[id] \in Nat /\ strikes'[id] = strikes[id] + 1
        BY <4>1, <4>2
      <4>6. \A x \in live : x # id => rows'[x] = rows[x] /\ strikes'[x] = strikes[x]
        BY <4>1, <4>2
      <4>7. ~rows[id].valid => rows[id].requestTimes = 1 + strikes[id]
        BY <1>2, <4>2 DEF NoStrikeLost
      <4> QED
        BY <1>2, <4>2, <4>4, <4>5, <4>6, <4>7 DEF NoStrikeLost
    <3> QED
      BY <3>1, <3>2
  <2>8. ASSUME NEW c \in Changes, ConfirmNewEmail(c) PROVE NoStrikeLost'
    <3>1. live' = live /\ strikes' = strikes
      BY <2>8 DEF ConfirmNewEmail, history
    <3>2. \A x \in live : rows'[x] = rows[x] \/ rows'[x].valid
      <4>1. CASE uid[c] \notin live
        BY <2>8, <4>1 DEF ConfirmNewEmail
      <4>2. CASE uid[c] \in live
        <5>1. /\ rows[uid[c]] \in Rows /\ live \subseteq Ids /\ rows \in [Ids -> Rows]
              /\ rows[uid[c]].valid
          BY <2>1, <4>2 DEF TypeOK, ReqOk, ChangeOk, Reqs
        <5>2. /\ rows'[uid[c]] = [rows[uid[c]] EXCEPT !.email = email[c], !.hash = NoHash,
                                     !.dateLastReq = Unset, !.requestTimes = Unset,
                                     !.newEmailTmp = NoEmail]
              /\ \A x \in live : x # uid[c] => rows'[x] = rows[x]
          BY <2>8, <4>2, <5>1 DEF ConfirmNewEmail
        <5>3. rows'[uid[c]].valid
          BY <5>1, <5>2 DEF Rows
        <5> QED
          BY <5>2, <5>3
      <4> QED
        BY <4>1, <4>2
    <3> QED
      BY <1>2, <3>1, <3>2 DEF NoStrikeLost
  <2>9. ASSUME NEW id \in Ids, NEW e \in Emails, StartChange(id, e) PROVE NoStrikeLost'
    <3>1. rows[id] \in Rows /\ live \subseteq Ids /\ rows \in [Ids -> Rows] /\ strikes \in [Ids -> Nat]
      BY <2>1 DEF TypeOK
    <3>2. /\ live' = live /\ rows[id].valid
          /\ rows'[id] = [rows[id] EXCEPT !.newEmailTmp = e, !.hash = issued + 1,
                                          !.requestTimes = 1, !.dateLastReq = now]
          /\ \A x \in live : x # id => rows'[x] = rows[x] /\ strikes'[x] = strikes[x]
      BY <2>9, <3>1 DEF StartChange
    <3>3. rows'[id].valid
      BY <3>1, <3>2 DEF Rows
    <3> QED
      BY <1>2, <3>2, <3>3 DEF NoStrikeLost
  <2>10. ASSUME NEW id \in Ids, NEW b \in BOOLEAN, SetBlocked(id, b) PROVE NoStrikeLost'
    <3>1. rows[id] \in Rows /\ live \subseteq Ids /\ rows \in [Ids -> Rows]
      BY <2>1 DEF TypeOK
    <3>2. /\ live' = live /\ strikes' = strikes
          /\ rows'[id] = [rows[id] EXCEPT !.blocked = b]
          /\ \A x \in live : x # id => rows'[x] = rows[x]
      BY <2>10, <3>1 DEF SetBlocked, history
    <3>3. rows'[id].valid = rows[id].valid /\ rows'[id].requestTimes = rows[id].requestTimes
      BY <3>1, <3>2 DEF Rows
    <3> QED
      BY <1>2, <3>2, <3>3 DEF NoStrikeLost
  <2>11. CASE \E s \in SignUps : SignUpStep(s)
    <3>1. PICK s \in SignUps : SignUpStep(s)
      BY <2>11
    <3>2. CASE CommitSignUp(s)
      BY <2>4, <3>2
    <3>3. CASE ~CommitSignUp(s)
      BY <2>2, <3>1, <3>3 DEF SignUpStep, CallSignUp, Taken, NotTaken, RegisterNewUser,
                              SendEmailVerify, RetrySignUp, ThrowSignUp, history
    <3> QED
      BY <3>2, <3>3
  <2>12. CASE \E l \in Links : LinkStep(l)
    <3>1. PICK l \in Links : LinkStep(l)
      BY <2>12
    <3>2. l \in Reqs
      BY DEF Reqs
    <3>3. CASE Dispose(l) \/ Enable(l) \/ IncReqTimes(l)
      BY <2>5, <2>6, <2>7, <3>2, <3>3
    <3>4. CASE ~Dispose(l) /\ ~Enable(l) /\ ~IncReqTimes(l)
      BY <2>2, <3>1, <3>4 DEF LinkStep, CallLink, Lookup, LookupMiss, Guards, RefuseLink,
                              ThrowLink, SendWelcome, history
    <3> QED
      BY <3>3, <3>4
  <2>13. CASE \E c \in Changes : ChangeStep(c)
    <3>1. PICK c \in Changes : ChangeStep(c)
      BY <2>13
    <3>2. c \in Reqs
      BY DEF Reqs
    <3>3. CASE ConfirmNewEmail(c) \/ IncReqTimes(c)
      BY <2>7, <2>8, <3>2, <3>3
    <3>4. CASE ~ConfirmNewEmail(c) /\ ~IncReqTimes(c)
      BY <2>2, <3>1, <3>4 DEF ChangeStep, CallChange, Load, LoadMiss, Mismatch, Match,
                              RefuseChange, CountFree, CountTaken, history
    <3> QED
      BY <3>3, <3>4
  <2>14. CASE Tick \/ UNCHANGED vars
    BY <2>2, <2>14 DEF Tick, vars, history
  <2> QED
    BY <1>2, <2>9, <2>10, <2>11, <2>12, <2>13, <2>14 DEF Next
<1> QED
  BY <1>1, <1>2, RegistrationIInv, PTL DEF Spec

\* A row becomes verified only through the hash that was mailed to its address.
THEOREM RegistrationVerifiedByItsMail == Spec => VerifiedByItsMail
<1>1. ASSUME IInv, [Next]_vars, NEW id \in live, ~rows[id].valid, rows'[id].valid
      PROVE  \E l \in Links : /\ pc[l] = "enable" /\ uid[l] = id
                              /\ <<hash[l], rows[id].email>> \in mailedTo
  <2>1. TypeOK /\ FreshIds /\ \A r \in Reqs : ReqOk(r)
    BY <1>1 DEF IInv
  <2>2. id \in Ids /\ rows \in [Ids -> Rows] /\ rows[id] \in Rows /\ rows'[id] # rows[id]
    BY <1>1, <2>1 DEF TypeOK
  <2>3. ASSUME NEW s \in SignUps, SignUpStep(s) PROVE FALSE
    <3>1. CommitSignUp(s)
      BY <2>2, <2>3 DEF SignUpStep, CallSignUp, Taken, NotTaken, RegisterNewUser,
                        SendEmailVerify, RetrySignUp, ThrowSignUp, db
    <3>2. hash[s] \notin live
      BY <2>1, <3>1 DEF CommitSignUp, FreshIds, Buffered
    <3> QED
      BY <2>2, <3>1, <3>2 DEF CommitSignUp
  <2>4. ASSUME NEW l \in Links, LinkStep(l)
        PROVE  /\ pc[l] = "enable" /\ uid[l] = id
               /\ <<hash[l], rows[id].email>> \in mailedTo
    <3>1. Dispose(l) \/ Enable(l) \/ IncReqTimes(l)
      BY <2>2, <2>4 DEF LinkStep, CallLink, Lookup, LookupMiss, Guards, RefuseLink,
                        ThrowLink, SendWelcome, db
    <3>2. ~Dispose(l)
      <4> SUFFICES ASSUME Dispose(l) PROVE FALSE
        OBVIOUS
      <4>1. \/ rows' = rows \/ \E x \in live : rows' = [rows EXCEPT ![x] = Blank]
            \/ \E x \in live : rows' = [rows EXCEPT ![x].blocked = TRUE]
        BY DEF Dispose, RowsWith, db
      <4>2. rows'[id] \in {rows[id], Blank, [rows[id] EXCEPT !.blocked = TRUE]}
        BY <2>2, <4>1
      <4>3. ~Blank.valid /\ [rows[id] EXCEPT !.blocked = TRUE].valid = rows[id].valid
        BY <2>2 DEF Rows, Blank
      <4> QED
        BY <1>1, <4>2, <4>3
    <3>3. ~IncReqTimes(l)
      <4> SUFFICES ASSUME IncReqTimes(l) PROVE FALSE
        OBVIOUS
      <4> DEFINE n == IF rows[id].requestTimes = Unset THEN 1 ELSE rows[id].requestTimes + 1
      <4>1. rows'[id] = [rows[id] EXCEPT !.requestTimes = n]
        BY <2>2 DEF IncReqTimes
      <4> HIDE DEF n
      <4>2. [rows[id] EXCEPT !.requestTimes = n].valid = rows[id].valid
        BY <2>2 DEF Rows
      <4> QED
        BY <1>1, <4>1, <4>2
    <3>4. Enable(l) /\ uid[l] = id
      BY <2>2, <3>1, <3>2, <3>3 DEF Enable
    <3>5. LinkOk(l)
      BY <2>1 DEF ReqOk, Reqs
    <3> QED
      BY <1>1, <3>4, <3>5 DEF Enable, LinkOk
  <2>5. ASSUME NEW c \in Changes, ChangeStep(c) PROVE FALSE
    <3>1. ConfirmNewEmail(c) \/ IncReqTimes(c)
      BY <2>2, <2>5 DEF ChangeStep, CallChange, Load, LoadMiss, Mismatch, Match,
                        RefuseChange, CountFree, CountTaken, db
    <3>2. uid[c] \in live /\ uid[c] = id
      BY <2>2, <3>1 DEF ConfirmNewEmail, IncReqTimes
    <3> QED
      BY <1>1, <2>1, <3>2 DEF ReqOk, ChangeOk, Reqs
  <2>6. ASSUME NEW x \in Ids, NEW e \in Emails, StartChange(x, e) PROVE FALSE
    <3>1. x # id
      BY <1>1, <2>6 DEF StartChange
    <3> QED
      BY <2>2, <2>6, <3>1 DEF StartChange
  <2>7. ASSUME NEW x \in Ids, NEW b \in BOOLEAN, SetBlocked(x, b) PROVE FALSE
    <3>1. rows'[id] \in {rows[id], [rows[id] EXCEPT !.blocked = b]}
      BY <2>2, <2>7 DEF SetBlocked
    <3>2. [rows[id] EXCEPT !.blocked = b].valid = rows[id].valid
      BY <2>2 DEF Rows
    <3> QED
      BY <1>1, <3>1, <3>2
  <2>8. ~Tick /\ ~UNCHANGED vars
    BY <2>2 DEF Tick, vars, db
  <2> QED
    BY <1>1, <2>3, <2>4, <2>5, <2>6, <2>7, <2>8 DEF Next
<1>2. IInv /\ [Next]_vars =>
        [\A id \in live :
           ~rows[id].valid /\ rows'[id].valid =>
             \E l \in Links : /\ pc[l] = "enable" /\ uid[l] = id
                              /\ <<hash[l], rows[id].email>> \in mailedTo]_vars
  BY <1>1
<1> QED
  BY <1>2, RegistrationIInv, PTL DEF Spec, VerifiedByItsMail

\* The address of a row changes only to one that a presented hash was mailed to.
THEOREM RegistrationChangedByItsMail == Spec => ChangedByItsMail
<1>1. ASSUME IInv, [Next]_vars, NEW id \in live \cap live', rows'[id].email # rows[id].email
      PROVE  \E c \in Changes : <<hash[c], rows'[id].email>> \in mailedTo
  <2>1. TypeOK /\ FreshIds /\ \A r \in Reqs : ReqOk(r)
    BY <1>1 DEF IInv
  <2>2. id \in Ids /\ rows \in [Ids -> Rows] /\ rows[id] \in Rows /\ rows'[id] # rows[id]
    BY <1>1, <2>1 DEF TypeOK
  <2>3. ASSUME NEW s \in SignUps, SignUpStep(s) PROVE FALSE
    <3>1. CommitSignUp(s)
      BY <2>2, <2>3 DEF SignUpStep, CallSignUp, Taken, NotTaken, RegisterNewUser,
                        SendEmailVerify, RetrySignUp, ThrowSignUp, db
    <3>2. hash[s] \notin live
      BY <2>1, <3>1 DEF CommitSignUp, FreshIds, Buffered
    <3> QED
      BY <2>2, <3>1, <3>2 DEF CommitSignUp
  <2>4. ASSUME NEW r \in Reqs, IncReqTimes(r) PROVE FALSE
    <3> DEFINE n == IF rows[id].requestTimes = Unset THEN 1 ELSE rows[id].requestTimes + 1
    <3>1. rows'[id] = [rows[id] EXCEPT !.requestTimes = n]
      BY <2>2, <2>4 DEF IncReqTimes
    <3> HIDE DEF n
    <3>2. [rows[id] EXCEPT !.requestTimes = n].email = rows[id].email
      BY <2>2 DEF Rows
    <3> QED
      BY <1>1, <3>1, <3>2
  <2>5. ASSUME NEW l \in Links, LinkStep(l) PROVE FALSE
    <3>1. CASE Dispose(l)
      <4>1. \/ rows' = rows
            \/ \E x \in live : live' = live \ {x} /\ rows' = [rows EXCEPT ![x] = Blank]
            \/ \E x \in live : rows' = [rows EXCEPT ![x].blocked = TRUE]
        BY <3>1 DEF Dispose, RowsWith, db
      <4>2. rows'[id] \in {rows[id], [rows[id] EXCEPT !.blocked = TRUE]}
        BY <2>2, <4>1
      <4>3. [rows[id] EXCEPT !.blocked = TRUE].email = rows[id].email
        BY <2>2 DEF Rows
      <4> QED
        BY <1>1, <4>2, <4>3
    <3>2. CASE Enable(l)
      <4>1. rows'[id] = [rows[id] EXCEPT !.valid = TRUE, !.hash = NoHash,
                                         !.dateLastReq = Unset, !.requestTimes = Unset]
        BY <2>2, <3>2 DEF Enable
      <4>2. rows'[id].email = rows[id].email
        BY <2>2, <4>1 DEF Rows
      <4> QED
        BY <1>1, <4>2
    <3>3. ~IncReqTimes(l)
      BY <2>4 DEF Reqs
    <3> QED
      BY <2>2, <2>5, <3>1, <3>2, <3>3
         DEF LinkStep, CallLink, Lookup, LookupMiss, Guards, RefuseLink, ThrowLink, SendWelcome, db
  <2>6. ASSUME NEW c \in Changes, ChangeStep(c)
        PROVE  <<hash[c], rows'[id].email>> \in mailedTo
    <3>1. ~IncReqTimes(c)
      BY <2>4 DEF Reqs
    <3>2. ConfirmNewEmail(c)
      BY <2>2, <2>6, <3>1 DEF ChangeStep, CallChange, Load, LoadMiss, Mismatch, Match,
                              RefuseChange, CountFree, CountTaken, db
    <3>3. uid[c] = id
      BY <2>2, <3>2 DEF ConfirmNewEmail
    <3>4. rows'[id] = [rows[id] EXCEPT !.email = email[c], !.hash = NoHash,
                                       !.dateLastReq = Unset, !.requestTimes = Unset,
                                       !.newEmailTmp = NoEmail]
      BY <1>1, <2>2, <3>2, <3>3 DEF ConfirmNewEmail
    <3>5. rows'[id].email = email[c]
      BY <2>2, <3>4 DEF Rows
    <3>6. <<hash[c], email[c]>> \in mailedTo
      BY <2>1, <3>2 DEF ConfirmNewEmail, ReqOk, ChangeOk, Reqs
    <3> QED
      BY <3>5, <3>6
  <2>7. ASSUME NEW x \in Ids, NEW e \in Emails, StartChange(x, e) PROVE FALSE
    <3>1. x = id
      BY <2>2, <2>7 DEF StartChange
    <3>2. rows'[id] = [rows[id] EXCEPT !.newEmailTmp = e, !.hash = issued + 1,
                                       !.requestTimes = 1, !.dateLastReq = now]
      BY <2>2, <2>7, <3>1 DEF StartChange
    <3>3. rows'[id].email = rows[id].email
      BY <2>2, <3>2 DEF Rows
    <3> QED
      BY <1>1, <3>3
  <2>8. ASSUME NEW x \in Ids, NEW b \in BOOLEAN, SetBlocked(x, b) PROVE FALSE
    <3>1. rows'[id] \in {rows[id], [rows[id] EXCEPT !.blocked = b]}
      BY <2>2, <2>8 DEF SetBlocked
    <3>2. [rows[id] EXCEPT !.blocked = b].email = rows[id].email
      BY <2>2 DEF Rows
    <3> QED
      BY <1>1, <3>1, <3>2
  <2>9. ~Tick /\ ~UNCHANGED vars
    BY <2>2 DEF Tick, vars, db
  <2> QED
    BY <1>1, <2>3, <2>5, <2>6, <2>7, <2>8, <2>9 DEF Next
<1>2. IInv /\ [Next]_vars =>
        [\A id \in live \cap live' :
           rows'[id].email # rows[id].email =>
             \E c \in Changes : <<hash[c], rows'[id].email>> \in mailedTo]_vars
  BY <1>1
<1> QED
  BY <1>2, RegistrationIInv, PTL DEF Spec, ChangedByItsMail
==============================================================================
