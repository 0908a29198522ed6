-------------------------- MODULE TransactionProofs --------------------------
(***************************************************************************)
(* Proofs about the transactions of PostgreSQL.                            *)
(*                                                                         *)
(* WithTx, for every number of calls, every size of the pool and every     *)
(* retryMax: the inductive invariant IInv, the safety properties that      *)
(* follow from it, and that withTx implements AtomicTx.                    *)
(*                                                                         *)
(* LockOrder, the tracker and the clock that work inside of a transaction, *)
(* for any transactions, modes, helpers and rows, and any bound on time:   *)
(* the inductive invariant LockIInv and what follows from it.              *)
(***************************************************************************)
EXTENDS WithTx, LockOrder, TLAPS
----------------------------------------------------------------------------
(* withTx                                                                  *)


\* Init establishes the invariant: every client is in the pool.
LEMMA InitIInv == Init => IInv
BY WithTxAssumption
DEF Init, IInv, TypeOK, CallInv, SessionInv, DurableInv, StatementsStayInside,
    PooledClientsAreClean, ClientsAccountedFor, SuccessIsDurable, PCs, Holding,
    Answers, Runs, Attempts, Failures

\* Every step of the wrapper and of the server keeps it, action by action.
LEMMA NextIInv == IInv /\ [Next]_vars => IInv'
<1> SUFFICES ASSUME IInv, [Next]_vars PROVE IInv'
  OBVIOUS
<1> USE WithTxAssumption
    DEF IInv, TypeOK, CallInv, SessionInv, DurableInv, StatementsStayInside,
        PooledClientsAreClean, ClientsAccountedFor, SuccessIsDurable, PCs, Holding,
        Answers, Runs, Attempts, Failures, call, server, Goto, Attempt, HandleOf,
        EndSession, Fail
<1>0. ASSUME NEW c \in Calls PROVE Attempt(c) \in Attempts /\ (pc[c] \in Holding => conn[c] \in Clients)
  OBVIOUS
<1>1. ASSUME NEW c \in Calls, Connect(c) PROVE IInv'
  <2>1. TypeOK'
    BY <1>1 DEF Connect
  <2>2. CallInv'
    BY <1>1 DEF Connect
  <2>3. SessionInv'
    BY <1>1 DEF Connect
  <2>4. DurableInv'
    BY <1>1 DEF Connect
  <2>5. StatementsStayInside'
    BY <1>1 DEF Connect
  <2>6. PooledClientsAreClean'
    BY <1>1 DEF Connect
  <2>7. ClientsAccountedFor'
    <3>1. PICK cl \in idle : /\ idle' = idle \ {cl}
                             /\ conn' = [conn EXCEPT ![c] = cl]
      BY <1>1 DEF Connect
    <3>2. cl \in Clients /\ cl # NoClient
      BY <3>1
    <3>3. conn[c] = NoClient
      BY <1>1 DEF Connect
    <3>4. \A d \in Calls : conn[d] # cl
      BY <3>1, <3>2
    <3> QED
      BY <3>1, <3>2, <3>3, <3>4
  <2>8. SuccessIsDurable'
    BY <1>1 DEF Connect
  <2> QED
    BY <2>1, <2>2, <2>3, <2>4, <2>5, <2>6, <2>7, <2>8
<1>2. ASSUME NEW c \in Calls, ConnectFails(c) PROVE IInv'
  BY <1>2 DEF ConnectFails
<1>3. ASSUME NEW c \in Calls, Begin(c) PROVE IInv'
  <2>0. conn[c] \in Clients /\ Attempt(c) \in Attempts
    BY <1>3, <1>0 DEF Begin
  <2>1. TypeOK'
    <3>1. work' \in [Clients -> SUBSET Attempts] /\ durable' \subseteq Attempts
      BY <1>3, <2>0 DEF Begin
    <3>2. session' \in [Clients -> {"none", "active", "aborted"}]
      BY <1>3, <2>0 DEF Begin
    <3>5. idle' \subseteq Clients /\ broken' \subseteq Clients
      BY <1>3, <2>0 DEF Begin
    <3>3. /\ pc' \in [Calls -> PCs] /\ retries' \in [Calls -> Runs]
          /\ conn' \in [Calls -> Clients \cup {NoClient}] /\ open' \subseteq Calls \X Runs \X Clients
      BY <1>3, <2>0 DEF Begin
    <3>4. /\ destroy' \in [Calls -> BOOLEAN] /\ failure' \in [Calls -> Failures \cup {"none"}]
          /\ thrown' \in [Calls -> Failures \cup {"none"}] /\ answer' \in [Calls -> Answers]
      BY <1>3, <2>0 DEF Begin
    <3> QED
      BY <3>1, <3>2, <3>3, <3>4, <3>5
  <2>2. CallInv'
    BY <1>3 DEF Begin
  <2>3. SessionInv'
    BY <1>3 DEF Begin
  <2>4. DurableInv'
    BY <1>3 DEF Begin
  <2>5. StatementsStayInside'
    BY <1>3, SMTT(30) DEF Begin
  <2>6. PooledClientsAreClean'
    BY <1>3 DEF Begin
  <2>7. ClientsAccountedFor'
    BY <1>3 DEF Begin
  <2>8. SuccessIsDurable'
    BY <1>3 DEF Begin
  <2> QED
    BY <2>1, <2>2, <2>3, <2>4, <2>5, <2>6, <2>7, <2>8
<1>4. ASSUME NEW c \in Calls, SetLockTimeout(c) PROVE IInv'
  <2>0. conn[c] \in Clients /\ Attempt(c) \in Attempts
    BY <1>4, <1>0 DEF SetLockTimeout
  <2>1. TypeOK'
    <3>1. work' \in [Clients -> SUBSET Attempts] /\ durable' \subseteq Attempts
      BY <1>4, <2>0 DEF SetLockTimeout
    <3>2. session' \in [Clients -> {"none", "active", "aborted"}]
      BY <1>4, <2>0 DEF SetLockTimeout
    <3>5. idle' \subseteq Clients /\ broken' \subseteq Clients
      BY <1>4, <2>0 DEF SetLockTimeout
    <3>3. /\ pc' \in [Calls -> PCs] /\ retries' \in [Calls -> Runs]
          /\ conn' \in [Calls -> Clients \cup {NoClient}] /\ open' \subseteq Calls \X Runs \X Clients
      BY <1>4, <2>0 DEF SetLockTimeout
    <3>4. /\ destroy' \in [Calls -> BOOLEAN] /\ failure' \in [Calls -> Failures \cup {"none"}]
          /\ thrown' \in [Calls -> Failures \cup {"none"}] /\ answer' \in [Calls -> Answers]
      BY <1>4, <2>0 DEF SetLockTimeout
    <3> QED
      BY <3>1, <3>2, <3>3, <3>4, <3>5
  <2>2. CallInv'
    BY <1>4 DEF SetLockTimeout
  <2>3. SessionInv'
    BY <1>4 DEF SetLockTimeout
  <2>4. DurableInv'
    BY <1>4 DEF SetLockTimeout
  <2>5. StatementsStayInside'
    BY <1>4 DEF SetLockTimeout
  <2>6. PooledClientsAreClean'
    BY <1>4 DEF SetLockTimeout
  <2>7. ClientsAccountedFor'
    BY <1>4 DEF SetLockTimeout
  <2>8. SuccessIsDurable'
    BY <1>4 DEF SetLockTimeout
  <2> QED
    BY <2>1, <2>2, <2>3, <2>4, <2>5, <2>6, <2>7, <2>8
<1>5. ASSUME NEW c \in Calls, OpeningFails(c) PROVE IInv'
  BY <1>5 DEF OpeningFails
<1>6. ASSUME NEW c \in Calls, FnResolves(c) PROVE IInv'
  BY <1>6 DEF FnResolves
<1>7. ASSUME NEW c \in Calls, FnThrows(c) PROVE IInv'
  BY <1>7 DEF FnThrows
<1>8. ASSUME NEW c \in Calls, Commit(c) PROVE IInv'
  <2>0. conn[c] \in Clients /\ Attempt(c) \in Attempts
    BY <1>8, <1>0 DEF Commit
  <2>1. TypeOK'
    <3>1. work' \in [Clients -> SUBSET Attempts] /\ durable' \subseteq Attempts
      BY <1>8, <2>0 DEF Commit
    <3>2. session' \in [Clients -> {"none", "active", "aborted"}]
      BY <1>8, <2>0 DEF Commit
    <3>5. idle' \subseteq Clients /\ broken' \subseteq Clients
      BY <1>8, <2>0 DEF Commit
    <3>3. /\ pc' \in [Calls -> PCs] /\ retries' \in [Calls -> Runs]
          /\ conn' \in [Calls -> Clients \cup {NoClient}] /\ open' \subseteq Calls \X Runs \X Clients
      BY <1>8, <2>0 DEF Commit
    <3>4. /\ destroy' \in [Calls -> BOOLEAN] /\ failure' \in [Calls -> Failures \cup {"none"}]
          /\ thrown' \in [Calls -> Failures \cup {"none"}] /\ answer' \in [Calls -> Answers]
      BY <1>8, <2>0 DEF Commit
    <3> QED
      BY <3>1, <3>2, <3>3, <3>4, <3>5
  <2>2. CallInv'
    BY <1>8 DEF Commit
  <2>3. SessionInv'
    BY <1>8 DEF Commit
  <2>4. DurableInv'
    <3>1. \A a \in durable : a[1] \in Calls /\ a[1] # c
      BY <1>8 DEF Commit
    <3>2. \A a \in work[conn[c]] : a = Attempt(c)
      BY <2>0, <1>8 DEF Commit
    <3>3. \A a \in durable' : a \in durable \/ a = Attempt(c)
      BY <3>2, <2>0, <1>8 DEF Commit
    <3> QED
      BY <3>1, <3>3, <2>1, <1>8 DEF Commit
  <2>5. StatementsStayInside'
    BY <1>8 DEF Commit
  <2>6. PooledClientsAreClean'
    BY <1>8 DEF Commit
  <2>7. ClientsAccountedFor'
    BY <1>8 DEF Commit
  <2>8. SuccessIsDurable'
    BY <1>8 DEF Commit
  <2> QED
    BY <2>1, <2>2, <2>3, <2>4, <2>5, <2>6, <2>7, <2>8
<1>9. ASSUME NEW c \in Calls, CommitRefused(c) PROVE IInv'
  <2>0. conn[c] \in Clients /\ Attempt(c) \in Attempts
    BY <1>9, <1>0 DEF CommitRefused
  <2>1. TypeOK'
    <3>1. work' \in [Clients -> SUBSET Attempts] /\ durable' \subseteq Attempts
      BY <1>9, <2>0 DEF CommitRefused
    <3>2. session' \in [Clients -> {"none", "active", "aborted"}]
      BY <1>9, <2>0 DEF CommitRefused
    <3>5. idle' \subseteq Clients /\ broken' \subseteq Clients
      BY <1>9, <2>0 DEF CommitRefused
    <3>3. /\ pc' \in [Calls -> PCs] /\ retries' \in [Calls -> Runs]
          /\ conn' \in [Calls -> Clients \cup {NoClient}] /\ open' \subseteq Calls \X Runs \X Clients
      BY <1>9, <2>0 DEF CommitRefused
    <3>4. /\ destroy' \in [Calls -> BOOLEAN] /\ failure' \in [Calls -> Failures \cup {"none"}]
          /\ thrown' \in [Calls -> Failures \cup {"none"}] /\ answer' \in [Calls -> Answers]
      BY <1>9, <2>0 DEF CommitRefused
    <3> QED
      BY <3>1, <3>2, <3>3, <3>4, <3>5
  <2>2. CallInv'
    BY <1>9 DEF CommitRefused
  <2>3. SessionInv'
    BY <1>9 DEF CommitRefused
  <2>4. DurableInv'
    BY <1>9 DEF CommitRefused
  <2>5. StatementsStayInside'
    BY <1>9 DEF CommitRefused
  <2>6. PooledClientsAreClean'
    BY <1>9 DEF CommitRefused
  <2>7. ClientsAccountedFor'
    BY <1>9 DEF CommitRefused
  <2>8. SuccessIsDurable'
    BY <1>9 DEF CommitRefused
  <2> QED
    BY <2>1, <2>2, <2>3, <2>4, <2>5, <2>6, <2>7, <2>8
<1>10. ASSUME NEW c \in Calls, CommitRolledBack(c) PROVE IInv'
  <2>0. conn[c] \in Clients /\ Attempt(c) \in Attempts
    BY <1>10, <1>0 DEF CommitRolledBack
  <2>1. TypeOK'
    <3>1. work' \in [Clients -> SUBSET Attempts] /\ durable' \subseteq Attempts
      BY <1>10, <2>0 DEF CommitRolledBack
    <3>2. session' \in [Clients -> {"none", "active", "aborted"}]
      BY <1>10, <2>0 DEF CommitRolledBack
    <3>5. idle' \subseteq Clients /\ broken' \subseteq Clients
      BY <1>10, <2>0 DEF CommitRolledBack
    <3>3. /\ pc' \in [Calls -> PCs] /\ retries' \in [Calls -> Runs]
          /\ conn' \in [Calls -> Clients \cup {NoClient}] /\ open' \subseteq Calls \X Runs \X Clients
      BY <1>10, <2>0 DEF CommitRolledBack
    <3>4. /\ destroy' \in [Calls -> BOOLEAN] /\ failure' \in [Calls -> Failures \cup {"none"}]
          /\ thrown' \in [Calls -> Failures \cup {"none"}] /\ answer' \in [Calls -> Answers]
      BY <1>10, <2>0 DEF CommitRolledBack
    <3> QED
      BY <3>1, <3>2, <3>3, <3>4, <3>5
  <2>2. CallInv'
    BY <1>10 DEF CommitRolledBack
  <2>3. SessionInv'
    BY <1>10 DEF CommitRolledBack
  <2>4. DurableInv'
    BY <1>10 DEF CommitRolledBack
  <2>5. StatementsStayInside'
    BY <1>10 DEF CommitRolledBack
  <2>6. PooledClientsAreClean'
    BY <1>10 DEF CommitRolledBack
  <2>7. ClientsAccountedFor'
    BY <1>10 DEF CommitRolledBack
  <2>8. SuccessIsDurable'
    BY <1>10 DEF CommitRolledBack
  <2> QED
    BY <2>1, <2>2, <2>3, <2>4, <2>5, <2>6, <2>7, <2>8
<1>11. ASSUME NEW c \in Calls, CommitLost(c) PROVE IInv'
  <2>0. conn[c] \in Clients /\ Attempt(c) \in Attempts
    BY <1>11, <1>0 DEF CommitLost
  <2>1. TypeOK'
    <3>1. work' \in [Clients -> SUBSET Attempts] /\ durable' \subseteq Attempts
      BY <1>11, <2>0 DEF CommitLost
    <3>2. session' \in [Clients -> {"none", "active", "aborted"}]
      BY <1>11, <2>0 DEF CommitLost
    <3>5. idle' \subseteq Clients /\ broken' \subseteq Clients
      BY <1>11, <2>0 DEF CommitLost
    <3>3. /\ pc' \in [Calls -> PCs] /\ retries' \in [Calls -> Runs]
          /\ conn' \in [Calls -> Clients \cup {NoClient}] /\ open' \subseteq Calls \X Runs \X Clients
      BY <1>11, <2>0 DEF CommitLost
    <3>4. /\ destroy' \in [Calls -> BOOLEAN] /\ failure' \in [Calls -> Failures \cup {"none"}]
          /\ thrown' \in [Calls -> Failures \cup {"none"}] /\ answer' \in [Calls -> Answers]
      BY <1>11, <2>0 DEF CommitLost
    <3> QED
      BY <3>1, <3>2, <3>3, <3>4, <3>5
  <2>2. CallInv'
    BY <1>11 DEF CommitLost
  <2>3. SessionInv'
    BY <1>11 DEF CommitLost
  <2>4. DurableInv'
    <3>1. \A a \in durable : a[1] \in Calls /\ a[1] # c
      BY <1>11 DEF CommitLost
    <3>2. \A a \in work[conn[c]] : a = Attempt(c)
      BY <2>0, <1>11 DEF CommitLost
    <3>3. \A a \in durable' : a \in durable \/ a = Attempt(c)
      BY <3>2, <2>0, <1>11 DEF CommitLost
    <3> QED
      BY <3>1, <3>3, <2>1, <1>11 DEF CommitLost
  <2>5. StatementsStayInside'
    BY <1>11 DEF CommitLost
  <2>6. PooledClientsAreClean'
    BY <1>11 DEF CommitLost
  <2>7. ClientsAccountedFor'
    BY <1>11 DEF CommitLost
  <2>8. SuccessIsDurable'
    BY <1>11 DEF CommitLost
  <2> QED
    BY <2>1, <2>2, <2>3, <2>4, <2>5, <2>6, <2>7, <2>8
<1>12. ASSUME NEW c \in Calls, Rollback(c) PROVE IInv'
  <2>1. TypeOK'
    BY <1>12 DEF Rollback
  <2>2. CallInv'
    BY <1>12 DEF Rollback
  <2>3. SessionInv'
    BY <1>12 DEF Rollback
  <2>4. DurableInv'
    BY <1>12 DEF Rollback
  <2>5. StatementsStayInside'
    BY <1>12 DEF Rollback
  <2>6. PooledClientsAreClean'
    BY <1>12 DEF Rollback
  <2>7. ClientsAccountedFor'
    BY <1>12 DEF Rollback
  <2>8. SuccessIsDurable'
    BY <1>12 DEF Rollback
  <2> QED
    BY <2>1, <2>2, <2>3, <2>4, <2>5, <2>6, <2>7, <2>8
<1>13. ASSUME NEW c \in Calls, RollbackFails(c) PROVE IInv'
  BY <1>13 DEF RollbackFails
<1>14. ASSUME NEW c \in Calls, Release(c) PROVE IInv'
  <2>0. conn[c] \in Clients /\ Attempt(c) \in Attempts
    BY <1>14, <1>0 DEF Release
  <2>1. TypeOK'
    <3>1. work' \in [Clients -> SUBSET Attempts] /\ durable' \subseteq Attempts
      BY <1>14, <2>0 DEF Release, Verdict
    <3>2. session' \in [Clients -> {"none", "active", "aborted"}]
      BY <1>14, <2>0 DEF Release, Verdict
    <3>5. idle' \subseteq Clients /\ broken' \subseteq Clients
      BY <1>14, <2>0 DEF Release, Verdict
    <3>3. /\ pc' \in [Calls -> PCs] /\ retries' \in [Calls -> Runs]
          /\ conn' \in [Calls -> Clients \cup {NoClient}] /\ open' \subseteq Calls \X Runs \X Clients
      BY <1>14, <2>0 DEF Release, Verdict
    <3>4. /\ destroy' \in [Calls -> BOOLEAN] /\ failure' \in [Calls -> Failures \cup {"none"}]
          /\ thrown' \in [Calls -> Failures \cup {"none"}] /\ answer' \in [Calls -> Answers]
      BY <1>14, <2>0 DEF Release, Verdict
    <3> QED
      BY <3>1, <3>2, <3>3, <3>4, <3>5
  <2>2. CallInv'
    BY <1>14 DEF Release, Verdict
  <2>3. SessionInv'
    BY <1>14 DEF Release, Verdict
  <2>4. DurableInv'
    BY <1>14 DEF Release, Verdict
  <2>5. StatementsStayInside'
    BY <1>14 DEF Release, Verdict
  <2>6. PooledClientsAreClean'
    <3>1. idle' = idle \cup {conn[c]} /\ conn[c] \notin idle
      BY <1>14 DEF Release
    <3>2. session'[conn[c]] = "none" /\ conn[c] \notin broken'
      BY <2>0, <1>14 DEF Release
    <3>3. work'[conn[c]] = {}
      BY <2>0, <2>1, <2>3, <3>2
    <3>4. \A cl \in idle : session'[cl] = session[cl] /\ work'[cl] = work[cl] /\ (cl \in broken' => cl \in broken)
      BY <2>0, <3>1, <1>14 DEF Release
    <3> QED
      BY <3>1, <3>2, <3>3, <3>4
  <2>7. ClientsAccountedFor'
    BY <1>14 DEF Release, Verdict
  <2>8. SuccessIsDurable'
    BY <1>14 DEF Release, Verdict
  <2> QED
    BY <2>1, <2>2, <2>3, <2>4, <2>5, <2>6, <2>7, <2>8
<1>15. ASSUME NEW c \in Calls, Retry(c) PROVE IInv'
  <2>0. retries[c] \in Nat /\ retries[c] + 1 \in Runs /\ pc[c] = "delay"
    <3>1. pc[c] = "delay" /\ retries[c] < RetryMax
      BY <1>15 DEF Retry
    <3>2. retries[c] \in 0 .. RetryMax
      OBVIOUS
    <3> QED
      BY <3>1, <3>2
  <2>1. TypeOK'
    <3>1. work' \in [Clients -> SUBSET Attempts] /\ durable' \subseteq Attempts
      BY <1>15, <2>0 DEF Retry
    <3>2. session' \in [Clients -> {"none", "active", "aborted"}]
      BY <1>15, <2>0 DEF Retry
    <3>5. idle' \subseteq Clients /\ broken' \subseteq Clients
      BY <1>15, <2>0 DEF Retry
    <3>3. /\ pc' \in [Calls -> PCs] /\ retries' \in [Calls -> Runs]
          /\ conn' \in [Calls -> Clients \cup {NoClient}] /\ open' \subseteq Calls \X Runs \X Clients
      BY <1>15, <2>0 DEF Retry
    <3>4. /\ destroy' \in [Calls -> BOOLEAN] /\ failure' \in [Calls -> Failures \cup {"none"}]
          /\ thrown' \in [Calls -> Failures \cup {"none"}] /\ answer' \in [Calls -> Answers]
      BY <1>15, <2>0 DEF Retry
    <3> QED
      BY <3>1, <3>2, <3>3, <3>4, <3>5
  <2>9. answer[c] = "none" /\ conn[c] = NoClient
    BY <2>0
  <2>10. pc'[c] = "connect" /\ \A d \in Calls \ {c} : pc'[d] = pc[d]
    BY <1>15 DEF Retry
  <2>11. \A d \in Calls \ {c} : retries'[d] = retries[d]
    BY <1>15 DEF Retry
  <2>12. UNCHANGED <<conn, answer, thrown, durable>>
    BY <1>15 DEF Retry
  <2>2. CallInv'
    BY <2>9, <2>10, <2>11, <2>12
  <2>3. SessionInv'
    BY <1>15 DEF Retry
  <2>4. DurableInv'
    BY <1>15 DEF Retry
  <2>5. StatementsStayInside'
    BY <1>15 DEF Retry
  <2>6. PooledClientsAreClean'
    BY <1>15 DEF Retry
  <2>7. ClientsAccountedFor'
    BY <1>15 DEF Retry
  <2>8. SuccessIsDurable'
    BY <2>9, <2>10, <2>11, <2>12
  <2> QED
    BY <2>1, <2>2, <2>3, <2>4, <2>5, <2>6, <2>7, <2>8
<1>16. ASSUME NEW c \in Calls, ClientError(c) PROVE IInv'
  <2>0. conn[c] \in Clients /\ Attempt(c) \in Attempts
    BY <1>16, <1>0 DEF ClientError
  <2>1. TypeOK'
    <3>1. work' \in [Clients -> SUBSET Attempts] /\ durable' \subseteq Attempts
      BY <1>16, <2>0 DEF ClientError
    <3>2. session' \in [Clients -> {"none", "active", "aborted"}]
      BY <1>16, <2>0 DEF ClientError
    <3>5. idle' \subseteq Clients /\ broken' \subseteq Clients
      BY <1>16, <2>0 DEF ClientError
    <3>3. /\ pc' \in [Calls -> PCs] /\ retries' \in [Calls -> Runs]
          /\ conn' \in [Calls -> Clients \cup {NoClient}] /\ open' \subseteq Calls \X Runs \X Clients
      BY <1>16, <2>0 DEF ClientError
    <3>4. /\ destroy' \in [Calls -> BOOLEAN] /\ failure' \in [Calls -> Failures \cup {"none"}]
          /\ thrown' \in [Calls -> Failures \cup {"none"}] /\ answer' \in [Calls -> Answers]
      BY <1>16, <2>0 DEF ClientError
    <3> QED
      BY <3>1, <3>2, <3>3, <3>4, <3>5
  <2>2. CallInv'
    BY <1>16 DEF ClientError
  <2>3. SessionInv'
    BY <1>16 DEF ClientError
  <2>4. DurableInv'
    BY <1>16 DEF ClientError
  <2>5. StatementsStayInside'
    BY <1>16 DEF ClientError
  <2>6. PooledClientsAreClean'
    BY <1>16 DEF ClientError
  <2>7. ClientsAccountedFor'
    BY <1>16 DEF ClientError
  <2>8. SuccessIsDurable'
    BY <1>16 DEF ClientError
  <2> QED
    BY <2>1, <2>2, <2>3, <2>4, <2>5, <2>6, <2>7, <2>8
<1>17. ASSUME NEW h \in Handles, Query(h) PROVE IInv'
  BY <1>17 DEF Query, Handles
<1>18. ASSUME NEW h \in Handles, QueryFails(h) PROVE IInv'
  BY <1>18 DEF QueryFails, Handles
<1>19. ASSUME NEW h \in Handles, RollbackToSavepoint(h) PROVE IInv'
  BY <1>19 DEF RollbackToSavepoint, Handles
<1>20. CASE UNCHANGED vars
  BY <1>20 DEF vars
<1> QED
  BY <1>1, <1>2, <1>3, <1>4, <1>5, <1>6, <1>7, <1>8, <1>9, <1>10, <1>11, <1>12,
     <1>13, <1>14, <1>15, <1>16, <1>17, <1>18, <1>19, <1>20 DEF Next, Step

\* The wrapper and the pool keep their inductive invariant.
THEOREM WithTxIInv == Spec => []IInv
BY InitIInv, NextIInv, PTL DEF Spec

\* Every variable keeps its type.
THEOREM WithTxTypeOK == Spec => []TypeOK
<1>1. IInv => TypeOK
  BY DEF IInv
<1> QED
  BY <1>1, WithTxIInv, PTL

\* fn may run many times; its statements are committed for one run at most.
THEOREM WithTxCommittedOnce == Spec => []CommittedOnce
<1>1. IInv => CommittedOnce
  BY DEF IInv, TypeOK, DurableInv, CommittedOnce, Attempts
<1> QED
  BY <1>1, WithTxIInv, PTL

\* A call that was answered success has its last run committed.
THEOREM WithTxSuccessIsDurable == Spec => []SuccessIsDurable
<1>1. IInv => SuccessIsDurable
  BY DEF IInv
<1> QED
  BY <1>1, WithTxIInv, PTL

\* LOCK_TIMEOUT and TX_RETRY_EXHAUSTED mean that nothing was committed.
THEOREM WithTxBuiltErrorsAreDefinite == Spec => []BuiltErrorsAreDefinite
<1>1. IInv => BuiltErrorsAreDefinite
  BY DEF IInv, TypeOK, DurableInv, BuiltErrorsAreDefinite, Attempts
<1> QED
  BY <1>1, WithTxIInv, PTL

\* No statement of a handle reaches a client its attempt does not hold.
THEOREM WithTxStatementsStayInside == Spec => []StatementsStayInside
<1>1. IInv => StatementsStayInside
  BY DEF IInv
<1> QED
  BY <1>1, WithTxIInv, PTL

\* A client that went back to the pool carries nothing over to its next user.
THEOREM WithTxPooledClientsAreClean == Spec => []PooledClientsAreClean
<1>1. IInv => PooledClientsAreClean
  BY DEF IInv
<1> QED
  BY <1>1, WithTxIInv, PTL

\* Each client is in the pool or held by exactly one call.
THEOREM WithTxClientsAccountedFor == Spec => []ClientsAccountedFor
<1>1. IInv => ClientsAccountedFor
  BY DEF IInv
<1> QED
  BY <1>1, WithTxIInv, PTL

----------------------------------------------------------------------------
(* withTx implements AtomicTx.                                             *)

\* The initial states of the wrapper are initial states of AtomicTx.
LEMMA InitImplements == Init => Abstract!Init
BY DEF Init, Abstract!Init, applied

\* The abstract step of each action: Apply when COMMIT takes effect, Answer when
\* the call is answered, a stutter otherwise.
LEMMA NextImplements ==
  IInv /\ [Next]_vars => [Abstract!Next]_<<applied, answer>>
<1> SUFFICES ASSUME IInv, [Next]_vars PROVE [Abstract!Next]_<<applied, answer>>
  OBVIOUS
<1>1. ASSUME UNCHANGED <<durable, answer>> PROVE UNCHANGED <<applied, answer>>
  BY <1>1 DEF applied
<1>2. ASSUME NEW c \in Calls, UNCHANGED answer, durable' = durable \cup work[conn[c]],
             pc[c] = "commit", conn[c] \notin broken
      PROVE  Abstract!Apply(c)
  <2>1. answer[c] = "none" /\ conn[c] \in Clients /\ Attempt(c) \in Attempts
    BY <1>2 DEF IInv, CallInv, TypeOK, Holding, Attempt, Attempts
  <2>2. work[conn[c]] = {Attempt(c)}
    BY <1>2, <2>1 DEF IInv, TypeOK, SessionInv, StatementsStayInside
  <2>3. \A a \in durable : a[1] # c
    BY <1>2 DEF IInv, DurableInv
  <2>4. ~applied[c]
    BY <2>3 DEF applied
  <2>5. applied' = [applied EXCEPT ![c] = TRUE]
    <3>1. \A d \in Calls, n \in Runs :
            <<d, n>> \in durable' <=> <<d, n>> \in durable \/ (d = c /\ n = retries[c])
      BY <1>2, <2>2 DEF Attempt
    <3>2. retries[c] \in Runs
      BY DEF IInv, TypeOK
    <3>3. \A d \in Calls : (\E n \in Runs : <<d, n>> \in durable') <=>
                            IF d = c THEN TRUE ELSE \E n \in Runs : <<d, n>> \in durable
      BY <3>1, <3>2
    <3> QED
      BY <3>3 DEF applied
  <2> QED
    BY <1>2, <2>1, <2>4, <2>5 DEF Abstract!Apply
<1>3. ASSUME NEW c \in Calls, NEW a \in Answers \ {"none"}, answer[c] = "none",
             a = "ok" => Attempt(c) \in durable,
             a \in {"LOCK_TIMEOUT", "TX_RETRY_EXHAUSTED"} => \A b \in durable : b[1] # c,
             answer' = [answer EXCEPT ![c] = a], UNCHANGED durable
      PROVE  Abstract!Answer(c, a)
  <2>1. a = "ok" => applied[c]
    BY <1>3 DEF IInv, TypeOK, Attempt, applied
  <2>2. a \in {"LOCK_TIMEOUT", "TX_RETRY_EXHAUSTED"} => ~applied[c]
    BY <1>3 DEF applied
  <2> QED
    BY <1>1, <1>3, <2>1, <2>2 DEF Abstract!Answer, applied
<1>4. ASSUME NEW c \in Calls, Commit(c) PROVE Abstract!Next
  BY <1>2, <1>4 DEF Commit, Abstract!Next
<1>5. ASSUME NEW c \in Calls, CommitLost(c) PROVE [Abstract!Next]_<<applied, answer>>
  BY <1>1, <1>2, <1>5 DEF CommitLost, Abstract!Next
<1>6. ASSUME NEW c \in Calls, Release(c) PROVE [Abstract!Next]_<<applied, answer>>
  <2>1. pc[c] = "release" /\ answer[c] = "none" /\ UNCHANGED durable
    BY <1>6 DEF Release, IInv, CallInv
  <2>2. CASE Verdict(c) = "retry"
    BY <1>1, <1>6, <2>1, <2>2 DEF Release
  <2>3. CASE Verdict(c) # "retry"
    <3>1. Verdict(c) \in Answers \ {"none"}
      BY <2>3 DEF Verdict, IInv, TypeOK, Failures, Answers
    <3>2. Verdict(c) = "ok" => Attempt(c) \in durable
      BY <2>1 DEF Verdict, IInv, TypeOK, CallInv, Failures
    <3>3. Verdict(c) \in {"LOCK_TIMEOUT", "TX_RETRY_EXHAUSTED"} => \A b \in durable : b[1] # c
      BY DEF Verdict, IInv, TypeOK, DurableInv, Failures
    <3>4. answer' = [answer EXCEPT ![c] = Verdict(c)]
      BY <1>6, <2>3 DEF Release
    <3>5. Abstract!Answer(c, Verdict(c))
      BY <1>3, <2>1, <3>1, <3>2, <3>3, <3>4
    <3> QED
      BY <3>1, <3>5 DEF Abstract!Next, Answers, Abstract!Answers
  <2> QED
    BY <2>2, <2>3
<1>7. ASSUME NEW c \in Calls, ConnectFails(c) PROVE Abstract!Next
  <2>1. answer[c] = "none"
    BY <1>7 DEF ConnectFails, IInv, CallInv
  <2>2. Abstract!Answer(c, "rethrown")
    BY <1>3, <1>7, <2>1 DEF ConnectFails, server, Answers
  <2> QED
    BY <2>2 DEF Abstract!Next, Abstract!Answers
<1>8. ASSUME NEW h \in Handles, Query(h) PROVE UNCHANGED <<applied, answer>>
  <2>1. conn[h[1]] = h[3] /\ retries[h[1]] = h[2] /\ pc[h[1]] = "fn" /\ h[1] \in Calls
    BY <1>8 DEF Query, Handles, IInv, StatementsStayInside
  <2>2. session[h[3]] = "active"
    BY <1>8, <2>1 DEF Query, Handles, IInv, TypeOK, SessionInv
  <2> QED
    BY <1>1, <1>8, <2>2 DEF Query, call
<1>9. ASSUME NEW h \in Handles, QueryFails(h) \/ RollbackToSavepoint(h)
      PROVE  UNCHANGED <<applied, answer>>
  BY <1>1, <1>9 DEF QueryFails, RollbackToSavepoint, call
<1>10. ASSUME NEW c \in Calls,
              \/ Connect(c) \/ Begin(c) \/ SetLockTimeout(c) \/ OpeningFails(c)
              \/ FnResolves(c) \/ FnThrows(c) \/ CommitRefused(c)
              \/ CommitRolledBack(c) \/ Rollback(c) \/ RollbackFails(c)
              \/ Retry(c) \/ ClientError(c)
       PROVE  UNCHANGED <<applied, answer>>
  BY <1>1, <1>10
  DEF Connect, Begin, SetLockTimeout, OpeningFails, FnResolves, FnThrows, CommitRefused,
      CommitRolledBack, Rollback, RollbackFails, Retry, ClientError, server
<1>11. CASE UNCHANGED vars
  BY <1>1, <1>11 DEF vars, call, server
<1> QED
  BY <1>4, <1>5, <1>6, <1>7, <1>8, <1>9, <1>10, <1>11 DEF Next, Step

\* Every behaviour of the wrapper is one of AtomicTx: to its caller a call is
\* one atomic effect and one answer.
THEOREM WithTxImplementsAtomicTx == Spec => AtomicSpec
BY InitImplements, NextImplements, WithTxIInv, PTL
DEF Spec, AtomicSpec, Abstract!Spec

----------------------------------------------------------------------------
(* The lock order and the clock                                            *)


\* A helper with a place in a mode has a rank above 0, and one without has 0.
LEMMA RankIsNat ==
  ASSUME NEW m \in Modes, NEW h \in Helpers
  PROVE  RankOf(m, h) \in Nat /\ (RankOf(m, h) # 0 <=> Places[h][m] # NoName)
<1>1. CASE Places[h][m] = NoName
  BY <1>1 DEF RankOf
<1>2. CASE Places[h][m] # NoName
  <2>1. \E i \in DOMAIN Orders[m] : Orders[m][i] = Places[h][m]
    BY <1>2, PlanAssumption DEF ValidPlan
  <2>2. DOMAIN Orders[m] \subseteq Nat \ {0}
    BY LockAssumption
  <2> QED
    BY <1>2, <2>1, <2>2 DEF RankOf
<1> QED
  BY <1>1, <1>2

\* Kinds of calls are told apart by kind.
LEMMA CallKinds ==
  /\ Idle \notin LockCalls /\ ClockCall \notin LockCalls /\ Idle # ClockCall
  /\ \A c \in LockCalls : c.kind \in {"lock", "try", "claim"} /\ c.row \in Rows /\ c.rank \in Nat
BY DEF Idle, ClockCall, LockCalls

\* LockInit establishes the invariant: no lock is held and no clock is bound.
LEMMA InitLocks == LockInit => LockIInv
<1> SUFFICES ASSUME LockInit PROVE LockIInv
  OBVIOUS
<1>1. DefaultMode \in Modes
  BY PlanAssumption DEF ValidPlan
<1>2. LockTypeOK
  BY <1>1, LockAssumption DEF LockInit, LockTypeOK, Statements, Idle, None
<1>3. RankInv
  BY CallKinds DEF LockInit, RankInv, RankOk
<1>4. ClockInv
  BY CallKinds, LockAssumption DEF LockInit, ClockInv, ClockOk, None
<1> QED
  BY <1>2, <1>3, <1>4 DEF LockIInv

\* What a step of t leaves of another transaction u.
Untouched(u) ==
  /\ mode'[u] = mode[u] /\ check'[u] = check[u] /\ rank'[u] = rank[u]
  /\ clock'[u] = clock[u] /\ locked'[u] = locked[u]
  /\ pending'[u] = pending[u] /\ instant'[u] = instant[u]
  /\ running'[u] = running[u] /\ queued'[u] = queued[u] /\ lock'[u] = lock[u]
  /\ floor'[u] = floor[u] /\ loose'[u] = loose[u]

\* The invariant of a transaction whose state and locks a step leaves alone.
LEMMA Frame ==
  ASSUME NEW u \in Txs, Untouched(u), now' = now, RankOk(u), ClockOk(u)
  PROVE  RankOk(u)' /\ ClockOk(u)'
BY DEF Untouched, RankOk, ClockOk

\* tracker.track of a transaction keeps the invariant.
LEMMA TrackIInv ==
  ASSUME LockIInv, NEW t \in Txs, Track(t) PROVE LockIInv'
<1> USE DEF LockIInv, Track, slot, lockServer
<1>1. LockTypeOK'
  BY DEF LockTypeOK, Switch
<1>2. ASSUME NEW u \in Txs \ {t} PROVE Untouched(u)
  BY DEF LockTypeOK, Untouched
<1>3. RankOk(t)'
  <2>1. check'[t] = "off" => loose'[t]
    BY DEF LockTypeOK, Switch
  <2>2. ASSUME ~loose'[t] PROVE ~loose[t] /\ running'[t] = Idle /\ queued'[t] = Idle
    BY <2>2, ZenonT(40) DEF LockTypeOK, RankInv, RankOk
  <2>3. ASSUME ~loose[t], NEW x \in lock[t] PROVE HelperOf[x] = NoName
    <3>1. x \in Rows /\ rank[t] = 0
      BY <2>3 DEF LockTypeOK
    <3>2. HelperOf[x] # NoName => RankOf(mode[t], HelperOf[x]) \in Nat
      BY <3>1, RankIsNat, LockAssumption DEF LockTypeOK
    <3> QED
      BY <2>3, <3>1, <3>2 DEF RankInv, RankOk
  <2> QED
    BY <2>1, <2>2, <2>3, CallKinds DEF RankOk
<1>4. ClockOk(t)'
  BY DEF ClockInv, ClockOk
<1> QED
  BY <1>1, <1>2, <1>3, <1>4, Frame DEF RankInv, ClockInv

\* So does a lock helper that is admitted and sent.
LEMMA LockCallIInv ==
  ASSUME LockIInv, NEW t \in Txs, NEW x \in Rows, NEW kind \in {"lock", "try"}, Lock(t, x, kind)
  PROVE  LockIInv'
<1> DEFINE h == HelperOf[x]
           r == RankOf(mode[t], h)
           c == [kind |-> kind, row |-> x, rank |-> r]
<1>1. h \in Helpers /\ mode[t] \in Modes /\ r \in Nat
  BY LockAssumption, RankIsNat DEF Lock, LockIInv, LockTypeOK
<1>2. c \in LockCalls /\ c # Idle /\ c # ClockCall
  BY <1>1 DEF LockCalls, Idle, ClockCall
<1>3. CheckOf(t) \in {"on", "off"}
  BY LockAssumption DEF CheckOf, LockIInv, LockTypeOK
<1>4. rank' \in [Txs -> Nat] /\ \A u \in Txs : u # t => rank'[u] = rank[u]
  BY <1>1 DEF Lock, Record, Max2, LockIInv, LockTypeOK
<1>5. /\ running' \in [Txs -> Statements] /\ queued' \in [Txs -> Statements]
      /\ \A u \in Txs : u # t => running'[u] = running[u] /\ queued'[u] = queued[u]
  BY <1>2 DEF Lock, Send, LockIInv, LockTypeOK, Statements
<1>6. LockTypeOK'
  BY <1>1, <1>3, <1>4, <1>5 DEF Lock, slot, LockIInv, LockTypeOK
<1>7. ASSUME NEW u \in Txs \ {t} PROVE Untouched(u)
  BY <1>4, <1>5 DEF Lock, slot, LockIInv, LockTypeOK, Untouched
<1>8. RankOk(t)'
  <2>1. check'[t] = CheckOf(t) /\ (check'[t] = "off" => loose'[t])
    BY DEF Lock, LockIInv, LockTypeOK
  <2>2. SUFFICES ASSUME ~loose'[t] PROVE RankOk(t)'
    BY <2>1 DEF RankOk
  <2>3. ~loose[t] /\ CheckOf(t) = "on" /\ running[t] = Idle /\ queued[t] = Idle
    BY <1>3, <2>2 DEF Lock, LockIInv, LockTypeOK, RankInv, RankOk
  <2>4. r > 0 /\ r >= rank[t]
    BY <1>1, <2>3 DEF Lock, Admits, LockIInv, LockTypeOK
  <2>5. rank'[t] \in Nat /\ rank'[t] >= rank[t] /\ (kind = "lock" => rank'[t] = r)
    BY <1>1, <2>4, SMTT(30) DEF Lock, Record, Max2, LockIInv, LockTypeOK
  <2>6. running'[t] = c /\ queued'[t] = Idle /\ lock' = lock /\ mode' = mode
    BY <2>3 DEF Lock, Send, LockIInv, LockTypeOK
  <2>7. ASSUME NEW y \in Rows, y \in lock[t], HelperOf[y] # NoName
        PROVE  0 < RankOf(mode[t], HelperOf[y]) /\ RankOf(mode[t], HelperOf[y]) <= rank'[t]
    <3>1. RankOf(mode[t], HelperOf[y]) \in Nat
      BY <1>1, <2>7, RankIsNat, LockAssumption
    <3> QED
      BY <2>3, <2>5, <2>7, <3>1 DEF LockIInv, LockTypeOK, RankInv, RankOk
  <2>8. h # NoName
    BY DEF Lock
  <2> QED
    BY <1>2, <2>1, <2>4, <2>5, <2>6, <2>7, <2>8 DEF RankOk
<1>9. ClockOk(t)'
  BY <1>2 DEF Lock, Send, slot, LockIInv, LockTypeOK, ClockInv, ClockOk
<1> QED
  BY <1>6, <1>7, <1>8, <1>9, Frame DEF LockIInv, RankInv, ClockInv, Lock

\* So does claimRowsSkipLocked, which never waits.
LEMMA ClaimIInv ==
  ASSUME LockIInv, NEW t \in Txs, NEW x \in Rows, Claim(t, x) PROVE LockIInv'
<1> DEFINE c == [kind |-> "claim", row |-> x, rank |-> 0]
<1> USE DEF LockIInv, tracker, slot
<1>1. c \in LockCalls /\ c # Idle /\ c # ClockCall
  BY DEF LockCalls, Idle, ClockCall
<1>2. /\ running' \in [Txs -> Statements] /\ queued' \in [Txs -> Statements]
      /\ \A u \in Txs : u # t => running'[u] = running[u] /\ queued'[u] = queued[u]
  BY <1>1 DEF Claim, Send, LockTypeOK, Statements
<1>3. LockTypeOK'
  BY <1>2 DEF Claim, LockTypeOK
<1>4. ASSUME NEW u \in Txs \ {t} PROVE Untouched(u)
  BY <1>2 DEF Claim, LockTypeOK, Untouched
<1>5. RankOk(t)'
  <2>1. check'[t] = "off" => loose'[t]
    BY DEF Claim, LockTypeOK, RankInv, RankOk
  <2>2. ASSUME ~loose'[t]
        PROVE  ~loose[t] /\ running'[t] = c /\ queued'[t] = Idle
    BY <2>2 DEF Claim, Send, LockTypeOK, RankInv, RankOk
  <2> QED
    BY <2>1, <2>2 DEF Claim, LockTypeOK, RankInv, RankOk
<1>6. ClockOk(t)'
  BY <1>1 DEF Claim, Send, LockTypeOK, ClockInv, ClockOk
<1> QED
  BY <1>3, <1>4, <1>5, <1>6, Frame DEF RankInv, ClockInv, Claim

\* So does createDbClock.
LEMMA BindIInv ==
  ASSUME LockIInv, NEW t \in Txs, Bind(t) PROVE LockIInv'
<1> USE DEF LockIInv, Bind, tracker, lockServer
<1>1. LockTypeOK'
  BY DEF LockTypeOK
<1>2. ASSUME NEW u \in Txs \ {t} PROVE Untouched(u)
  BY DEF LockTypeOK, Untouched
<1>3. RankOk(t)' /\ ClockOk(t)'
  BY DEF LockTypeOK, RankInv, RankOk, ClockInv, ClockOk
<1> QED
  BY <1>1, <1>2, <1>3, Frame DEF RankInv, ClockInv

\* So does clock.read, which starts one statement at most.
LEMMA ReadIInv ==
  ASSUME LockIInv, NEW t \in Txs, Read(t) PROVE LockIInv'
<1> USE DEF LockIInv, Read, tracker
<1>1. /\ running' \in [Txs -> Statements] /\ queued' \in [Txs -> Statements]
      /\ \A u \in Txs : u # t => running'[u] = running[u] /\ queued'[u] = queued[u]
  BY DEF Send, LockTypeOK, Statements
<1>2. LockTypeOK'
  BY <1>1 DEF LockTypeOK
<1>3. ASSUME NEW u \in Txs \ {t} PROVE Untouched(u)
  BY <1>1 DEF LockTypeOK, Untouched
<1>4. RankOk(t)'
  <2>1. ASSUME ~loose'[t]
        PROVE  ~loose[t] /\ running'[t] = ClockCall /\ queued'[t] = Idle
    BY <2>1 DEF Send, LockTypeOK, RankInv, RankOk
  <2> QED
    BY <2>1, CallKinds DEF LockTypeOK, RankInv, RankOk
<1>5. ClockOk(t)'
  BY CallKinds DEF MayRead, Needs, Send, LockTypeOK, ClockInv, ClockOk
<1> QED
  BY <1>2, <1>3, <1>4, <1>5, Frame DEF RankInv, ClockInv

\* The next statement of a client, whatever it is made to send last.
LEMMA AdvanceTypes ==
  ASSUME LockTypeOK, NEW t \in Txs, NEW last \in {Idle, ClockCall}, Advance(t, last)
  PROVE  /\ running' \in [Txs -> Statements] /\ queued' \in [Txs -> Statements]
         /\ \A u \in Txs : u # t => running'[u] = running[u] /\ queued'[u] = queued[u]
         /\ queued[t] = Idle => running'[t] = last /\ queued'[t] = Idle
         /\ queued[t] # Idle => running'[t] = queued[t] /\ queued'[t] = last
BY DEF Advance, LockTypeOK, Statements

\* So does the answer or the failure of that statement.
LEMMA ReadEndsIInv ==
  ASSUME LockIInv, NEW t \in Txs, ReadAnswered(t) \/ ReadFails(t) PROVE LockIInv'
<1> USE DEF LockIInv, tracker
<1>1. Advance(t, Idle) /\ running[t] = ClockCall
  BY DEF ReadAnswered, ReadFails
<1>2. /\ running' \in [Txs -> Statements] /\ queued' \in [Txs -> Statements]
      /\ \A u \in Txs : u # t => running'[u] = running[u] /\ queued'[u] = queued[u]
  BY <1>1, AdvanceTypes
<1>3. LockTypeOK'
  <2>1. instant' \in [Txs -> Nat \cup {None}] /\ pending' \in [Txs -> {"none", "running", "done", "failed"}]
    BY LockAssumption DEF ReadAnswered, ReadFails, LockTypeOK
  <2> QED
    BY <1>2, <2>1 DEF ReadAnswered, ReadFails, LockTypeOK
<1>4. ASSUME NEW u \in Txs \ {t} PROVE Untouched(u)
  BY <1>2 DEF ReadAnswered, ReadFails, LockTypeOK, Untouched
<1>5. RankOk(t)'
  <2>1. ASSUME ~loose'[t]
        PROVE  ~loose[t] /\ running'[t] = Idle /\ queued'[t] = Idle
    BY <1>1, <2>1, AdvanceTypes DEF ReadAnswered, ReadFails, RankInv, RankOk
  <2> QED
    BY <2>1, CallKinds DEF ReadAnswered, ReadFails, LockTypeOK, RankInv, RankOk
<1>6. ClockOk(t)'
  <2>1. running'[t] # ClockCall /\ queued'[t] # ClockCall
    BY <1>1, AdvanceTypes, CallKinds DEF ClockInv, ClockOk
  <2> QED
    BY <1>1, <2>1, LockAssumption
    DEF ReadAnswered, ReadFails, LockTypeOK, ClockInv, ClockOk, None
<1> QED
  BY <1>3, <1>4, <1>5, <1>6, Frame DEF ReadAnswered, ReadFails, RankInv, ClockInv

\* The answer to a lock statement, with a row or without.
LEMMA GrantedIInv ==
  ASSUME LockIInv, NEW t \in Txs, Granted(t) PROVE LockIInv'
<1> DEFINE c == running[t]
<1> USE DEF LockIInv
<1>1. c \in LockCalls /\ c.kind \in {"lock", "try", "claim"} /\ c.row \in Rows /\ c.rank \in Nat
  BY CallKinds DEF Granted
<1>2. PICK last \in {Idle, ClockCall} :
        /\ Advance(t, last)
        /\ last = ClockCall => clock[t] # "none" /\ pending[t] = "none" /\ pending'[t] = "running"
        /\ last = Idle => pending' = pending
        /\ pending' \in [Txs -> {"none", "running", "done", "failed"}]
        /\ \A u \in Txs : u # t => pending'[u] = pending[u]
  <2>1. CASE clock[t] # "none" /\ Needs(t)
    BY <2>1, CallKinds DEF Granted, LockTaken, Needs, LockTypeOK
  <2>2. CASE ~(clock[t] # "none" /\ Needs(t))
    BY <2>2, CallKinds DEF Granted, LockTaken, LockTypeOK
  <2> QED
    BY <2>1, <2>2
<1>3. /\ running' \in [Txs -> Statements] /\ queued' \in [Txs -> Statements]
      /\ \A u \in Txs : u # t => running'[u] = running[u] /\ queued'[u] = queued[u]
  BY <1>2, AdvanceTypes
<1>4. /\ rank' \in [Txs -> Nat] /\ rank'[t] >= rank[t]
      /\ c.kind = "try" => rank'[t] >= c.rank
      /\ \A u \in Txs : u # t => rank'[u] = rank[u]
  BY <1>1 DEF Granted, Record, Max2, LockTypeOK
<1>5. LockTypeOK'
  BY <1>1, <1>2, <1>3, <1>4 DEF Granted, LockTaken, LockTypeOK
<1>6. ASSUME NEW u \in Txs \ {t} PROVE Untouched(u)
  BY <1>2, <1>3, <1>4 DEF Granted, LockTaken, LockTypeOK, Untouched
<1>7. RankOk(t)'
  <2>1. check'[t] = "off" => loose'[t]
    BY <1>1 DEF Granted, RankInv, RankOk
  <2>2. SUFFICES ASSUME ~loose'[t] PROVE RankOk(t)'
    BY <2>1 DEF RankOk
  <2>3. ~loose[t] /\ queued[t] = Idle /\ RankOk(t) /\ mode' = mode
    BY <2>2 DEF Granted, RankInv, RankOk
  <2>4. running'[t] \in {Idle, ClockCall} /\ queued'[t] = Idle
    BY <1>2, <2>3, AdvanceTypes
  <2>5. ASSUME NEW x \in Rows, x \in lock'[t], HelperOf[x] # NoName
        PROVE  0 < RankOf(mode[t], HelperOf[x]) /\ RankOf(mode[t], HelperOf[x]) <= rank'[t]
    <3>1. RankOf(mode[t], HelperOf[x]) \in Nat
      BY <2>5, RankIsNat, LockAssumption DEF LockTypeOK
    <3>2. CASE x \in lock[t]
      BY <1>4, <2>3, <2>5, <3>1, <3>2 DEF RankOk, LockTypeOK
    <3>3. CASE x = c.row
      <4>1. c.kind \in {"lock", "try"} /\ c.rank = RankOf(mode[t], HelperOf[x]) /\ c.rank > 0
        BY <1>1, <2>3, <2>5, <3>3 DEF RankOk
      <4>2. c.kind = "lock" => c.rank = rank[t]
        BY <1>1, <2>3, <4>1 DEF RankOk
      <4> QED
        BY <1>1, <1>4, <4>1, <4>2 DEF LockTypeOK
    <3> QED
      BY <2>5, <3>2, <3>3 DEF Granted, LockTypeOK
  <2> QED
    BY <2>1, <2>3, <2>4, <2>5, CallKinds DEF RankOk
<1>8. ClockOk(t)'
  <2>1. running[t] # ClockCall /\ ClockOk(t)
    BY <1>1, CallKinds DEF ClockInv
  <2>2. last = ClockCall => queued[t] # ClockCall
    BY <1>2, <2>1 DEF ClockOk
  <2>3. running'[t] = ClockCall \/ queued'[t] = ClockCall => pending'[t] = "running"
    BY <1>2, <2>1, AdvanceTypes, CallKinds DEF ClockOk
  <2>4. running'[t] = ClockCall => queued'[t] # ClockCall
    BY <1>2, <2>1, <2>2, AdvanceTypes, CallKinds DEF ClockOk
  <2>5. floor'[t] <= now' /\ (locked[t] => floor'[t] = floor[t])
    BY <1>1, <2>1 DEF Granted, LockTypeOK, ClockInv, ClockOk
  <2>6. locked'[t] = TRUE /\ clock' = clock /\ instant' = instant /\ now' = now
    BY DEF Granted, LockTaken, LockTypeOK
  <2>7. clock[t] = "write" /\ instant[t] # None => locked[t]
    BY <2>1 DEF ClockOk
  <2> QED
    BY <1>2, <2>1, <2>3, <2>4, <2>5, <2>6, <2>7 DEF ClockOk
<1> QED
  BY <1>5, <1>6, <1>7, <1>8, Frame DEF Granted, RankInv, ClockInv

\* So does a lock statement that finds no row.
LEMMA NoRowIInv ==
  ASSUME LockIInv, NEW t \in Txs, NoRow(t) PROVE LockIInv'
<1> USE DEF LockIInv, NoRow, tracker, slot
<1>1. Advance(t, Idle) /\ running[t] \in LockCalls
  OBVIOUS
<1>2. /\ running' \in [Txs -> Statements] /\ queued' \in [Txs -> Statements]
      /\ \A u \in Txs : u # t => running'[u] = running[u] /\ queued'[u] = queued[u]
  BY <1>1, AdvanceTypes
<1>3. LockTypeOK'
  BY <1>2 DEF LockTypeOK
<1>4. ASSUME NEW u \in Txs \ {t} PROVE Untouched(u)
  BY <1>2 DEF LockTypeOK, Untouched
<1>5. RankOk(t)'
  BY <1>1, AdvanceTypes, CallKinds DEF RankInv, RankOk
<1>6. ClockOk(t)'
  BY <1>1, AdvanceTypes, CallKinds DEF ClockInv, ClockOk
<1> QED
  BY <1>3, <1>4, <1>5, <1>6, Frame DEF RankInv, ClockInv

\* So does the end of a transaction, which frees its locks.
LEMMA EndIInv ==
  ASSUME LockIInv, NEW t \in Txs, End(t) PROVE LockIInv'
<1> USE DEF LockIInv, End
<1>1. LockTypeOK'
  BY LockAssumption, PlanAssumption DEF LockTypeOK, ValidPlan, Statements
<1>2. ASSUME NEW u \in Txs \ {t} PROVE Untouched(u)
  BY DEF LockTypeOK, Untouched
<1>3. RankOk(t)'
  BY CallKinds DEF LockTypeOK, RankOk
<1>4. ClockOk(t)'
  BY CallKinds, LockAssumption DEF LockTypeOK, ClockOk, None
<1>5. \A x \in Rows : freed'[x] <= now'
  BY LockAssumption DEF LockTypeOK, ClockInv
<1> QED
  BY <1>1, <1>2, <1>3, <1>4, <1>5, Frame DEF RankInv, ClockInv

\* So does the clock of the server.
LEMMA TickIInv ==
  ASSUME LockIInv, Tick PROVE LockIInv'
<1> USE DEF LockIInv, Tick, tracker, slot
<1>1. LockTypeOK'
  BY LockAssumption DEF LockTypeOK
<1>2. RankInv'
  BY DEF RankInv, RankOk
<1>3. ClockInv'
  BY LockAssumption DEF LockTypeOK, ClockInv, ClockOk, None
<1> QED
  BY <1>1, <1>2, <1>3

\* The lock order and the clock keep their invariant.
LEMMA NextLocks == LockIInv /\ [LockNext]_lockVars => LockIInv'
<1> SUFFICES ASSUME LockIInv, [LockNext]_lockVars PROVE LockIInv'
  OBVIOUS
<1>1. CASE UNCHANGED lockVars
  BY <1>1
  DEF lockVars, tracker, slot, lockServer, LockIInv, LockTypeOK, RankInv, RankOk, ClockInv, ClockOk
<1>2. CASE LockNext
  BY <1>2, TickIInv, TrackIInv, LockCallIInv, ClaimIInv, BindIInv, ReadIInv, ReadEndsIInv,
     GrantedIInv, NoRowIInv, EndIInv
  DEF LockNext
<1> QED
  BY <1>1, <1>2

\* The invariant the lock order and the clock rest on.
THEOREM LockOrderIInv == LockSpec => []LockIInv
BY InitLocks, NextLocks, PTL DEF LockSpec

\* createLockOrderTracker: among disciplined transactions of one mode nobody
\* waits for a row of a higher rank than the row its blocker waits for.
THEOREM LockOrderWaitsNeverDescend == LockSpec => []WaitsNeverDescend
<1>1. LockIInv => WaitsNeverDescend
  <2> SUFFICES ASSUME LockIInv, NEW t \in Txs, NEW u \in Txs,
                      ~loose[t], ~loose[u], mode[t] = mode[u], WaitsFor(t, u),
                      running[u] # Idle, running[u].kind = "lock"
               PROVE  running[t].rank <= running[u].rank
    BY DEF WaitsNeverDescend
  <2>1. running[t] \in LockCalls /\ running[t].row \in lock[u] /\ running[t].kind = "lock"
    BY DEF WaitsFor, Blocks
  <2>2. running[u] \in LockCalls
    BY DEF LockIInv, LockTypeOK, Statements, ClockCall
  <2>3. /\ HelperOf[running[t].row] # NoName
        /\ running[t].rank = RankOf(mode[t], HelperOf[running[t].row])
    BY <2>1, CallKinds DEF LockIInv, RankInv, RankOk
  <2>4. running[u].rank = rank[u]
    BY <2>2, CallKinds DEF LockIInv, RankInv, RankOk
  <2> QED
    BY <2>1, <2>3, <2>4, CallKinds DEF LockIInv, RankInv, RankOk
<1> QED
  BY <1>1, LockOrderIInv, PTL

\* createDbClock: the instant of a write is not before the end of any
\* transaction that held the first locked row before.
THEOREM LockOrderInstantAfterFirstLock == LockSpec => []InstantAfterFirstLock
<1>1. LockIInv => InstantAfterFirstLock
  BY DEF LockIInv, ClockInv, ClockOk, InstantAfterFirstLock
<1> QED
  BY <1>1, LockOrderIInv, PTL

\* createDbClock: the instant of a transaction does not change while it lasts.
THEOREM LockOrderOneInstant == LockSpec => OneInstant
<1>1. ASSUME LockIInv, [LockNext]_lockVars
      PROVE  [\A t \in Txs : instant[t] # None /\ instant'[t] # instant[t] => clock'[t] = "none"]_lockVars
  <2> SUFFICES ASSUME LockNext, NEW t \in Txs, instant[t] # None, instant'[t] # instant[t]
               PROVE  clock'[t] = "none"
    BY <1>1
  <2>1. pending[t] = "done"
    BY <1>1 DEF LockIInv, ClockInv, ClockOk
  <2>2. running[t] # ClockCall
    BY <1>1, <2>1 DEF LockIInv, ClockInv, ClockOk
  <2>3. CASE Tick
    BY <2>3 DEF Tick, slot
  <2>4. ASSUME NEW u \in Txs, End(u) PROVE clock'[t] = "none"
    BY <1>1, <2>4 DEF End, LockIInv, LockTypeOK
  <2>5. ASSUME NEW u \in Txs, ReadAnswered(u) PROVE FALSE
    BY <1>1, <2>2, <2>5 DEF ReadAnswered, LockIInv, LockTypeOK
  <2>6. ASSUME NEW u \in Txs, NEW x \in Rows, NEW kind \in {"lock", "try"},
               Lock(u, x, kind) \/ Claim(u, x)
        PROVE  FALSE
    BY <2>6 DEF Lock, Claim, slot
  <2>7. ASSUME NEW u \in Txs,
               Track(u) \/ Bind(u) \/ Read(u) \/ ReadFails(u) \/ Granted(u) \/ NoRow(u)
        PROVE  FALSE
    BY <2>7 DEF Track, Bind, Read, ReadFails, Granted, NoRow, slot
  <2> QED
    BY <2>3, <2>4, <2>5, <2>6, <2>7 DEF LockNext
<1> QED
  BY <1>1, LockOrderIInv, PTL DEF LockSpec, OneInstant
==============================================================================
