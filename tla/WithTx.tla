------------------------------- MODULE WithTx -------------------------------
(***************************************************************************)
(* withTx, the transaction wrapper of the PostgreSQL kit: runTxWithRetries *)
(* (the loop), runTxAttempt (one connection, one transaction), runTxBody   *)
(* (BEGIN to the answer of COMMIT) and txHandle (what fn may query with).  *)
(* Several calls share one pool; fn is any sequence of statements that may *)
(* fail, swallow failures, leave statements behind or throw.               *)
(*                                                                         *)
(* External: the node-postgres pool and client and the server, as far as   *)
(* this code depends on them.  A client runs its queries in the order they *)
(* are issued, so a statement is executed where it is sent.                *)
(***************************************************************************)
EXTENDS Integers

CONSTANTS
  Calls,       \* calls of withTx
  Clients,     \* slots of the pool
  NoClient,
  RetryMax     \* settings.retryMax

ASSUME WithTxAssumption == NoClient \notin Clients /\ RetryMax \in Nat

Runs == 0 .. RetryMax
Attempts == Calls \X Runs          \* the attempt <<c, retries>> of a call

\* What sqlstateOf tells apart: 40001 and 40P01, 55P03, everything else.
Failures == {"retryable", "lockTimeout", "other"}

VARIABLES
  pc,        \* where each call stands
  retries,   \* retries already made
  conn,      \* the client the attempt holds
  destroy,   \* the attempt's destroy flag
  failure,   \* state.failure: the class of the first failed statement, or "none"
  thrown,    \* the class of the error the attempt throws, or "none"
  answer,    \* what withTx answered
  open,      \* <<c, a, cl>>: handle of attempt <<c, a>>, still open, querying on cl
  idle,      \* clients in the pool
  broken,    \* clients whose connection is lost
  session,   \* the server's side of each client: "none", "active" or "aborted"
  work,      \* attempts with statements in the open transaction of each client
  durable    \* attempts whose statements were committed

call == <<pc, retries, conn, destroy, failure, thrown, answer, open>>
server == <<idle, broken, session, work, durable>>
vars == <<call, server>>

PCs == {"connect", "begin", "set", "fn", "commit", "rollback", "release", "delay", "done"}
Holding == {"begin", "set", "fn", "commit", "rollback", "release"}
Answers == {"none", "ok", "LOCK_TIMEOUT", "TX_RETRY_EXHAUSTED", "rethrown"}

TypeOK ==
  /\ pc \in [Calls -> PCs]
  /\ retries \in [Calls -> Runs]
  /\ conn \in [Calls -> Clients \cup {NoClient}]
  /\ destroy \in [Calls -> BOOLEAN]
  /\ failure \in [Calls -> Failures \cup {"none"}]
  /\ thrown \in [Calls -> Failures \cup {"none"}]
  /\ answer \in [Calls -> Answers]
  /\ open \subseteq Calls \X Runs \X Clients
  /\ idle \subseteq Clients
  /\ broken \subseteq Clients
  /\ session \in [Clients -> {"none", "active", "aborted"}]
  /\ work \in [Clients -> SUBSET Attempts]
  /\ durable \subseteq Attempts

Init ==
  /\ pc = [c \in Calls |-> "connect"]
  /\ retries = [c \in Calls |-> 0]
  /\ conn = [c \in Calls |-> NoClient]
  /\ destroy = [c \in Calls |-> FALSE]
  /\ failure = [c \in Calls |-> "none"]
  /\ thrown = [c \in Calls |-> "none"]
  /\ answer = [c \in Calls |-> "none"]
  /\ open = {}
  /\ idle = Clients
  /\ broken = {}
  /\ session = [cl \in Clients |-> "none"]
  /\ work = [cl \in Clients |-> {}]
  /\ durable = {}

----------------------------------------------------------------------------
Goto(c, place) == pc' = [pc EXCEPT ![c] = place]
Attempt(c) == <<c, retries[c]>>
HandleOf(c) == <<c, retries[c], conn[c]>>

\* The session of a client leaves its transaction without a commit.
EndSession(cl) ==
  /\ session' = [session EXCEPT ![cl] = "none"]
  /\ work' = [work EXCEPT ![cl] = {}]

\* runTxBody rejects: the catch of runTxAttempt closes the handle at once.
Fail(c, f) ==
  /\ thrown' = [thrown EXCEPT ![c] = f]
  /\ open' = open \ {HandleOf(c)}
  /\ Goto(c, "rollback")

\* pool.connect() and the handle state of a new attempt.
Connect(c) ==
  /\ pc[c] = "connect"
  /\ \E cl \in idle :
       /\ idle' = idle \ {cl}
       /\ conn' = [conn EXCEPT ![c] = cl]
  /\ destroy' = [destroy EXCEPT ![c] = FALSE]
  /\ failure' = [failure EXCEPT ![c] = "none"]
  /\ thrown' = [thrown EXCEPT ![c] = "none"]
  /\ Goto(c, "begin")
  /\ UNCHANGED <<retries, answer, open, broken, session, work, durable>>

\* pool.connect() rejects (no client to be had): rethrown as it is.
ConnectFails(c) ==
  /\ pc[c] = "connect"
  /\ answer' = [answer EXCEPT ![c] = "rethrown"]
  /\ Goto(c, "done")
  /\ UNCHANGED <<retries, conn, destroy, failure, thrown, open, server>>

Begin(c) ==
  /\ pc[c] = "begin"
  /\ conn[c] \notin broken
  /\ session' = [session EXCEPT ![conn[c]] = "active"]
  /\ work' = [work EXCEPT ![conn[c]] = @ \cup {Attempt(c)}]
  /\ Goto(c, "set")
  /\ UNCHANGED <<retries, conn, destroy, failure, thrown, answer, open,
                 idle, broken, durable>>

\* SET LOCAL lock_timeout; fn gets its handle.
SetLockTimeout(c) ==
  /\ pc[c] = "set"
  /\ conn[c] \notin broken
  /\ open' = open \cup {HandleOf(c)}
  /\ Goto(c, "fn")
  /\ UNCHANGED <<retries, conn, destroy, failure, thrown, answer, server>>

\* One of the two opening statements fails.
OpeningFails(c) ==
  /\ pc[c] \in {"begin", "set"}
  /\ \E f \in Failures : Fail(c, f)
  /\ UNCHANGED <<retries, conn, destroy, failure, answer, server>>

----------------------------------------------------------------------------
(* fn, and whatever it left running: tx.query through an open handle.      *)

\* The statement succeeds.  Outside a transaction it would commit by itself.
Query(h) ==
  LET a == <<h[1], h[2]>>
      cl == h[3]
  IN /\ h \in open
     /\ cl \notin broken
     /\ session[cl] # "aborted"
     /\ IF session[cl] = "active"
        THEN work' = [work EXCEPT ![cl] = @ \cup {a}] /\ UNCHANGED durable
        ELSE durable' = durable \cup {a} /\ UNCHANGED work
     /\ UNCHANGED <<call, idle, broken, session>>

\* The statement fails: the server aborts the transaction, and the handle
\* remembers the first failure, whether fn swallows it or not.
QueryFails(h) ==
  /\ h \in open
  /\ session' = [session EXCEPT ![h[3]] = IF @ = "active" THEN "aborted" ELSE @]
  /\ \E f \in Failures :
       /\ f # "other" => session[h[3]] = "active"
       /\ failure' = [failure EXCEPT ![h[1]] = IF @ = "none" THEN f ELSE @]
  /\ UNCHANGED <<pc, retries, conn, destroy, thrown, answer, open,
                 idle, broken, work, durable>>

\* fn goes back to a savepoint it had set.
RollbackToSavepoint(h) ==
  /\ h \in open
  /\ h[3] \notin broken
  /\ session[h[3]] = "aborted"
  /\ session' = [session EXCEPT ![h[3]] = "active"]
  /\ UNCHANGED <<call, idle, broken, work, durable>>

\* fn resolves: the handle is closed before COMMIT is sent.
FnResolves(c) ==
  /\ pc[c] = "fn"
  /\ open' = open \ {HandleOf(c)}
  /\ Goto(c, "commit")
  /\ UNCHANGED <<retries, conn, destroy, failure, thrown, answer, server>>

\* fn throws the failure of one of its statements (the first or a later one),
\* or an error of its own.
FnThrows(c) ==
  /\ pc[c] = "fn"
  /\ \E f \in Failures :
       /\ f # "other" => failure[c] # "none"
       /\ Fail(c, f)
  /\ UNCHANGED <<retries, conn, destroy, failure, answer, server>>

----------------------------------------------------------------------------
(* COMMIT, ROLLBACK and the connection.                                    *)

Commit(c) ==
  /\ pc[c] = "commit"
  /\ conn[c] \notin broken
  /\ session[conn[c]] = "active"
  /\ durable' = durable \cup work[conn[c]]
  /\ EndSession(conn[c])
  /\ Goto(c, "release")
  /\ UNCHANGED <<retries, conn, destroy, failure, thrown, answer, open, idle, broken>>

\* The server refuses the commit: a serialisation failure, a deferred constraint.
CommitRefused(c) ==
  /\ pc[c] = "commit"
  /\ conn[c] \notin broken
  /\ session[conn[c]] = "active"
  /\ EndSession(conn[c])
  /\ \E f \in Failures : Fail(c, f)
  /\ UNCHANGED <<retries, conn, destroy, failure, answer, idle, broken, durable>>

\* The answer to COMMIT has the tag ROLLBACK: a failure was swallowed.
CommitRolledBack(c) ==
  /\ pc[c] = "commit"
  /\ conn[c] \notin broken
  /\ session[conn[c]] = "aborted"
  /\ EndSession(conn[c])
  /\ Fail(c, IF failure[c] = "none" THEN "other" ELSE failure[c])
  /\ UNCHANGED <<retries, conn, destroy, failure, answer, idle, broken, durable>>

\* The connection is lost with the answer: committed or not, nobody knows.
CommitLost(c) ==
  /\ pc[c] = "commit"
  /\ \/ UNCHANGED durable
     \/ /\ conn[c] \notin broken
        /\ session[conn[c]] = "active"
        /\ durable' = durable \cup work[conn[c]]
  /\ EndSession(conn[c])
  /\ broken' = broken \cup {conn[c]}
  /\ Fail(c, "other")
  /\ UNCHANGED <<retries, conn, destroy, failure, answer, idle>>

Rollback(c) ==
  /\ pc[c] = "rollback"
  /\ conn[c] \notin broken
  /\ EndSession(conn[c])
  /\ Goto(c, "release")
  /\ UNCHANGED <<retries, conn, destroy, failure, thrown, answer, open, idle, broken, durable>>

\* A rollback that fails does not hide the error, and the client is destroyed.
RollbackFails(c) ==
  /\ pc[c] = "rollback"
  /\ destroy' = [destroy EXCEPT ![c] = TRUE]
  /\ Goto(c, "release")
  /\ UNCHANGED <<retries, conn, failure, thrown, answer, open, server>>

\* The error event of the client: the listener of the attempt sees it, and
\* the server drops the transaction with the connection.
ClientError(c) ==
  /\ pc[c] \in Holding
  /\ conn[c] \notin broken
  /\ broken' = broken \cup {conn[c]}
  /\ EndSession(conn[c])
  /\ destroy' = [destroy EXCEPT ![c] = TRUE]
  /\ UNCHANGED <<pc, retries, conn, failure, thrown, answer, open, idle, durable>>

\* Mutant: every failure is worth another run.
VerdictRetriesAll(c) ==
  CASE thrown[c] = "none"        -> "ok"
    [] thrown[c] = "lockTimeout" -> "LOCK_TIMEOUT"
    [] OTHER -> IF retries[c] < RetryMax THEN "retry" ELSE "TX_RETRY_EXHAUSTED"

\* What the loop makes of an attempt that is over.
Verdict(c) ==
  CASE thrown[c] = "none"        -> "ok"
    [] thrown[c] = "lockTimeout" -> "LOCK_TIMEOUT"
    [] thrown[c] = "other"       -> "rethrown"
    [] thrown[c] = "retryable"   ->
         IF retries[c] < RetryMax THEN "retry" ELSE "TX_RETRY_EXHAUSTED"

\* Mutant: the release is not in a finally.
ReleaseOnSuccessOnly(c) ==
  /\ pc[c] = "release"
  /\ idle' = IF thrown[c] = "none" THEN idle \cup {conn[c]} ELSE idle
  /\ conn' = [conn EXCEPT ![c] = NoClient]
  /\ IF Verdict(c) = "retry"
     THEN Goto(c, "delay") /\ UNCHANGED answer
     ELSE Goto(c, "done") /\ answer' = [answer EXCEPT ![c] = Verdict(c)]
  /\ UNCHANGED <<retries, destroy, failure, thrown, open, broken, session, work, durable>>

\* The finally of runTxAttempt.  A destroyed client is closed, which ends its
\* transaction, and the pool opens another one in its place.
Release(c) ==
  /\ pc[c] = "release"
  /\ idle' = idle \cup {conn[c]}
  /\ IF destroy[c]
     THEN /\ broken' = broken \ {conn[c]}
          /\ EndSession(conn[c])
     ELSE UNCHANGED <<broken, session, work>>
  /\ conn' = [conn EXCEPT ![c] = NoClient]
  /\ IF Verdict(c) = "retry"
     THEN /\ Goto(c, "delay")
          /\ UNCHANGED answer
     ELSE /\ Goto(c, "done")
          /\ answer' = [answer EXCEPT ![c] = Verdict(c)]
  /\ UNCHANGED <<retries, destroy, failure, thrown, open, durable>>

\* The injected delay is over: fn runs again on a fresh checkout.
Retry(c) ==
  /\ pc[c] = "delay"
  /\ retries' = [retries EXCEPT ![c] = @ + 1]
  /\ Goto(c, "connect")
  /\ UNCHANGED <<conn, destroy, failure, thrown, answer, open, server>>

Step(c) ==
  \/ Connect(c)
  \/ ConnectFails(c)
  \/ Begin(c)
  \/ SetLockTimeout(c)
  \/ OpeningFails(c)
  \/ FnResolves(c)
  \/ FnThrows(c)
  \/ Commit(c)
  \/ CommitRefused(c)
  \/ CommitRolledBack(c)
  \/ CommitLost(c)
  \/ Rollback(c)
  \/ RollbackFails(c)
  \/ Release(c)
  \/ Retry(c)

Handles == Calls \X Runs \X Clients

Next ==
  \/ \E c \in Calls : Step(c) \/ ClientError(c)
  \/ \E h \in Handles : Query(h) \/ QueryFails(h) \/ RollbackToSavepoint(h)

Spec == Init /\ [][Next]_vars

\* The event loop runs every continuation, the server answers and fn ends;
\* a client that comes back is given to a waiting call.  ConnectFails, a
\* failure, is not something a waiting call may count on.
FairSpec ==
  Spec /\ \A c \in Calls : WF_vars(Step(c) /\ ~ConnectFails(c))

----------------------------------------------------------------------------
(* Properties                                                              *)

\* The work of a call is committed at most once, however often fn was run.
CommittedOnce ==
  \A a, b \in durable : a[1] = b[1] => a = b

\* withTx answers success only when the work of the last attempt, and of no
\* other, was committed.
SuccessIsDurable ==
  \A c \in Calls : answer[c] = "ok" => <<c, retries[c]>> \in durable

\* The two errors the wrapper builds are definite: nothing was committed.
BuiltErrorsAreDefinite ==
  \A c \in Calls : answer[c] \in {"LOCK_TIMEOUT", "TX_RETRY_EXHAUSTED"} =>
    \A a \in durable : a[1] # c

\* withTx.mts: "a statement cannot run outside the transaction, not even
\* through a handle that fn kept".  An open handle points at the client its own
\* attempt holds, and a transaction holds the work of one attempt.
StatementsStayInside ==
  /\ \A h \in open : conn[h[1]] = h[3] /\ retries[h[1]] = h[2] /\ pc[h[1]] = "fn"
  /\ \A cl \in Clients : \A a, b \in work[cl] : a = b

\* A client in the pool has no transaction open and its connection is whole:
\* the next user never inherits either.
PooledClientsAreClean ==
  \A cl \in idle : session[cl] = "none" /\ work[cl] = {} /\ cl \notin broken

\* No client is lost or lent twice: each is in the pool or held by one call.
ClientsAccountedFor ==
  /\ \A cl \in Clients : cl \in idle <=> \A c \in Calls : conn[c] # cl
  /\ \A c, d \in Calls : conn[c] = conn[d] => c = d \/ conn[c] = NoClient

\* What the proofs need of the steps in between.
\* A call holds a client exactly while its attempt runs, is answered exactly when
\* it is over, and throws exactly what sends it to ROLLBACK.
CallInv ==
  \A c \in Calls :
    /\ conn[c] # NoClient <=> pc[c] \in Holding
    /\ answer[c] # "none" <=> pc[c] = "done"
    /\ pc[c] \in {"begin", "set", "fn", "commit"} => thrown[c] = "none"
    /\ pc[c] = "rollback" => thrown[c] # "none"
    /\ pc[c] = "delay" => retries[c] < RetryMax /\ thrown[c] = "retryable"
    /\ pc[c] = "release" /\ thrown[c] = "none" => Attempt(c) \in durable

\* The transaction a held client is in, place by place.
SessionInv ==
  /\ \A cl \in Clients : \A a \in work[cl] :
       conn[a[1]] = cl /\ retries[a[1]] = a[2] /\ session[cl] # "none"
  /\ \A c \in Calls :
       /\ pc[c] = "begin" => session[conn[c]] = "none"
       /\ pc[c] \in {"set", "fn", "commit"} /\ conn[c] \notin broken =>
            session[conn[c]] # "none" /\ Attempt(c) \in work[conn[c]]
       /\ pc[c] = "release" /\ ~destroy[c] =>
            session[conn[c]] = "none" /\ conn[c] \notin broken

\* What is committed is the work of the last attempt, and that attempt is not
\* one the loop runs again.
DurableInv ==
  \A a \in durable :
    /\ retries[a[1]] = a[2]
    /\ pc[a[1]] \in {"rollback", "release", "done"}
    /\ thrown[a[1]] \in {"none", "other"}
    /\ answer[a[1]] \in {"none", "ok", "rethrown"}

\* The inductive invariant: of every state the code can be in.
IInv ==
  /\ TypeOK
  /\ CallInv
  /\ SessionInv
  /\ DurableInv
  /\ StatementsStayInside
  /\ PooledClientsAreClean
  /\ ClientsAccountedFor
  /\ SuccessIsDurable

\* Every call is answered: no error path keeps a client from the calls that
\* wait for one, and the retries are bounded.
EveryCallAnswered == \A c \in Calls : <>(answer[c] # "none")

\* The abstract view: whether some attempt of the call was committed.
applied == [c \in Calls |-> \E n \in Runs : <<c, n>> \in durable]
Abstract == INSTANCE AtomicTx WITH Calls <- Calls, applied <- applied, answer <- answer
AtomicSpec == Abstract!Spec
============================================================================
