------------------------------ MODULE AtomicTx ------------------------------
(***************************************************************************)
(* What withTx promises its callers, without connections, attempts or      *)
(* retries: the work of a call takes effect at most once, a success is     *)
(* answered only after it did, and an error built by the wrapper itself    *)
(* (LOCK_TIMEOUT, TX_RETRY_EXHAUSTED) only when it did not.  An error that *)
(* is rethrown unchanged says nothing: the connection may have been lost   *)
(* with the answer of COMMIT.                                              *)
(***************************************************************************)
CONSTANT Calls
VARIABLES applied, answer

Answers == {"none", "ok", "LOCK_TIMEOUT", "TX_RETRY_EXHAUSTED", "rethrown"}

Init ==
  /\ applied = [c \in Calls |-> FALSE]
  /\ answer = [c \in Calls |-> "none"]

\* The work of an unanswered call takes effect, once.
Apply(c) ==
  /\ answer[c] = "none"
  /\ ~applied[c]
  /\ applied' = [applied EXCEPT ![c] = TRUE]
  /\ UNCHANGED answer

Answer(c, a) ==
  /\ answer[c] = "none"
  /\ a = "ok" => applied[c]
  /\ a \in {"LOCK_TIMEOUT", "TX_RETRY_EXHAUSTED"} => ~applied[c]
  /\ answer' = [answer EXCEPT ![c] = a]
  /\ UNCHANGED applied

Next == \E c \in Calls : Apply(c) \/ \E a \in Answers \ {"none"} : Answer(c, a)

Spec == Init /\ [][Next]_<<applied, answer>>
============================================================================
