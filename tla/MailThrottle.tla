----------------------------- MODULE MailThrottle -----------------------------
(***************************************************************************)
(* createMailThrottle behind throttleMailer: the map of the last sends,    *)
(* its clean-up when it is full, and the sender a notification goes to.    *)
(* maySend is synchronous, so one request at a time is in it.  The map is  *)
(* insertion-ordered: place numbers its entries in that order.             *)
(*                                                                         *)
(* External: Date.now, taken not to go back, and the SocketLabs SDK.       *)
(***************************************************************************)
EXTENDS Integers, FiniteSets

CONSTANTS
  Keys,             \* kind and address of a notification, as gated joins them
  windowMs,
  maxKeys,
  Never,
  MaxTime,          \* bound on the clock
  MaxSends          \* bound on the sends

ASSUME ThrottleAssumption ==
  /\ IsFiniteSet(Keys)
  /\ windowMs \in Nat /\ maxKeys \in Nat
  /\ Never \notin Nat

VARIABLES
  now,
  sentAt,   \* the map: when, or Never for a key that is not in it
  place,    \* the order of insertion
  stamp,    \* the last place given
  answer,   \* what the mailer answered last
  last,     \* history: when a key was last sent, in the map or not
  since     \* history: the other keys sent after that

throttleVars == <<now, sentAt, place, stamp, answer, last, since>>

tracked == {k \in Keys : sentAt[k] # Never}

ThrottleTypeOK ==
  /\ now \in Nat
  /\ sentAt \in [Keys -> Nat \cup {Never}]
  /\ place \in [Keys -> Nat]
  /\ stamp \in Nat
  /\ answer \in {"none", "dropped", "ok", "rejected", "thrown"}
  /\ last \in [Keys -> Nat \cup {Never}]
  /\ since \in [Keys -> SUBSET Keys]

ThrottleInit ==
  /\ now = 0
  /\ sentAt = [k \in Keys |-> Never]
  /\ place = [k \in Keys |-> 0]
  /\ stamp = 0
  /\ answer = "none"
  /\ last = [k \in Keys |-> Never]
  /\ since = [k \in Keys |-> {}]

----------------------------------------------------------------------------
(* maySend                                                                 *)

Expired(k) == now - sentAt[k] >= windowMs
Blocked(k) == sentAt[k] # Never /\ ~Expired(k)

\* Mutant: the newest entry is evicted.
Newest(S) == CHOOSE k \in S : \A x \in S : place[k] >= place[x]

\* sentAt.keys().next().
Oldest(S) == CHOOSE k \in S : \A x \in S : place[k] <= place[x]

\* The entries left when the first test for room has been made ...
Unexpired(S) == IF Cardinality(S) >= maxKeys THEN {x \in S : ~Expired(x)} ELSE S
\* Mutant: the test for room is off by one.
WithRoomLater(S) == IF Cardinality(S) > maxKeys /\ S # {} THEN S \ {Oldest(S)} ELSE S

\* ... and the second: the oldest one goes, when there is one.
WithRoom(S) == IF Cardinality(S) >= maxKeys /\ S # {} THEN S \ {Oldest(S)} ELSE S

Kept(k) == WithRoom(Unexpired(tracked \ {k}))

\* The sender answers ok, or not ok (rejected: onError is told), or it throws
\* (thrown: a setter, client.send or onError): the key stays blocked all the same.
Results == {"ok", "rejected", "thrown"}

Send(k) ==
  /\ stamp < MaxSends
  /\ ~Blocked(k)
  /\ LET kept == Kept(k) IN
       /\ sentAt' = [x \in Keys |-> IF x = k THEN now ELSE IF x \in kept THEN sentAt[x] ELSE Never]
       /\ place' = [x \in Keys |-> IF x = k THEN stamp + 1 ELSE IF x \in kept THEN place[x] ELSE 0]
  /\ stamp' = stamp + 1
  /\ answer' \in Results
  /\ last' = [last EXCEPT ![k] = now]
  /\ since' = [x \in Keys |-> IF x = k THEN {} ELSE since[x] \cup {k}]
  /\ UNCHANGED now

\* gated resolves undefined, and the guard goes on.
Drop(k) ==
  /\ Blocked(k)
  /\ answer' = "dropped"
  /\ UNCHANGED <<now, sentAt, place, stamp, last, since>>

\* throttleMailer hands sendWelcome straight to the mailer.
Welcome ==
  /\ answer' \in Results
  /\ UNCHANGED <<now, sentAt, place, stamp, last, since>>

Tick ==
  /\ now < MaxTime
  /\ now' = now + 1
  /\ UNCHANGED <<sentAt, place, stamp, answer, last, since>>

ThrottleNext == (\E k \in Keys : Send(k)) \/ (\E k \in Keys : Drop(k)) \/ Welcome \/ Tick

ThrottleSpec == ThrottleInit /\ [][ThrottleNext]_throttleVars

----------------------------------------------------------------------------
(* Properties                                                              *)

\* The map agrees with the sends and is in their order.
MapInv ==
  /\ \A k \in Keys : last[k] # Never => last[k] <= now
  /\ \A k \in tracked : sentAt[k] = last[k] /\ place[k] \in 1..stamp
  /\ \A k, x \in tracked : place[k] = place[x] => k = x
  /\ \A k, x \in tracked : place[k] < place[x] => x \in since[k]
  /\ \A k \in Keys : k \notin since[k]

\* The map never holds more than maxKeys keys (one, when maxKeys is 0), however
\* many addresses are asked for.
SizeInv == Cardinality(tracked) <= (IF maxKeys = 0 THEN 1 ELSE maxKeys)

\* A key that has been dropped from the map inside its window has been pushed
\* out by at least maxKeys other keys sent after it.
EvictedInv ==
  \A k \in Keys \ tracked :
    last[k] # Never => now - last[k] >= windowMs \/ Cardinality(since[k]) >= maxKeys

\* The four together are inductive.
ThrottleInv == ThrottleTypeOK /\ MapInv /\ SizeInv /\ EvictedInv

\* The throttle keeps the promise of Debounce.
Abstract == INSTANCE Debounce WITH
  Keys <- Keys, windowMs <- windowMs, maxKeys <- maxKeys, Never <- Never,
  now <- now, last <- last, since <- since, answer <- answer
KeepsItsPromise == Abstract!Spec

==============================================================================
