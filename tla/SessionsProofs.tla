---------------------------- MODULE SessionsProofs ----------------------------
(***************************************************************************)
(* What holds of the Redis sessions for any set of requests and any bounds. *)
(*                                                                         *)
(* IInv is inductive: one lemma per action, each with one step for the     *)
(* types, one for what a request relies on, one for the keys, one for the  *)
(* block and one for the sessions without an expiry.  Two ideas carry it:  *)
(* a pair that a client can present is settled (TokensAreSettled), so no   *)
(* request ever stores it again; and a key has an expiry only if its pair  *)
(* is settled, so none expires under the request that is storing it.       *)
(*                                                                         *)
(* The other properties are then invariant relative to IInv.  They speak   *)
(* of what was answered, so each step is split on whether the request was  *)
(* answered before (DoneIsFinal, DeadStaysDead, ExpiryIsKept: what was so  *)
(* stays so) or is answered by it (Answers: by which action).              *)
(***************************************************************************)
EXTENDS Sessions, TLAPS

USE SessionsAssumption DEF requests, redis, panel, history, vars, Pair, PairKeys, Present, Goto

\* The parts of a key.
LEMMA KeyParts ==
  ASSUME NEW k \in Keys
  PROVE  /\ k[1] \in {"access", "refresh"}
         /\ k[2] \in Pairs
         /\ k[2][1] \in Reqs
         /\ k[2][2] \in 1 .. MaxRounds
         /\ k = <<k[1], k[2]>>
         /\ k[2] = <<k[2][1], k[2][2]>>
  BY DEF Keys, Pairs

\* No pair is the null value.
LEMMA NoPairIsNone == NoPair \notin Pairs
  BY DEF Pairs

\* The keys of a pair, and the pairs of a request.
LEMMA OwnKeys ==
  /\ \A p \in Pairs : <<"access", p>> \in Keys /\ <<"refresh", p>> \in Keys
  /\ \A r \in Reqs, n \in 1 .. MaxRounds : <<r, n>> \in Pairs
  BY DEF Keys, Pairs

\* The parts of a pair.
LEMMA PairParts ==
  ASSUME NEW p \in Pairs
  PROVE  p[1] \in Reqs /\ p[2] \in 1 .. MaxRounds /\ p = <<p[1], p[2]>>
  BY DEF Pairs

\* What has been handed out is settled: its owner is past its expiries.
LEMMA TokensAreSettled ==
  ASSUME IInv
  PROVE  /\ \A p \in Cookies : p \in Pairs /\ Settled(p)
         /\ \A p \in AccessTokens : p \in Pairs /\ Settled(p)
<1>1. ASSUME NEW q \in Reqs, pc[q] = "done", cookie[q] # NoPair
      PROVE  cookie[q] \in Pairs /\ Settled(cookie[q])
  <2>1. TypeOK /\ TokenOk(q)
    BY DEF IInv, RequestInv
  <2>2. cookie[q] \in Pairs /\ cookie[q][1] = q /\ cookie[q][2] <= round[q]
    BY <1>1, <2>1 DEF TypeOK, TokenOk
  <2>3. cookie[q][2] \in Nat /\ round[q] \in Nat
    BY <2>1, <2>2, PairParts DEF TypeOK
  <2> QED BY <1>1, <2>2, <2>3 DEF Settled
<1>2. ASSUME NEW p \in AccessTokens PROVE p \in Pairs /\ Settled(p)
  <2>1. p \in Pairs /\ result[p[1]] = "ok" /\ p[2] <= round[p[1]]
    BY DEF AccessTokens
  <2>2. p[1] \in Reqs /\ p[2] \in Nat
    BY <2>1, PairParts
  <2>3. TypeOK /\ PlaceOk(p[1])
    BY <2>2 DEF IInv, RequestInv
  <2>4. pc[p[1]] = "done" /\ round[p[1]] \in Nat
    BY <2>1, <2>2, <2>3 DEF TypeOK, PlaceOk
  <2> QED BY <2>1, <2>2, <2>4 DEF Settled
<1> QED BY <1>1, <1>2 DEF Cookies

\* Nothing has been asked: the invariant holds.
LEMMA InitIInv == Init => IInv
<1> SUFFICES ASSUME Init PROVE IInv
  OBVIOUS
<1>1. TypeOK
  <2>1. 0 \in 0 .. MaxRounds /\ {} \subseteq Keys
    OBVIOUS
  <2>2. /\ pc \in [Reqs -> PCs] /\ kind \in [Reqs -> Kinds]
        /\ old \in [Reqs -> Pairs \cup {NoPair}] /\ presented \in [Reqs -> Pairs \cup {NoPair}]
        /\ bearer \in [Reqs -> Pairs \cup {NoPair}] /\ cookie \in [Reqs -> Pairs \cup {NoPair}]
        /\ round \in [Reqs -> 0 .. MaxRounds] /\ result \in [Reqs -> {"none", "ok", "error"}]
        /\ hash \in [Keys -> {"absent", "plain", "blocked"}]
    BY <2>1, Zenon DEF Init, PCs, Kinds
  <2> QED BY <2>2 DEF Init, TypeOK
<1>2. ASSUME NEW r \in Reqs PROVE PlaceOk(r) /\ TokenOk(r) /\ StoreOk(r) /\ SpentOk(r)
  BY <1>2 DEF Init, PlaceOk, TokenOk, StoreOk, SpentOk
<1>3. KeyInv /\ QuietInv /\ NoImmortalSession
  BY DEF Init, KeyInv, FreshOk, QuietInv, NoImmortalSession
<1> QED
  BY <1>1, <1>2, <1>3 DEF IInv, RequestInv

\* One lemma per action.  A call presents only what has been handed out.
LEMMA CallLoginIInv ==
  ASSUME IInv, NEW r \in Reqs, CallLogin(r)
  PROVE  IInv'
<1>0. TypeOK /\ PlaceOk(r) /\ TokenOk(r) /\ StoreOk(r) /\ SpentOk(r)
  BY DEF IInv, RequestInv
<1>1. TypeOK'
  BY <1>0 DEF CallLogin, Call, TypeOK, PCs, Kinds, PlaceOk, TokenOk
<1>2. ASSUME NEW q \in Reqs PROVE PlaceOk(q)' /\ TokenOk(q)' /\ StoreOk(q)' /\ SpentOk(q)'
  <2>0. PlaceOk(q) /\ TokenOk(q) /\ StoreOk(q) /\ SpentOk(q)
    BY DEF IInv, RequestInv
  <2>1. PlaceOk(q)'
    BY <1>0, <2>0 DEF CallLogin, Call, TypeOK, PlaceOk
  <2>2. TokenOk(q)'
    BY <1>0, <2>0, PairParts DEF CallLogin, Call, TypeOK, PlaceOk, TokenOk, Settled
  <2>3. StoreOk(q)'
    BY <1>0, <2>0 DEF CallLogin, Call, TypeOK, PlaceOk, StoreOk
  <2>4. SpentOk(q)'
    BY <1>0, <2>0 DEF CallLogin, Call, TypeOK, PlaceOk, SpentOk
  <2> QED BY <2>1, <2>2, <2>3, <2>4
<1>3. ASSUME NEW k \in Keys PROVE FreshOk(k)'
  <2>0. FreshOk(k)
    BY DEF IInv, KeyInv
  <2> QED BY <1>0, <2>0, KeyParts DEF CallLogin, Call, TypeOK, PlaceOk, FreshOk, Settled
<1>4. QuietInv'
  BY <1>0 DEF CallLogin, Call, IInv, TypeOK, PlaceOk, QuietInv
<1>5. NoImmortalSession'
  <2>1. ASSUME NEW k \in Keys, Present(k)', k \notin ttl'
        PROVE  \/ k \in PairKeys(k[2][1])' /\ pc'[k[2][1]] \in {"expire", "cleanup", "dead"}
               \/ k[2] \in dirty'
    <3>1. /\ FreshOk(k)
          /\ Present(k) /\ k \notin ttl =>
               \/ k \in PairKeys(k[2][1]) /\ pc[k[2][1]] \in {"expire", "cleanup", "dead"}
               \/ k[2] \in dirty
      BY DEF IInv, KeyInv, NoImmortalSession
    <3> QED BY <1>0, <2>1, <3>1, KeyParts DEF CallLogin, Call, TypeOK, PlaceOk, FreshOk
  <2> QED BY <2>1 DEF NoImmortalSession
<1> QED
  BY <1>1, <1>2, <1>3, <1>4, <1>5 DEF IInv, RequestInv, KeyInv

\* The cookie is one that was handed out.
LEMMA CallRefreshIInv ==
  ASSUME IInv, NEW r \in Reqs, CallRefresh(r)
  PROVE  IInv'
<1>0. TypeOK /\ PlaceOk(r) /\ TokenOk(r) /\ StoreOk(r) /\ SpentOk(r)
  BY DEF IInv, RequestInv
<1>1. TypeOK'
  BY <1>0, TokensAreSettled DEF CallRefresh, Call, TypeOK, PCs, Kinds, PlaceOk, TokenOk
<1>2. ASSUME NEW q \in Reqs PROVE PlaceOk(q)' /\ TokenOk(q)' /\ StoreOk(q)' /\ SpentOk(q)'
  <2>0. PlaceOk(q) /\ TokenOk(q) /\ StoreOk(q) /\ SpentOk(q)
    BY DEF IInv, RequestInv
  <2>1. PlaceOk(q)'
    BY <1>0, <2>0 DEF CallRefresh, Call, TypeOK, PlaceOk
  <2>2. TokenOk(q)'
    <3>1. PICK p \in Cookies : old' = [old EXCEPT ![r] = p] /\ presented' = [presented EXCEPT ![r] = p]
      BY DEF CallRefresh
    <3>2. p \in Pairs /\ Settled(p)
      BY <3>1, TokensAreSettled
    <3>5. \A p0 \in Pairs : Settled(p0) => Settled(p0)'
      BY <1>0, PairParts DEF CallRefresh, Call, TypeOK, Settled
    <3>6. CASE q = r
      <4>1. /\ old'[r] = p /\ presented'[r] = p /\ bearer'[r] = bearer[r]
            /\ UNCHANGED <<cookie, round>> /\ kind'[r] = "refresh" /\ pc'[r] = "guard"
        BY <1>0, <3>1, <3>2 DEF CallRefresh, Call, TypeOK
      <4>2. /\ old'[r] # NoPair => Settled(old[r])'
            /\ presented'[r] # NoPair => Settled(presented[r])'
            /\ bearer'[r] # NoPair => Settled(bearer[r])'
        BY <1>0, <3>1, <3>2, <3>5, <4>1 DEF TypeOK, TokenOk, Settled
      <4> QED BY <1>0, <3>1, <3>2, <3>6, <4>1, <4>2, NoPairIsNone DEF TokenOk, Settled
    <3>7. CASE q # r
      BY <1>0, <2>0, <3>1, <3>2, <3>5, <3>7 DEF CallRefresh, Call, TypeOK, PlaceOk, TokenOk, Settled
    <3> QED BY <3>6, <3>7
  <2>3. StoreOk(q)'
    BY <1>0, <2>0 DEF CallRefresh, Call, TypeOK, PlaceOk, StoreOk
  <2>4. SpentOk(q)'
    <3>1. CASE q = r
      <4>1. kind'[r] = "refresh" /\ pc'[r] = "guard" /\ old'[r] # NoPair
        BY <1>0, TokensAreSettled DEF CallRefresh, Call, TypeOK, Cookies
      <4> QED BY <3>1, <4>1 DEF SpentOk
    <3>2. CASE q # r
      BY <1>0, <2>0, <3>2 DEF CallRefresh, Call, TypeOK, SpentOk
    <3> QED BY <3>1, <3>2
  <2> QED BY <2>1, <2>2, <2>3, <2>4
<1>3. ASSUME NEW k \in Keys PROVE FreshOk(k)'
  <2>0. FreshOk(k)
    BY DEF IInv, KeyInv
  <2> QED BY <1>0, <2>0, KeyParts DEF CallRefresh, Call, TypeOK, PlaceOk, FreshOk, Settled
<1>4. QuietInv'
  BY <1>0 DEF CallRefresh, Call, IInv, TypeOK, PlaceOk, QuietInv
<1>5. NoImmortalSession'
  <2>1. ASSUME NEW k \in Keys, Present(k)', k \notin ttl'
        PROVE  \/ k \in PairKeys(k[2][1])' /\ pc'[k[2][1]] \in {"expire", "cleanup", "dead"}
               \/ k[2] \in dirty'
    <3>1. /\ FreshOk(k)
          /\ Present(k) /\ k \notin ttl =>
               \/ k \in PairKeys(k[2][1]) /\ pc[k[2][1]] \in {"expire", "cleanup", "dead"}
               \/ k[2] \in dirty
      BY DEF IInv, KeyInv, NoImmortalSession
    <3> QED BY <1>0, <2>1, <3>1, KeyParts DEF CallRefresh, Call, TypeOK, PlaceOk, FreshOk
  <2> QED BY <2>1 DEF NoImmortalSession
<1> QED
  BY <1>1, <1>2, <1>3, <1>4, <1>5 DEF IInv, RequestInv, KeyInv

\* So are cookie and bearer of a logout.
LEMMA CallLogoutIInv ==
  ASSUME IInv, NEW r \in Reqs, CallLogout(r)
  PROVE  IInv'
<1>0. TypeOK /\ PlaceOk(r) /\ TokenOk(r) /\ StoreOk(r) /\ SpentOk(r)
  BY DEF IInv, RequestInv
<1>1. TypeOK'
  BY <1>0, TokensAreSettled DEF CallLogout, Call, TypeOK, PCs, Kinds, PlaceOk, TokenOk
<1>2. ASSUME NEW q \in Reqs PROVE PlaceOk(q)' /\ TokenOk(q)' /\ StoreOk(q)' /\ SpentOk(q)'
  <2>0. PlaceOk(q) /\ TokenOk(q) /\ StoreOk(q) /\ SpentOk(q)
    BY DEF IInv, RequestInv
  <2>1. PlaceOk(q)'
    BY <1>0, <2>0 DEF CallLogout, Call, TypeOK, PlaceOk
  <2>2. TokenOk(q)'
    <3>1. PICK p \in Cookies : old' = [old EXCEPT ![r] = p] /\ presented' = [presented EXCEPT ![r] = p]
      BY DEF CallLogout
    <3>2. p \in Pairs /\ Settled(p)
      BY <3>1, TokensAreSettled
    <3>3. PICK b \in AccessTokens \cup {NoPair} : bearer' = [bearer EXCEPT ![r] = b]
      BY DEF CallLogout
    <3>4. b = NoPair \/ (b \in Pairs /\ Settled(b))
      BY <3>3, TokensAreSettled
    <3>5. \A p0 \in Pairs : Settled(p0) => Settled(p0)'
      BY <1>0, PairParts DEF CallLogout, Call, TypeOK, Settled
    <3>6. CASE q = r
      <4>1. /\ old'[r] = p /\ presented'[r] = p /\ bearer'[r] = b
            /\ UNCHANGED <<cookie, round>> /\ kind'[r] = "logout" /\ pc'[r] = "guard"
        BY <1>0, <3>1, <3>2, <3>3, <3>4 DEF CallLogout, Call, TypeOK
      <4>2. /\ old'[r] # NoPair => Settled(old[r])'
            /\ presented'[r] # NoPair => Settled(presented[r])'
            /\ bearer'[r] # NoPair => Settled(bearer[r])'
        BY <1>0, <3>1, <3>2, <3>3, <3>4, <3>5, <4>1 DEF TypeOK, TokenOk, Settled
      <4> QED BY <1>0, <3>1, <3>2, <3>3, <3>4, <3>6, <4>1, <4>2, NoPairIsNone DEF TokenOk, Settled
    <3>7. CASE q # r
      BY <1>0, <2>0, <3>1, <3>2, <3>3, <3>4, <3>5, <3>7 DEF CallLogout, Call, TypeOK, PlaceOk, TokenOk, Settled
    <3> QED BY <3>6, <3>7
  <2>3. StoreOk(q)'
    BY <1>0, <2>0 DEF CallLogout, Call, TypeOK, PlaceOk, StoreOk
  <2>4. SpentOk(q)'
    BY <1>0, <2>0 DEF CallLogout, Call, TypeOK, PlaceOk, SpentOk
  <2> QED BY <2>1, <2>2, <2>3, <2>4
<1>3. ASSUME NEW k \in Keys PROVE FreshOk(k)'
  <2>0. FreshOk(k)
    BY DEF IInv, KeyInv
  <2> QED BY <1>0, <2>0, KeyParts DEF CallLogout, Call, TypeOK, PlaceOk, FreshOk, Settled
<1>4. QuietInv'
  BY <1>0 DEF CallLogout, Call, IInv, TypeOK, PlaceOk, QuietInv
<1>5. NoImmortalSession'
  <2>1. ASSUME NEW k \in Keys, Present(k)', k \notin ttl'
        PROVE  \/ k \in PairKeys(k[2][1])' /\ pc'[k[2][1]] \in {"expire", "cleanup", "dead"}
               \/ k[2] \in dirty'
    <3>1. /\ FreshOk(k)
          /\ Present(k) /\ k \notin ttl =>
               \/ k \in PairKeys(k[2][1]) /\ pc[k[2][1]] \in {"expire", "cleanup", "dead"}
               \/ k[2] \in dirty
      BY DEF IInv, KeyInv, NoImmortalSession
    <3> QED BY <1>0, <2>1, <3>1, KeyParts DEF CallLogout, Call, TypeOK, PlaceOk, FreshOk
  <2> QED BY <2>1 DEF NoImmortalSession
<1> QED
  BY <1>1, <1>2, <1>3, <1>4, <1>5 DEF IInv, RequestInv, KeyInv

\* And the bearer of a resource.
LEMMA CallResourceIInv ==
  ASSUME IInv, NEW r \in Reqs, CallResource(r)
  PROVE  IInv'
<1>0. TypeOK /\ PlaceOk(r) /\ TokenOk(r) /\ StoreOk(r) /\ SpentOk(r)
  BY DEF IInv, RequestInv
<1>1. TypeOK'
  BY <1>0, TokensAreSettled DEF CallResource, Call, TypeOK, PCs, Kinds, PlaceOk, TokenOk
<1>2. ASSUME NEW q \in Reqs PROVE PlaceOk(q)' /\ TokenOk(q)' /\ StoreOk(q)' /\ SpentOk(q)'
  <2>0. PlaceOk(q) /\ TokenOk(q) /\ StoreOk(q) /\ SpentOk(q)
    BY DEF IInv, RequestInv
  <2>1. PlaceOk(q)'
    BY <1>0, <2>0 DEF CallResource, Call, TypeOK, PlaceOk
  <2>2. TokenOk(q)'
    <3>1. PICK b \in AccessTokens : bearer' = [bearer EXCEPT ![r] = b]
      BY DEF CallResource
    <3>2. b \in Pairs /\ Settled(b)
      BY <3>1, TokensAreSettled
    <3>5. \A p0 \in Pairs : Settled(p0) => Settled(p0)'
      BY <1>0, PairParts DEF CallResource, Call, TypeOK, Settled
    <3>6. CASE q = r
      <4>1. /\ old'[r] = old[r] /\ presented'[r] = presented[r] /\ bearer'[r] = b
            /\ UNCHANGED <<cookie, round>> /\ kind'[r] = "resource" /\ pc'[r] = "guard"
        BY <1>0, <3>1, <3>2 DEF CallResource, Call, TypeOK
      <4>2. /\ old'[r] # NoPair => Settled(old[r])'
            /\ presented'[r] # NoPair => Settled(presented[r])'
            /\ bearer'[r] # NoPair => Settled(bearer[r])'
        BY <1>0, <3>1, <3>2, <3>5, <4>1 DEF TypeOK, TokenOk, Settled
      <4> QED BY <1>0, <3>1, <3>2, <3>6, <4>1, <4>2, NoPairIsNone DEF TokenOk, Settled
    <3>7. CASE q # r
      BY <1>0, <2>0, <3>1, <3>2, <3>5, <3>7 DEF CallResource, Call, TypeOK, PlaceOk, TokenOk, Settled
    <3> QED BY <3>6, <3>7
  <2>3. StoreOk(q)'
    BY <1>0, <2>0 DEF CallResource, Call, TypeOK, PlaceOk, StoreOk
  <2>4. SpentOk(q)'
    BY <1>0, <2>0 DEF CallResource, Call, TypeOK, PlaceOk, SpentOk
  <2> QED BY <2>1, <2>2, <2>3, <2>4
<1>3. ASSUME NEW k \in Keys PROVE FreshOk(k)'
  <2>0. FreshOk(k)
    BY DEF IInv, KeyInv
  <2> QED BY <1>0, <2>0, KeyParts DEF CallResource, Call, TypeOK, PlaceOk, FreshOk, Settled
<1>4. QuietInv'
  BY <1>0 DEF CallResource, Call, IInv, TypeOK, PlaceOk, QuietInv
<1>5. NoImmortalSession'
  <2>1. ASSUME NEW k \in Keys, Present(k)', k \notin ttl'
        PROVE  \/ k \in PairKeys(k[2][1])' /\ pc'[k[2][1]] \in {"expire", "cleanup", "dead"}
               \/ k[2] \in dirty'
    <3>1. /\ FreshOk(k)
          /\ Present(k) /\ k \notin ttl =>
               \/ k \in PairKeys(k[2][1]) /\ pc[k[2][1]] \in {"expire", "cleanup", "dead"}
               \/ k[2] \in dirty
      BY DEF IInv, KeyInv, NoImmortalSession
    <3> QED BY <1>0, <2>1, <3>1, KeyParts DEF CallResource, Call, TypeOK, PlaceOk, FreshOk
  <2> QED BY <2>1 DEF NoImmortalSession
<1> QED
  BY <1>1, <1>2, <1>3, <1>4, <1>5 DEF IInv, RequestInv, KeyInv

\* The middlewares change no session; a refresh that passes was unblocked.
LEMMA GuardRefreshIInv ==
  ASSUME IInv, NEW r \in Reqs, GuardRefresh(r)
  PROVE  IInv'
<1>0. TypeOK /\ PlaceOk(r) /\ TokenOk(r) /\ StoreOk(r) /\ SpentOk(r)
  BY DEF IInv, RequestInv
<1>1. TypeOK'
  BY <1>0 DEF GuardRefresh, DrawPair, Answer, TypeOK, PCs, Kinds, PlaceOk, TokenOk
<1>2. ASSUME NEW q \in Reqs PROVE PlaceOk(q)' /\ TokenOk(q)' /\ StoreOk(q)' /\ SpentOk(q)'
  <2>0. PlaceOk(q) /\ TokenOk(q) /\ StoreOk(q) /\ SpentOk(q)
    BY DEF IInv, RequestInv
  <2>1. PlaceOk(q)'
    BY <1>0, <2>0 DEF GuardRefresh, DrawPair, Answer, TypeOK, PlaceOk
  <2>2. TokenOk(q)'
    BY <1>0, <2>0, PairParts DEF GuardRefresh, DrawPair, Answer, TypeOK, PlaceOk, TokenOk, Settled
  <2>3. StoreOk(q)'
    BY <1>0, <2>0 DEF GuardRefresh, DrawPair, Answer, TypeOK, PlaceOk, StoreOk
  <2>4. SpentOk(q)'
    BY <1>0, <2>0 DEF GuardRefresh, DrawPair, Answer, TypeOK, PlaceOk, SpentOk
  <2> QED BY <2>1, <2>2, <2>3, <2>4
<1>3. ASSUME NEW k \in Keys PROVE FreshOk(k)'
  <2>0. FreshOk(k)
    BY DEF IInv, KeyInv
  <2> QED BY <1>0, <2>0, KeyParts DEF GuardRefresh, DrawPair, Answer, TypeOK, PlaceOk, FreshOk, Settled
<1>4. QuietInv'
  <2>1. QuietInv /\ UNCHANGED <<late, disabled, quiet, hash>>
    BY DEF IInv, GuardRefresh
  <2>2. old[r] \in Pairs
    BY <1>0 DEF GuardRefresh, TypeOK, TokenOk
  <2>3. quiet => pc' = [pc EXCEPT ![r] = "done"]
    BY <2>1, <2>2, OwnKeys DEF GuardRefresh, QuietInv, Answer
  <2> QED BY <1>0, <2>1, <2>3 DEF TypeOK, QuietInv
<1>5. NoImmortalSession'
  <2>1. ASSUME NEW k \in Keys, Present(k)', k \notin ttl'
        PROVE  \/ k \in PairKeys(k[2][1])' /\ pc'[k[2][1]] \in {"expire", "cleanup", "dead"}
               \/ k[2] \in dirty'
    <3>1. /\ FreshOk(k)
          /\ Present(k) /\ k \notin ttl =>
               \/ k \in PairKeys(k[2][1]) /\ pc[k[2][1]] \in {"expire", "cleanup", "dead"}
               \/ k[2] \in dirty
      BY DEF IInv, KeyInv, NoImmortalSession
    <3> QED BY <1>0, <2>1, <3>1, KeyParts DEF GuardRefresh, DrawPair, Answer, TypeOK, PlaceOk, FreshOk
  <2> QED BY <2>1 DEF NoImmortalSession
<1> QED
  BY <1>1, <1>2, <1>3, <1>4, <1>5 DEF IInv, RequestInv, KeyInv

\* The middleware reads, and lets pass or refuses.
LEMMA GuardLogoutIInv ==
  ASSUME IInv, NEW r \in Reqs, GuardLogout(r)
  PROVE  IInv'
<1>0. TypeOK /\ PlaceOk(r) /\ TokenOk(r) /\ StoreOk(r) /\ SpentOk(r)
  BY DEF IInv, RequestInv
<1>1. TypeOK'
  BY <1>0 DEF GuardLogout, Answer, TypeOK, PCs, Kinds, PlaceOk, TokenOk
<1>2. ASSUME NEW q \in Reqs PROVE PlaceOk(q)' /\ TokenOk(q)' /\ StoreOk(q)' /\ SpentOk(q)'
  <2>0. PlaceOk(q) /\ TokenOk(q) /\ StoreOk(q) /\ SpentOk(q)
    BY DEF IInv, RequestInv
  <2>1. PlaceOk(q)'
    BY <1>0, <2>0 DEF GuardLogout, Answer, TypeOK, PlaceOk
  <2>2. TokenOk(q)'
    BY <1>0, <2>0, PairParts DEF GuardLogout, Answer, TypeOK, PlaceOk, TokenOk, Settled
  <2>3. StoreOk(q)'
    BY <1>0, <2>0 DEF GuardLogout, Answer, TypeOK, PlaceOk, StoreOk
  <2>4. SpentOk(q)'
    BY <1>0, <2>0 DEF GuardLogout, Answer, TypeOK, PlaceOk, SpentOk
  <2> QED BY <2>1, <2>2, <2>3, <2>4
<1>3. ASSUME NEW k \in Keys PROVE FreshOk(k)'
  <2>0. FreshOk(k)
    BY DEF IInv, KeyInv
  <2> QED BY <1>0, <2>0, KeyParts DEF GuardLogout, Answer, TypeOK, PlaceOk, FreshOk, Settled
<1>4. QuietInv'
  BY <1>0 DEF GuardLogout, Answer, IInv, TypeOK, PlaceOk, QuietInv
<1>5. NoImmortalSession'
  <2>1. ASSUME NEW k \in Keys, Present(k)', k \notin ttl'
        PROVE  \/ k \in PairKeys(k[2][1])' /\ pc'[k[2][1]] \in {"expire", "cleanup", "dead"}
               \/ k[2] \in dirty'
    <3>1. /\ FreshOk(k)
          /\ Present(k) /\ k \notin ttl =>
               \/ k \in PairKeys(k[2][1]) /\ pc[k[2][1]] \in {"expire", "cleanup", "dead"}
               \/ k[2] \in dirty
      BY DEF IInv, KeyInv, NoImmortalSession
    <3> QED BY <1>0, <2>1, <3>1, KeyParts DEF GuardLogout, Answer, TypeOK, PlaceOk, FreshOk
  <2> QED BY <2>1 DEF NoImmortalSession
<1> QED
  BY <1>1, <1>2, <1>3, <1>4, <1>5 DEF IInv, RequestInv, KeyInv

\* It reads the second token as it reads the first.
LEMMA GuardLogoutAccessIInv ==
  ASSUME IInv, NEW r \in Reqs, GuardLogoutAccess(r)
  PROVE  IInv'
<1>0. TypeOK /\ PlaceOk(r) /\ TokenOk(r) /\ StoreOk(r) /\ SpentOk(r)
  BY DEF IInv, RequestInv
<1>1. TypeOK'
  BY <1>0 DEF GuardLogoutAccess, TypeOK, PCs, Kinds, PlaceOk, TokenOk
<1>2. ASSUME NEW q \in Reqs PROVE PlaceOk(q)' /\ TokenOk(q)' /\ StoreOk(q)' /\ SpentOk(q)'
  <2>0. PlaceOk(q) /\ TokenOk(q) /\ StoreOk(q) /\ SpentOk(q)
    BY DEF IInv, RequestInv
  <2>1. PlaceOk(q)'
    BY <1>0, <2>0 DEF GuardLogoutAccess, TypeOK, PlaceOk
  <2>2. TokenOk(q)'
    BY <1>0, <2>0, PairParts DEF GuardLogoutAccess, TypeOK, PlaceOk, TokenOk, Settled
  <2>3. StoreOk(q)'
    BY <1>0, <2>0 DEF GuardLogoutAccess, TypeOK, PlaceOk, StoreOk
  <2>4. SpentOk(q)'
    BY <1>0, <2>0 DEF GuardLogoutAccess, TypeOK, PlaceOk, SpentOk
  <2> QED BY <2>1, <2>2, <2>3, <2>4
<1>3. ASSUME NEW k \in Keys PROVE FreshOk(k)'
  <2>0. FreshOk(k)
    BY DEF IInv, KeyInv
  <2> QED BY <1>0, <2>0, KeyParts DEF GuardLogoutAccess, TypeOK, PlaceOk, FreshOk, Settled
<1>4. QuietInv'
  BY <1>0 DEF GuardLogoutAccess, IInv, TypeOK, PlaceOk, QuietInv
<1>5. NoImmortalSession'
  <2>1. ASSUME NEW k \in Keys, Present(k)', k \notin ttl'
        PROVE  \/ k \in PairKeys(k[2][1])' /\ pc'[k[2][1]] \in {"expire", "cleanup", "dead"}
               \/ k[2] \in dirty'
    <3>1. /\ FreshOk(k)
          /\ Present(k) /\ k \notin ttl =>
               \/ k \in PairKeys(k[2][1]) /\ pc[k[2][1]] \in {"expire", "cleanup", "dead"}
               \/ k[2] \in dirty
      BY DEF IInv, KeyInv, NoImmortalSession
    <3> QED BY <1>0, <2>1, <3>1, KeyParts DEF GuardLogoutAccess, TypeOK, PlaceOk, FreshOk
  <2> QED BY <2>1 DEF NoImmortalSession
<1> QED
  BY <1>1, <1>2, <1>3, <1>4, <1>5 DEF IInv, RequestInv, KeyInv

\* A resource is answered by its guard.
LEMMA GuardResourceIInv ==
  ASSUME IInv, NEW r \in Reqs, GuardResource(r)
  PROVE  IInv'
<1>0. TypeOK /\ PlaceOk(r) /\ TokenOk(r) /\ StoreOk(r) /\ SpentOk(r)
  BY DEF IInv, RequestInv
<1>1. TypeOK'
  BY <1>0 DEF GuardResource, Answer, TypeOK, PCs, Kinds, PlaceOk, TokenOk
<1>2. ASSUME NEW q \in Reqs PROVE PlaceOk(q)' /\ TokenOk(q)' /\ StoreOk(q)' /\ SpentOk(q)'
  <2>0. PlaceOk(q) /\ TokenOk(q) /\ StoreOk(q) /\ SpentOk(q)
    BY DEF IInv, RequestInv
  <2>1. PlaceOk(q)'
    BY <1>0, <2>0 DEF GuardResource, Answer, TypeOK, PlaceOk
  <2>2. TokenOk(q)'
    BY <1>0, <2>0, PairParts DEF GuardResource, Answer, TypeOK, PlaceOk, TokenOk, Settled
  <2>3. StoreOk(q)'
    BY <1>0, <2>0 DEF GuardResource, Answer, TypeOK, PlaceOk, StoreOk
  <2>4. SpentOk(q)'
    BY <1>0, <2>0 DEF GuardResource, Answer, TypeOK, PlaceOk, SpentOk
  <2> QED BY <2>1, <2>2, <2>3, <2>4
<1>3. ASSUME NEW k \in Keys PROVE FreshOk(k)'
  <2>0. FreshOk(k)
    BY DEF IInv, KeyInv
  <2> QED BY <1>0, <2>0, KeyParts DEF GuardResource, Answer, TypeOK, PlaceOk, FreshOk, Settled
<1>4. QuietInv'
  BY <1>0 DEF GuardResource, Answer, IInv, TypeOK, PlaceOk, QuietInv
<1>5. NoImmortalSession'
  <2>1. ASSUME NEW k \in Keys, Present(k)', k \notin ttl'
        PROVE  \/ k \in PairKeys(k[2][1])' /\ pc'[k[2][1]] \in {"expire", "cleanup", "dead"}
               \/ k[2] \in dirty'
    <3>1. /\ FreshOk(k)
          /\ Present(k) /\ k \notin ttl =>
               \/ k \in PairKeys(k[2][1]) /\ pc[k[2][1]] \in {"expire", "cleanup", "dead"}
               \/ k[2] \in dirty
      BY DEF IInv, KeyInv, NoImmortalSession
    <3> QED BY <1>0, <2>1, <3>1, KeyParts DEF GuardResource, Answer, TypeOK, PlaceOk, FreshOk
  <2> QED BY <2>1 DEF NoImmortalSession
<1> QED
  BY <1>1, <1>2, <1>3, <1>4, <1>5 DEF IInv, RequestInv, KeyInv

\* A login that passes draws a new round; its last pair stays what it was.
LEMMA LoginCheckIInv ==
  ASSUME IInv, NEW r \in Reqs, LoginCheck(r)
  PROVE  IInv'
<1>0. TypeOK /\ PlaceOk(r) /\ TokenOk(r) /\ StoreOk(r) /\ SpentOk(r)
  BY DEF IInv, RequestInv
<1>1. TypeOK'
  BY <1>0 DEF LoginCheck, DrawPair, Answer, TypeOK, PCs, Kinds, PlaceOk, TokenOk
<1>2. ASSUME NEW q \in Reqs PROVE PlaceOk(q)' /\ TokenOk(q)' /\ StoreOk(q)' /\ SpentOk(q)'
  <2>0. PlaceOk(q) /\ TokenOk(q) /\ StoreOk(q) /\ SpentOk(q)
    BY DEF IInv, RequestInv
  <2>1. PlaceOk(q)'
    BY <1>0, <2>0 DEF LoginCheck, DrawPair, Answer, TypeOK, PlaceOk
  <2>2. TokenOk(q)'
    BY <1>0, <2>0, PairParts DEF LoginCheck, DrawPair, Answer, TypeOK, PlaceOk, TokenOk, Settled
  <2>3. StoreOk(q)'
    BY <1>0, <2>0 DEF LoginCheck, DrawPair, Answer, TypeOK, PlaceOk, StoreOk
  <2>4. SpentOk(q)'
    BY <1>0, <2>0 DEF LoginCheck, DrawPair, Answer, TypeOK, PlaceOk, SpentOk
  <2> QED BY <2>1, <2>2, <2>3, <2>4
<1>3. ASSUME NEW k \in Keys PROVE FreshOk(k)'
  <2>0. FreshOk(k)
    BY DEF IInv, KeyInv
  <2> QED BY <1>0, <2>0, KeyParts DEF LoginCheck, DrawPair, Answer, TypeOK, PlaceOk, FreshOk, Settled
<1>4. QuietInv'
  BY <1>0 DEF LoginCheck, DrawPair, Answer, IInv, TypeOK, PlaceOk, QuietInv
<1>5. NoImmortalSession'
  <2>1. ASSUME NEW k \in Keys, Present(k)', k \notin ttl'
        PROVE  \/ k \in PairKeys(k[2][1])' /\ pc'[k[2][1]] \in {"expire", "cleanup", "dead"}
               \/ k[2] \in dirty'
    <3>1. /\ FreshOk(k)
          /\ Present(k) /\ k \notin ttl =>
               \/ k \in PairKeys(k[2][1]) /\ pc[k[2][1]] \in {"expire", "cleanup", "dead"}
               \/ k[2] \in dirty
      BY DEF IInv, KeyInv, NoImmortalSession
    <3> QED BY <1>0, <2>1, <3>1, KeyParts DEF LoginCheck, DrawPair, Answer, TypeOK, PlaceOk, FreshOk
  <2> QED BY <2>1 DEF NoImmortalSession
<1> QED
  BY <1>1, <1>2, <1>3, <1>4, <1>5 DEF IInv, RequestInv, KeyInv

\* Only keys of a fresh pair are written, so no token that is dead comes back.
LEMMA StoreIInv ==
  ASSUME IInv, NEW r \in Reqs, Store(r)
  PROVE  IInv'
<1>0. TypeOK /\ PlaceOk(r) /\ TokenOk(r) /\ StoreOk(r) /\ SpentOk(r)
  BY DEF IInv, RequestInv
<1>1. TypeOK'
  BY <1>0, OwnKeys DEF Store, Both, Set, TypeOK, PCs, Kinds, PlaceOk, TokenOk
<1>2. ASSUME NEW q \in Reqs PROVE PlaceOk(q)' /\ TokenOk(q)' /\ StoreOk(q)' /\ SpentOk(q)'
  <2>0. PlaceOk(q) /\ TokenOk(q) /\ StoreOk(q) /\ SpentOk(q)
    BY DEF IInv, RequestInv
  <2>1. PlaceOk(q)'
    BY <1>0, <2>0 DEF Store, Both, Set, TypeOK, PlaceOk
  <2>2. TokenOk(q)'
    BY <1>0, <2>0, PairParts DEF Store, Both, Set, TypeOK, PlaceOk, TokenOk, Settled
  <2>3. StoreOk(q)'
    <3>1. CASE q = r
      BY <1>0, <2>0, <3>1, OwnKeys DEF Store, Both, Set, TypeOK, PlaceOk, StoreOk
    <3>2. CASE q # r
      BY <1>0, <2>0, <3>2, OwnKeys, PairParts DEF Store, Both, Set, TypeOK, PlaceOk, TokenOk, StoreOk, Settled
    <3> QED BY <3>1, <3>2
  <2>4. SpentOk(q)'
    <3>1. ASSUME presented[q] # NoPair
          PROVE  hash'[<<"refresh", presented[q]>>] = hash[<<"refresh", presented[q]>>]
      <4>1. presented[q] \in Pairs /\ presented[q] # Pair(r)
        BY <1>0, <2>0, <3>1, PairParts DEF Store, TypeOK, TokenOk, Settled
      <4> QED BY <4>1, OwnKeys DEF Store, Set
    <3>2. /\ UNCHANGED <<kind, old, presented>> /\ kind[q] \in Kinds
          /\ pc'[q] \in {pc[q], "expire", "cleanup"}
      BY <1>0 DEF Store, Both, TypeOK
    <3>3. kind[q] \in {"refresh", "logout"} => presented[q] # NoPair
      BY <2>0 DEF TokenOk
    <3>4. pc'[q] = "delAccess" => pc[q] = "delAccess" /\ kind[q] = "logout"
      BY <2>0, <3>2 DEF PlaceOk
    <3> QED BY <2>0, <3>1, <3>2, <3>3, <3>4 DEF SpentOk
  <2> QED BY <2>1, <2>2, <2>3, <2>4
<1>3. ASSUME NEW k \in Keys PROVE FreshOk(k)'
  <2>0. FreshOk(k)
    BY DEF IInv, KeyInv
  <2> QED BY <1>0, <2>0, KeyParts, OwnKeys DEF Store, Both, Set, TypeOK, PlaceOk, FreshOk, Settled
<1>4. QuietInv'
  BY <1>0 DEF Store, Both, Set, IInv, TypeOK, PlaceOk, QuietInv
<1>5. NoImmortalSession'
  <2>1. ASSUME NEW k \in Keys, Present(k)', k \notin ttl'
        PROVE  \/ k \in PairKeys(k[2][1])' /\ pc'[k[2][1]] \in {"expire", "cleanup", "dead"}
               \/ k[2] \in dirty'
    <3>1. /\ FreshOk(k)
          /\ Present(k) /\ k \notin ttl =>
               \/ k \in PairKeys(k[2][1]) /\ pc[k[2][1]] \in {"expire", "cleanup", "dead"}
               \/ k[2] \in dirty
      BY DEF IInv, KeyInv, NoImmortalSession
    <3> QED BY <1>0, <2>1, <3>1, KeyParts DEF Store, Both, Set, TypeOK, PlaceOk, FreshOk
  <2> QED BY <2>1 DEF NoImmortalSession
<1> QED
  BY <1>1, <1>2, <1>3, <1>4, <1>5 DEF IInv, RequestInv, KeyInv

\* Both keys of the pair have an expiry before anything is handed out.
LEMMA ExpireIInv ==
  ASSUME IInv, NEW r \in Reqs, Expire(r)
  PROVE  IInv'
<1>0. TypeOK /\ PlaceOk(r) /\ TokenOk(r) /\ StoreOk(r) /\ SpentOk(r)
  BY DEF IInv, RequestInv
<1>1. TypeOK'
  <2>1. pc' \in [Reqs -> PCs]
    BY <1>0 DEF Expire, Both, TypeOK, PCs
  <2>2. cookie' \in [Reqs -> Pairs \cup {NoPair}]
    <3>1. Pair(r) \in Pairs
      BY <1>0, OwnKeys DEF Expire, TypeOK, PlaceOk
    <3> QED BY <1>0, <3>1 DEF Expire, TypeOK
  <2>3. ttl' \subseteq {k \in Keys : hash'[k] # "absent"}
    <3>1. PairKeys(r) \subseteq Keys
      BY <1>0, OwnKeys DEF Expire, TypeOK, PlaceOk
    <3> QED BY <1>0, <3>1 DEF Expire, TypeOK
  <2> QED BY <1>0, <2>1, <2>2, <2>3 DEF Expire, TypeOK
<1>2. ASSUME NEW q \in Reqs PROVE PlaceOk(q)' /\ TokenOk(q)' /\ StoreOk(q)' /\ SpentOk(q)'
  <2>0. PlaceOk(q) /\ TokenOk(q) /\ StoreOk(q) /\ SpentOk(q)
    BY DEF IInv, RequestInv
  <2>1. PlaceOk(q)'
    BY <1>0, <2>0 DEF Expire, Both, TypeOK, PlaceOk
  <2>2. TokenOk(q)'
    BY <1>0, <2>0, PairParts DEF Expire, Both, TypeOK, PlaceOk, TokenOk, Settled
  <2>3. StoreOk(q)'
    <3>1. CASE q = r
      BY <1>0, <2>0, <3>1, OwnKeys DEF Expire, Both, TypeOK, PlaceOk, StoreOk
    <3>2. CASE q # r
      BY <1>0, <2>0, <3>2, OwnKeys, PairParts DEF Expire, Both, TypeOK, PlaceOk, TokenOk, StoreOk, Settled
    <3> QED BY <3>1, <3>2
  <2>4. SpentOk(q)'
    <3>1. CASE q = r
      BY <1>0, <2>0, <3>1, OwnKeys, PairParts DEF Expire, Both, TypeOK, PlaceOk, TokenOk, SpentOk, Settled
    <3>2. CASE q # r
      BY <1>0, <2>0, <3>2, OwnKeys, PairParts DEF Expire, Both, TypeOK, PlaceOk, TokenOk, SpentOk, Settled
    <3> QED BY <3>1, <3>2
  <2> QED BY <2>1, <2>2, <2>3, <2>4
<1>3. ASSUME NEW k \in Keys PROVE FreshOk(k)'
  <2>0. FreshOk(k)
    BY DEF IInv, KeyInv
  <2> QED BY <1>0, <2>0, KeyParts, OwnKeys DEF Expire, Both, TypeOK, PlaceOk, FreshOk, Settled
<1>4. QuietInv'
  BY <1>0 DEF Expire, Both, IInv, TypeOK, PlaceOk, QuietInv
<1>5. NoImmortalSession'
  <2>1. ASSUME NEW k \in Keys, Present(k)', k \notin ttl'
        PROVE  \/ k \in PairKeys(k[2][1])' /\ pc'[k[2][1]] \in {"expire", "cleanup", "dead"}
               \/ k[2] \in dirty'
    <3>1. /\ FreshOk(k)
          /\ Present(k) /\ k \notin ttl =>
               \/ k \in PairKeys(k[2][1]) /\ pc[k[2][1]] \in {"expire", "cleanup", "dead"}
               \/ k[2] \in dirty
      BY DEF IInv, KeyInv, NoImmortalSession
    <3> QED BY <1>0, <2>1, <3>1, KeyParts DEF Expire, Both, TypeOK, PlaceOk, FreshOk
  <2> QED BY <2>1 DEF NoImmortalSession
<1> QED
  BY <1>1, <1>2, <1>3, <1>4, <1>5 DEF IInv, RequestInv, KeyInv

\* Deletions: what is deleted belongs to a settled pair, never to one that
\* another request is still storing.
LEMMA DelOldIInv ==
  ASSUME IInv, NEW r \in Reqs, DelOld(r)
  PROVE  IInv'
<1>0. TypeOK /\ PlaceOk(r) /\ TokenOk(r) /\ StoreOk(r) /\ SpentOk(r)
  BY DEF IInv, RequestInv
<1>a. /\ hash' \in [Keys -> {"absent", "plain", "blocked"}]
      /\ \A k \in Keys : hash'[k] \in {hash[k], "absent"} /\ (k \in ttl' <=> k \in ttl /\ Present(k)')
      /\ ttl' \subseteq ttl
      /\ ttl \cup ended \subseteq ttl' \cup ended'
      /\ ended' \subseteq Keys
  BY <1>0, OwnKeys DEF DelOld, Del, Set, TypeOK
<1>b. /\ pc'[r] = "fields" => old[r] = NoPair \/ ~Present(<<"refresh", old[r]>>)'
      /\ pc'[r] \in {"fields", "cleanup"}
      /\ \A q \in Reqs : q # r => pc'[q] = pc[q]
  BY <1>0, OwnKeys DEF DelOld, Del, Set, TypeOK
<1>c. ASSUME NEW q \in Reqs, q # r, pc[q] = "expire", NEW k \in PairKeys(q)
      PROVE  k \in Keys /\ hash'[k] = hash[k]
  <2>1. PlaceOk(q)
    BY DEF IInv, RequestInv
  <2>2. Pair(q) \in Pairs
    BY <1>0, <1>c, <2>1, OwnKeys DEF TypeOK, PlaceOk
  <2>3. k # <<"refresh", old[r]>>
    BY <1>0, <1>c, <2>2, PairParts DEF DelOld, TypeOK, TokenOk, Settled
  <2> QED BY <1>c, <2>2, <2>3, OwnKeys DEF DelOld, Del, Set
<1>1. TypeOK'
  <2>1. pc' \in [Reqs -> PCs] /\ result' \in [Reqs -> {"none", "ok", "error"}]
    BY <1>0 DEF DelOld, TypeOK, PCs
  <2>2. UNCHANGED <<kind, old, presented, bearer, round, cookie, panel, dirty>>
    BY DEF DelOld
  <2>3. swallowed' \subseteq Reqs
    BY <1>0 DEF DelOld, TypeOK
  <2> QED BY <1>0, <1>a, <2>1, <2>2, <2>3 DEF TypeOK
<1>2. ASSUME NEW q \in Reqs PROVE PlaceOk(q)' /\ TokenOk(q)' /\ StoreOk(q)' /\ SpentOk(q)'
  <2>0. PlaceOk(q) /\ TokenOk(q) /\ StoreOk(q) /\ SpentOk(q)
    BY DEF IInv, RequestInv
  <2>1. PlaceOk(q)'
    BY <1>0, <2>0, <1>b DEF DelOld, TypeOK, PlaceOk
  <2>2. TokenOk(q)'
    <3>1. \A p \in Pairs : Settled(p) => Settled(p)'
      BY <1>0, <1>b, PairParts DEF DelOld, TypeOK, Settled
    <3> QED BY <1>0, <2>0, <1>b, <3>1 DEF DelOld, TypeOK, PlaceOk, TokenOk
  <2>3. StoreOk(q)'
    <3>1. CASE pc'[q] = "expire"
      <4>1. q # r /\ pc[q] = "expire" /\ round[q] \in 1 .. MaxRounds
        BY <1>0, <2>0, <1>b, <3>1 DEF TypeOK, PlaceOk
      <4> QED BY <2>0, <4>1, <3>1, <1>c DEF DelOld, StoreOk
    <3>2. CASE pc'[q] # "expire"
      BY <1>0, <2>0, <1>a, <1>b, <3>2 DEF DelOld, TypeOK, PlaceOk, StoreOk
    <3> QED BY <3>1, <3>2
  <2>4. SpentOk(q)'
    <3>1. \A p \in Pairs : ~Present(<<"refresh", p>>) => ~Present(<<"refresh", p>>)'
      BY <1>a, OwnKeys
    <3>2. CASE q = r
      <4>1. presented[r] \in Pairs /\ old[r] \in {presented[r], NoPair}
        BY <1>0 DEF DelOld, TypeOK, PlaceOk, TokenOk
      <4>2. pc'[r] # "delAccess" /\ old'[r] = old[r] /\ presented'[r] = presented[r] /\ kind'[r] = "refresh"
        BY <1>0, <1>b DEF DelOld, PlaceOk
      <4>3. old[r] = NoPair => ~Present(<<"refresh", presented[r]>>)'
        BY <1>0, <3>1, <4>1 DEF DelOld, PlaceOk, SpentOk
      <4> QED BY <1>b, <3>2, <4>1, <4>2, <4>3 DEF SpentOk
    <3>3. CASE q # r
      <4>1. UNCHANGED <<kind, old, presented>> /\ pc'[q] = pc[q]
        BY <1>0, <1>b, <3>3 DEF DelOld, TypeOK
      <4>2. kind[q] \in {"refresh", "logout"} => presented[q] \in Pairs
        BY <1>0, <2>0 DEF TypeOK, TokenOk
      <4>3. pc[q] = "delAccess" => kind[q] = "logout"
        BY <2>0 DEF PlaceOk
      <4> QED BY <2>0, <3>1, <4>1, <4>2, <4>3 DEF SpentOk
    <3> QED BY <3>2, <3>3
  <2> QED BY <2>1, <2>2, <2>3, <2>4
<1>3. ASSUME NEW k \in Keys PROVE FreshOk(k)'
  <2>0. FreshOk(k)
    BY DEF IInv, KeyInv
  <2> QED BY <1>0, <2>0, KeyParts, OwnKeys DEF DelOld, Del, Set, TypeOK, PlaceOk, FreshOk, Settled
<1>4. QuietInv'
  BY <1>0 DEF DelOld, Del, Set, IInv, TypeOK, PlaceOk, QuietInv
<1>5. NoImmortalSession'
  <2>1. ASSUME NEW k \in Keys, Present(k)', k \notin ttl'
        PROVE  \/ k \in PairKeys(k[2][1])' /\ pc'[k[2][1]] \in {"expire", "cleanup", "dead"}
               \/ k[2] \in dirty'
    <3>1. /\ FreshOk(k)
          /\ Present(k) /\ k \notin ttl =>
               \/ k \in PairKeys(k[2][1]) /\ pc[k[2][1]] \in {"expire", "cleanup", "dead"}
               \/ k[2] \in dirty
      BY DEF IInv, KeyInv, NoImmortalSession
    <3> QED BY <1>0, <2>1, <3>1, KeyParts DEF DelOld, Del, Set, TypeOK, PlaceOk, FreshOk
  <2> QED BY <2>1 DEF NoImmortalSession
<1> QED
  BY <1>1, <1>2, <1>3, <1>4, <1>5 DEF IInv, RequestInv, KeyInv

\* Another refresh field draws another round, with the token spent.
LEMMA NextFieldIInv ==
  ASSUME IInv, NEW r \in Reqs, NextField(r)
  PROVE  IInv'
<1>0. TypeOK /\ PlaceOk(r) /\ TokenOk(r) /\ StoreOk(r) /\ SpentOk(r)
  BY DEF IInv, RequestInv
<1>1. TypeOK'
  BY <1>0 DEF NextField, DrawPair, TypeOK, PCs, Kinds, PlaceOk, TokenOk
<1>2. ASSUME NEW q \in Reqs PROVE PlaceOk(q)' /\ TokenOk(q)' /\ StoreOk(q)' /\ SpentOk(q)'
  <2>0. PlaceOk(q) /\ TokenOk(q) /\ StoreOk(q) /\ SpentOk(q)
    BY DEF IInv, RequestInv
  <2>1. PlaceOk(q)'
    BY <1>0, <2>0 DEF NextField, DrawPair, TypeOK, PlaceOk
  <2>2. TokenOk(q)'
    BY <1>0, <2>0, PairParts DEF NextField, DrawPair, TypeOK, PlaceOk, TokenOk, Settled
  <2>3. StoreOk(q)'
    BY <1>0, <2>0 DEF NextField, DrawPair, TypeOK, PlaceOk, StoreOk
  <2>4. SpentOk(q)'
    BY <1>0, <2>0 DEF NextField, DrawPair, TypeOK, PlaceOk, SpentOk
  <2> QED BY <2>1, <2>2, <2>3, <2>4
<1>3. ASSUME NEW k \in Keys PROVE FreshOk(k)'
  <2>0. FreshOk(k)
    BY DEF IInv, KeyInv
  <2> QED BY <1>0, <2>0, KeyParts DEF NextField, DrawPair, TypeOK, PlaceOk, FreshOk, Settled
<1>4. QuietInv'
  BY <1>0 DEF NextField, DrawPair, IInv, TypeOK, PlaceOk, QuietInv
<1>5. NoImmortalSession'
  <2>1. ASSUME NEW k \in Keys, Present(k)', k \notin ttl'
        PROVE  \/ k \in PairKeys(k[2][1])' /\ pc'[k[2][1]] \in {"expire", "cleanup", "dead"}
               \/ k[2] \in dirty'
    <3>1. /\ FreshOk(k)
          /\ Present(k) /\ k \notin ttl =>
               \/ k \in PairKeys(k[2][1]) /\ pc[k[2][1]] \in {"expire", "cleanup", "dead"}
               \/ k[2] \in dirty
      BY DEF IInv, KeyInv, NoImmortalSession
    <3> QED BY <1>0, <2>1, <3>1, KeyParts DEF NextField, DrawPair, TypeOK, PlaceOk, FreshOk
  <2> QED BY <2>1 DEF NoImmortalSession
<1> QED
  BY <1>1, <1>2, <1>3, <1>4, <1>5 DEF IInv, RequestInv, KeyInv

\* The answer hands out a settled pair.
LEMMA RefreshOkIInv ==
  ASSUME IInv, NEW r \in Reqs, RefreshOk(r)
  PROVE  IInv'
<1>0. TypeOK /\ PlaceOk(r) /\ TokenOk(r) /\ StoreOk(r) /\ SpentOk(r)
  BY DEF IInv, RequestInv
<1>1. TypeOK'
  BY <1>0 DEF RefreshOk, Answer, TypeOK, PCs, Kinds, PlaceOk, TokenOk
<1>2. ASSUME NEW q \in Reqs PROVE PlaceOk(q)' /\ TokenOk(q)' /\ StoreOk(q)' /\ SpentOk(q)'
  <2>0. PlaceOk(q) /\ TokenOk(q) /\ StoreOk(q) /\ SpentOk(q)
    BY DEF IInv, RequestInv
  <2>1. PlaceOk(q)'
    BY <1>0, <2>0 DEF RefreshOk, Answer, TypeOK, PlaceOk
  <2>2. TokenOk(q)'
    BY <1>0, <2>0, PairParts DEF RefreshOk, Answer, TypeOK, PlaceOk, TokenOk, Settled
  <2>3. StoreOk(q)'
    BY <1>0, <2>0 DEF RefreshOk, Answer, TypeOK, PlaceOk, StoreOk
  <2>4. SpentOk(q)'
    BY <1>0, <2>0 DEF RefreshOk, Answer, TypeOK, PlaceOk, SpentOk
  <2> QED BY <2>1, <2>2, <2>3, <2>4
<1>3. ASSUME NEW k \in Keys PROVE FreshOk(k)'
  <2>0. FreshOk(k)
    BY DEF IInv, KeyInv
  <2> QED BY <1>0, <2>0, KeyParts DEF RefreshOk, Answer, TypeOK, PlaceOk, FreshOk, Settled
<1>4. QuietInv'
  BY <1>0 DEF RefreshOk, Answer, IInv, TypeOK, PlaceOk, QuietInv
<1>5. NoImmortalSession'
  <2>1. ASSUME NEW k \in Keys, Present(k)', k \notin ttl'
        PROVE  \/ k \in PairKeys(k[2][1])' /\ pc'[k[2][1]] \in {"expire", "cleanup", "dead"}
               \/ k[2] \in dirty'
    <3>1. /\ FreshOk(k)
          /\ Present(k) /\ k \notin ttl =>
               \/ k \in PairKeys(k[2][1]) /\ pc[k[2][1]] \in {"expire", "cleanup", "dead"}
               \/ k[2] \in dirty
      BY DEF IInv, KeyInv, NoImmortalSession
    <3> QED BY <1>0, <2>1, <3>1, KeyParts DEF RefreshOk, Answer, TypeOK, PlaceOk, FreshOk
  <2> QED BY <2>1 DEF NoImmortalSession
<1> QED
  BY <1>1, <1>2, <1>3, <1>4, <1>5 DEF IInv, RequestInv, KeyInv

\* The clean-up removes the keys of its own round, or the pair counts as dirty.
LEMMA CleanupIInv ==
  ASSUME IInv, NEW r \in Reqs, Cleanup(r)
  PROVE  IInv'
<1>0. TypeOK /\ PlaceOk(r) /\ TokenOk(r) /\ StoreOk(r) /\ SpentOk(r)
  BY DEF IInv, RequestInv
<1>1. TypeOK'
  BY <1>0, OwnKeys DEF Cleanup, Answer, Del, Set, TypeOK, PCs, Kinds, PlaceOk, TokenOk
<1>2. ASSUME NEW q \in Reqs PROVE PlaceOk(q)' /\ TokenOk(q)' /\ StoreOk(q)' /\ SpentOk(q)'
  <2>0. PlaceOk(q) /\ TokenOk(q) /\ StoreOk(q) /\ SpentOk(q)
    BY DEF IInv, RequestInv
  <2>1. PlaceOk(q)'
    BY <1>0, <2>0 DEF Cleanup, Answer, Del, Set, TypeOK, PlaceOk
  <2>2. TokenOk(q)'
    BY <1>0, <2>0, PairParts DEF Cleanup, Answer, Del, Set, TypeOK, PlaceOk, TokenOk, Settled
  <2>3. StoreOk(q)'
    <3>1. CASE q = r
      BY <1>0, <2>0, <3>1, OwnKeys DEF Cleanup, Answer, Del, Set, TypeOK, PlaceOk, StoreOk
    <3>2. CASE q # r
      BY <1>0, <2>0, <3>2, OwnKeys, PairParts, SMTT(30) DEF Cleanup, Answer, Del, Set, TypeOK, PlaceOk, TokenOk, StoreOk, Settled
    <3> QED BY <3>1, <3>2
  <2>4. SpentOk(q)'
    <3>1. CASE q = r
      BY <1>0, <2>0, <3>1, OwnKeys, PairParts, ZenonT(40) DEF Cleanup, Answer, Del, Set, TypeOK, PlaceOk, TokenOk, SpentOk, Settled
    <3>2. CASE q # r
      BY <1>0, <2>0, <3>2, OwnKeys, PairParts DEF Cleanup, Answer, Del, Set, TypeOK, PlaceOk, TokenOk, SpentOk, Settled
    <3> QED BY <3>1, <3>2
  <2> QED BY <2>1, <2>2, <2>3, <2>4
<1>3. ASSUME NEW k \in Keys PROVE FreshOk(k)'
  <2>0. FreshOk(k)
    BY DEF IInv, KeyInv
  <2> QED BY <1>0, <2>0, KeyParts, OwnKeys DEF Cleanup, Answer, Del, Set, TypeOK, PlaceOk, FreshOk, Settled
<1>4. QuietInv'
  BY <1>0 DEF Cleanup, Answer, Del, Set, IInv, TypeOK, PlaceOk, QuietInv
<1>5. NoImmortalSession'
  <2>1. ASSUME NEW k \in Keys, Present(k)', k \notin ttl'
        PROVE  \/ k \in PairKeys(k[2][1])' /\ pc'[k[2][1]] \in {"expire", "cleanup", "dead"}
               \/ k[2] \in dirty'
    <3>1. /\ FreshOk(k)
          /\ Present(k) /\ k \notin ttl =>
               \/ k \in PairKeys(k[2][1]) /\ pc[k[2][1]] \in {"expire", "cleanup", "dead"}
               \/ k[2] \in dirty
      BY DEF IInv, KeyInv, NoImmortalSession
    <3> QED BY <1>0, <2>1, <3>1, KeyParts DEF Cleanup, Answer, Del, Set, TypeOK, PlaceOk, FreshOk
  <2> QED BY <2>1 DEF NoImmortalSession
<1> QED
  BY <1>1, <1>2, <1>3, <1>4, <1>5 DEF IInv, RequestInv, KeyInv

\* So does the commit of a login.
LEMMA LoginCommitIInv ==
  ASSUME IInv, NEW r \in Reqs, LoginCommit(r)
  PROVE  IInv'
<1>0. TypeOK /\ PlaceOk(r) /\ TokenOk(r) /\ StoreOk(r) /\ SpentOk(r)
  BY DEF IInv, RequestInv
<1>1. TypeOK'
  BY <1>0 DEF LoginCommit, Answer, TypeOK, PCs, Kinds, PlaceOk, TokenOk
<1>2. ASSUME NEW q \in Reqs PROVE PlaceOk(q)' /\ TokenOk(q)' /\ StoreOk(q)' /\ SpentOk(q)'
  <2>0. PlaceOk(q) /\ TokenOk(q) /\ StoreOk(q) /\ SpentOk(q)
    BY DEF IInv, RequestInv
  <2>1. PlaceOk(q)'
    BY <1>0, <2>0 DEF LoginCommit, Answer, TypeOK, PlaceOk
  <2>2. TokenOk(q)'
    BY <1>0, <2>0, PairParts DEF LoginCommit, Answer, TypeOK, PlaceOk, TokenOk, Settled
  <2>3. StoreOk(q)'
    BY <1>0, <2>0 DEF LoginCommit, Answer, TypeOK, PlaceOk, StoreOk
  <2>4. SpentOk(q)'
    BY <1>0, <2>0 DEF LoginCommit, Answer, TypeOK, PlaceOk, SpentOk
  <2> QED BY <2>1, <2>2, <2>3, <2>4
<1>3. ASSUME NEW k \in Keys PROVE FreshOk(k)'
  <2>0. FreshOk(k)
    BY DEF IInv, KeyInv
  <2> QED BY <1>0, <2>0, KeyParts DEF LoginCommit, Answer, TypeOK, PlaceOk, FreshOk, Settled
<1>4. QuietInv'
  BY <1>0 DEF LoginCommit, Answer, IInv, TypeOK, PlaceOk, QuietInv
<1>5. NoImmortalSession'
  <2>1. ASSUME NEW k \in Keys, Present(k)', k \notin ttl'
        PROVE  \/ k \in PairKeys(k[2][1])' /\ pc'[k[2][1]] \in {"expire", "cleanup", "dead"}
               \/ k[2] \in dirty'
    <3>1. /\ FreshOk(k)
          /\ Present(k) /\ k \notin ttl =>
               \/ k \in PairKeys(k[2][1]) /\ pc[k[2][1]] \in {"expire", "cleanup", "dead"}
               \/ k[2] \in dirty
      BY DEF IInv, KeyInv, NoImmortalSession
    <3> QED BY <1>0, <2>1, <3>1, KeyParts DEF LoginCommit, Answer, TypeOK, PlaceOk, FreshOk
  <2> QED BY <2>1 DEF NoImmortalSession
<1> QED
  BY <1>1, <1>2, <1>3, <1>4, <1>5 DEF IInv, RequestInv, KeyInv

\* A failed commit leaves its pair in Redis, and on record as dirty.
LEMMA LoginCommitFailsIInv ==
  ASSUME IInv, NEW r \in Reqs, LoginCommitFails(r)
  PROVE  IInv'
<1>0. TypeOK /\ PlaceOk(r) /\ TokenOk(r) /\ StoreOk(r) /\ SpentOk(r)
  BY DEF IInv, RequestInv
<1>1. TypeOK'
  <2>1. Pair(r) \in Pairs
    BY <1>0, OwnKeys DEF LoginCommitFails, TypeOK, PlaceOk
  <2>2. pc' \in [Reqs -> PCs] /\ result' \in [Reqs -> {"none", "ok", "error"}]
    BY <1>0 DEF LoginCommitFails, Answer, TypeOK, PCs
  <2> QED BY <1>0, <2>1, <2>2 DEF LoginCommitFails, TypeOK
<1>2. ASSUME NEW q \in Reqs PROVE PlaceOk(q)' /\ TokenOk(q)' /\ StoreOk(q)' /\ SpentOk(q)'
  <2>0. PlaceOk(q) /\ TokenOk(q) /\ StoreOk(q) /\ SpentOk(q)
    BY DEF IInv, RequestInv
  <2>1. PlaceOk(q)'
    BY <1>0, <2>0 DEF LoginCommitFails, Answer, TypeOK, PlaceOk
  <2>2. TokenOk(q)'
    BY <1>0, <2>0, PairParts DEF LoginCommitFails, Answer, TypeOK, PlaceOk, TokenOk, Settled
  <2>3. StoreOk(q)'
    BY <1>0, <2>0 DEF LoginCommitFails, Answer, TypeOK, PlaceOk, StoreOk
  <2>4. SpentOk(q)'
    BY <1>0, <2>0 DEF LoginCommitFails, Answer, TypeOK, PlaceOk, SpentOk
  <2> QED BY <2>1, <2>2, <2>3, <2>4
<1>3. ASSUME NEW k \in Keys PROVE FreshOk(k)'
  <2>0. FreshOk(k)
    BY DEF IInv, KeyInv
  <2> QED BY <1>0, <2>0, KeyParts DEF LoginCommitFails, Answer, TypeOK, PlaceOk, FreshOk, Settled
<1>4. QuietInv'
  BY <1>0 DEF LoginCommitFails, Answer, IInv, TypeOK, PlaceOk, QuietInv
<1>5. NoImmortalSession'
  <2>1. ASSUME NEW k \in Keys, Present(k)', k \notin ttl'
        PROVE  \/ k \in PairKeys(k[2][1])' /\ pc'[k[2][1]] \in {"expire", "cleanup", "dead"}
               \/ k[2] \in dirty'
    <3>1. /\ FreshOk(k)
          /\ Present(k) /\ k \notin ttl =>
               \/ k \in PairKeys(k[2][1]) /\ pc[k[2][1]] \in {"expire", "cleanup", "dead"}
               \/ k[2] \in dirty
      BY DEF IInv, KeyInv, NoImmortalSession
    <3> QED BY <1>0, <2>1, <3>1, KeyParts DEF LoginCommitFails, Answer, TypeOK, PlaceOk, FreshOk
  <2> QED BY <2>1 DEF NoImmortalSession
<1> QED
  BY <1>1, <1>2, <1>3, <1>4, <1>5 DEF IInv, RequestInv, KeyInv

\* logout deletes what it was called with.
LEMMA LogoutDelRefreshIInv ==
  ASSUME IInv, NEW r \in Reqs, LogoutDelRefresh(r)
  PROVE  IInv'
<1>0. TypeOK /\ PlaceOk(r) /\ TokenOk(r) /\ StoreOk(r) /\ SpentOk(r)
  BY DEF IInv, RequestInv
<1>k. <<"refresh", old[r]>> \in Keys /\ old[r] = presented[r]
  BY <1>0, OwnKeys DEF LogoutDelRefresh, TypeOK, PlaceOk, TokenOk
<1>a. /\ hash' \in [Keys -> {"absent", "plain", "blocked"}]
      /\ \A k \in Keys : hash'[k] \in {hash[k], "absent"} /\ (k \in ttl' <=> k \in ttl /\ Present(k)')
      /\ ttl' \subseteq ttl
      /\ ttl \cup ended \subseteq ttl' \cup ended'
      /\ ended' \subseteq Keys
  BY <1>0, <1>k DEF LogoutDelRefresh, LogoutDel, Del, Set, TypeOK
<1>b. /\ pc'[r] = "delAccess" => bearer[r] # NoPair /\ ~Present(<<"refresh", old[r]>>)'
      /\ pc'[r] \in {"done", "delAccess"}
      /\ pc'[r] = "done" <=> result'[r] # "none"
      /\ \A q \in Reqs : q # r => pc'[q] = pc[q] /\ result'[q] = result[q]
  BY <1>0, <1>k DEF LogoutDelRefresh, LogoutDel, Del, Set, Answer, TypeOK, PlaceOk
<1>c. ASSUME NEW q \in Reqs, q # r, pc[q] = "expire", NEW k \in PairKeys(q)
      PROVE  k \in Keys /\ hash'[k] = hash[k]
  <2>1. PlaceOk(q)
    BY DEF IInv, RequestInv
  <2>2. Pair(q) \in Pairs
    BY <1>0, <1>c, <2>1, OwnKeys DEF TypeOK, PlaceOk
  <2>3. k # <<"refresh", old[r]>>
    BY <1>0, <1>c, <1>k, <2>2, PairParts DEF LogoutDelRefresh, TypeOK, TokenOk, Settled
  <2> QED BY <1>c, <2>2, <2>3, OwnKeys DEF LogoutDelRefresh, LogoutDel, Del, Set
<1>1. TypeOK'
  <2>1. pc' \in [Reqs -> PCs] /\ result' \in [Reqs -> {"none", "ok", "error"}]
    BY <1>0 DEF LogoutDelRefresh, LogoutDel, Answer, TypeOK, PCs
  <2>2. UNCHANGED <<kind, old, presented, bearer, round, cookie, panel, dirty>>
    BY DEF LogoutDelRefresh
  <2>3. swallowed' \subseteq Reqs
    BY <1>0 DEF LogoutDelRefresh, LogoutDel, TypeOK
  <2> QED BY <1>0, <1>a, <2>1, <2>2, <2>3 DEF TypeOK
<1>2. ASSUME NEW q \in Reqs PROVE PlaceOk(q)' /\ TokenOk(q)' /\ StoreOk(q)' /\ SpentOk(q)'
  <2>0. PlaceOk(q) /\ TokenOk(q) /\ StoreOk(q) /\ SpentOk(q)
    BY DEF IInv, RequestInv
  <2>1. PlaceOk(q)'
    BY <1>0, <2>0, <1>b DEF LogoutDelRefresh, TypeOK, PlaceOk
  <2>2. TokenOk(q)'
    <3>1. \A p \in Pairs : Settled(p) => Settled(p)'
      BY <1>0, <1>b, PairParts DEF LogoutDelRefresh, TypeOK, Settled
    <3> QED BY <1>0, <2>0, <1>b, <3>1 DEF LogoutDelRefresh, TypeOK, PlaceOk, TokenOk
  <2>3. StoreOk(q)'
    <3>1. CASE pc'[q] = "expire"
      <4>1. q # r /\ pc[q] = "expire" /\ round[q] \in 1 .. MaxRounds
        BY <1>0, <2>0, <1>b, <3>1 DEF TypeOK, PlaceOk
      <4> QED BY <2>0, <4>1, <3>1, <1>c DEF LogoutDelRefresh, StoreOk
    <3>2. CASE pc'[q] # "expire"
      BY <1>0, <2>0, <1>a, <1>b, <3>2 DEF LogoutDelRefresh, TypeOK, PlaceOk, StoreOk
    <3> QED BY <3>1, <3>2
  <2>4. SpentOk(q)'
    <3>1. \A p \in Pairs : ~Present(<<"refresh", p>>) => ~Present(<<"refresh", p>>)'
      BY <1>a, OwnKeys
    <3>2. CASE q = r
      BY <1>0, <1>b, <1>k, <3>2 DEF LogoutDelRefresh, TypeOK, PlaceOk, SpentOk
    <3>3. CASE q # r
      <4>1. UNCHANGED <<kind, old, presented>> /\ pc'[q] = pc[q]
        BY <1>0, <1>b, <3>3 DEF LogoutDelRefresh, TypeOK
      <4>2. kind[q] \in {"refresh", "logout"} => presented[q] \in Pairs
        BY <1>0, <2>0 DEF TypeOK, TokenOk
      <4>3. pc[q] = "delAccess" => kind[q] = "logout"
        BY <2>0 DEF PlaceOk
      <4> QED BY <2>0, <3>1, <4>1, <4>2, <4>3 DEF SpentOk
    <3> QED BY <3>2, <3>3
  <2> QED BY <2>1, <2>2, <2>3, <2>4
<1>3. ASSUME NEW k \in Keys PROVE FreshOk(k)'
  <2>0. FreshOk(k)
    BY DEF IInv, KeyInv
  <2> QED BY <1>0, <2>0, KeyParts, OwnKeys DEF LogoutDelRefresh, LogoutDel, Answer, Del, Set, TypeOK, PlaceOk, FreshOk, Settled
<1>4. QuietInv'
  BY <1>0 DEF LogoutDelRefresh, LogoutDel, Answer, Del, Set, IInv, TypeOK, PlaceOk, QuietInv
<1>5. NoImmortalSession'
  <2>1. ASSUME NEW k \in Keys, Present(k)', k \notin ttl'
        PROVE  \/ k \in PairKeys(k[2][1])' /\ pc'[k[2][1]] \in {"expire", "cleanup", "dead"}
               \/ k[2] \in dirty'
    <3>1. /\ FreshOk(k)
          /\ Present(k) /\ k \notin ttl =>
               \/ k \in PairKeys(k[2][1]) /\ pc[k[2][1]] \in {"expire", "cleanup", "dead"}
               \/ k[2] \in dirty
      BY DEF IInv, KeyInv, NoImmortalSession
    <3> QED BY <1>0, <2>1, <3>1, KeyParts DEF LogoutDelRefresh, LogoutDel, Answer, Del, Set, TypeOK, PlaceOk, FreshOk
  <2> QED BY <2>1 DEF NoImmortalSession
<1> QED
  BY <1>1, <1>2, <1>3, <1>4, <1>5 DEF IInv, RequestInv, KeyInv

\* The access token goes after the refresh token.
LEMMA LogoutDelAccessIInv ==
  ASSUME IInv, NEW r \in Reqs, LogoutDelAccess(r)
  PROVE  IInv'
<1>0. TypeOK /\ PlaceOk(r) /\ TokenOk(r) /\ StoreOk(r) /\ SpentOk(r)
  BY DEF IInv, RequestInv
<1>k. <<"access", bearer[r]>> \in Keys
  BY <1>0, OwnKeys DEF LogoutDelAccess, TypeOK, TokenOk
<1>a. /\ hash' \in [Keys -> {"absent", "plain", "blocked"}]
      /\ \A k \in Keys : hash'[k] \in {hash[k], "absent"} /\ (k \in ttl' <=> k \in ttl /\ Present(k)')
      /\ ttl' \subseteq ttl
      /\ ttl \cup ended \subseteq ttl' \cup ended'
      /\ ended' \subseteq Keys
  BY <1>0, <1>k DEF LogoutDelAccess, LogoutDel, Del, Set, TypeOK
<1>b. /\ pc' = [pc EXCEPT ![r] = "done"]
      /\ result' = [result EXCEPT ![r] = "ok"]
  BY DEF LogoutDelAccess, LogoutDel, Answer
<1>c. ASSUME NEW q \in Reqs, q # r, pc[q] = "expire", NEW k \in PairKeys(q)
      PROVE  k \in Keys /\ hash'[k] = hash[k]
  <2>1. PlaceOk(q)
    BY DEF IInv, RequestInv
  <2>2. Pair(q) \in Pairs
    BY <1>0, <1>c, <2>1, OwnKeys DEF TypeOK, PlaceOk
  <2>3. k # <<"access", bearer[r]>>
    BY <1>0, <1>c, <1>k, <2>2, PairParts DEF LogoutDelAccess, TypeOK, TokenOk, Settled
  <2> QED BY <1>c, <2>2, <2>3, OwnKeys DEF LogoutDelAccess, LogoutDel, Del, Set
<1>1. TypeOK'
  <2>1. pc' \in [Reqs -> PCs] /\ result' \in [Reqs -> {"none", "ok", "error"}]
    BY <1>0 DEF LogoutDelAccess, LogoutDel, Answer, TypeOK, PCs
  <2>2. UNCHANGED <<kind, old, presented, bearer, round, cookie, panel, dirty>>
    BY DEF LogoutDelAccess
  <2>3. swallowed' \subseteq Reqs
    BY <1>0 DEF LogoutDelAccess, LogoutDel, TypeOK
  <2> QED BY <1>0, <1>a, <2>1, <2>2, <2>3 DEF TypeOK
<1>2. ASSUME NEW q \in Reqs PROVE PlaceOk(q)' /\ TokenOk(q)' /\ StoreOk(q)' /\ SpentOk(q)'
  <2>0. PlaceOk(q) /\ TokenOk(q) /\ StoreOk(q) /\ SpentOk(q)
    BY DEF IInv, RequestInv
  <2>1. PlaceOk(q)'
    BY <1>0, <2>0, <1>b DEF LogoutDelAccess, TypeOK, PlaceOk
  <2>2. TokenOk(q)'
    <3>1. \A p \in Pairs : Settled(p) => Settled(p)'
      BY <1>0, <1>b, PairParts DEF LogoutDelAccess, TypeOK, Settled
    <3> QED BY <1>0, <2>0, <1>b, <3>1 DEF LogoutDelAccess, TypeOK, PlaceOk, TokenOk
  <2>3. StoreOk(q)'
    <3>1. CASE pc'[q] = "expire"
      <4>1. q # r /\ pc[q] = "expire" /\ round[q] \in 1 .. MaxRounds
        BY <1>0, <2>0, <1>b, <3>1 DEF TypeOK, PlaceOk
      <4> QED BY <2>0, <4>1, <3>1, <1>c DEF LogoutDelAccess, StoreOk
    <3>2. CASE pc'[q] # "expire"
      BY <1>0, <2>0, <1>a, <1>b, <3>2 DEF LogoutDelAccess, TypeOK, PlaceOk, StoreOk
    <3> QED BY <3>1, <3>2
  <2>4. SpentOk(q)'
    <3>1. \A p \in Pairs : ~Present(<<"refresh", p>>) => ~Present(<<"refresh", p>>)'
      BY <1>a, OwnKeys
    <3>2. CASE q = r
      BY <1>0, <1>b, <3>2 DEF LogoutDelAccess, TypeOK, PlaceOk, SpentOk
    <3>3. CASE q # r
      <4>1. UNCHANGED <<kind, old, presented>> /\ pc'[q] = pc[q]
        BY <1>0, <1>b, <3>3 DEF LogoutDelAccess, TypeOK
      <4>2. kind[q] \in {"refresh", "logout"} => presented[q] \in Pairs
        BY <1>0, <2>0 DEF TypeOK, TokenOk
      <4>3. pc[q] = "delAccess" => kind[q] = "logout"
        BY <2>0 DEF PlaceOk
      <4> QED BY <2>0, <3>1, <4>1, <4>2, <4>3 DEF SpentOk
    <3> QED BY <3>2, <3>3
  <2> QED BY <2>1, <2>2, <2>3, <2>4
<1>3. ASSUME NEW k \in Keys PROVE FreshOk(k)'
  <2>0. FreshOk(k)
    BY DEF IInv, KeyInv
  <2> QED BY <1>0, <2>0, KeyParts, OwnKeys DEF LogoutDelAccess, LogoutDel, Answer, Del, Set, TypeOK, PlaceOk, FreshOk, Settled
<1>4. QuietInv'
  BY <1>0 DEF LogoutDelAccess, LogoutDel, Answer, Del, Set, IInv, TypeOK, PlaceOk, QuietInv
<1>5. NoImmortalSession'
  <2>1. ASSUME NEW k \in Keys, Present(k)', k \notin ttl'
        PROVE  \/ k \in PairKeys(k[2][1])' /\ pc'[k[2][1]] \in {"expire", "cleanup", "dead"}
               \/ k[2] \in dirty'
    <3>1. /\ FreshOk(k)
          /\ Present(k) /\ k \notin ttl =>
               \/ k \in PairKeys(k[2][1]) /\ pc[k[2][1]] \in {"expire", "cleanup", "dead"}
               \/ k[2] \in dirty
      BY DEF IInv, KeyInv, NoImmortalSession
    <3> QED BY <1>0, <2>1, <3>1, KeyParts DEF LogoutDelAccess, LogoutDel, Answer, Del, Set, TypeOK, PlaceOk, FreshOk
  <2> QED BY <2>1 DEF NoImmortalSession
<1> QED
  BY <1>1, <1>2, <1>3, <1>4, <1>5 DEF IInv, RequestInv, KeyInv

\* A request whose process dies keeps what it had.
LEMMA KillIInv ==
  ASSUME IInv, NEW r \in Reqs, Kill(r)
  PROVE  IInv'
<1>0. TypeOK /\ PlaceOk(r) /\ TokenOk(r) /\ StoreOk(r) /\ SpentOk(r)
  BY DEF IInv, RequestInv
<1>1. TypeOK'
  BY <1>0 DEF Kill, TypeOK, PCs, Kinds, PlaceOk, TokenOk
<1>2. ASSUME NEW q \in Reqs PROVE PlaceOk(q)' /\ TokenOk(q)' /\ StoreOk(q)' /\ SpentOk(q)'
  <2>0. PlaceOk(q) /\ TokenOk(q) /\ StoreOk(q) /\ SpentOk(q)
    BY DEF IInv, RequestInv
  <2>1. PlaceOk(q)'
    BY <1>0, <2>0 DEF Kill, TypeOK, PlaceOk
  <2>2. TokenOk(q)'
    BY <1>0, <2>0, PairParts DEF Kill, TypeOK, PlaceOk, TokenOk, Settled
  <2>3. StoreOk(q)'
    BY <1>0, <2>0 DEF Kill, TypeOK, PlaceOk, StoreOk
  <2>4. SpentOk(q)'
    BY <1>0, <2>0 DEF Kill, TypeOK, PlaceOk, SpentOk
  <2> QED BY <2>1, <2>2, <2>3, <2>4
<1>3. ASSUME NEW k \in Keys PROVE FreshOk(k)'
  <2>0. FreshOk(k)
    BY DEF IInv, KeyInv
  <2> QED BY <1>0, <2>0, KeyParts DEF Kill, TypeOK, PlaceOk, FreshOk, Settled
<1>4. QuietInv'
  BY <1>0 DEF Kill, IInv, TypeOK, PlaceOk, QuietInv
<1>5. NoImmortalSession'
  <2>1. ASSUME NEW k \in Keys, Present(k)', k \notin ttl'
        PROVE  \/ k \in PairKeys(k[2][1])' /\ pc'[k[2][1]] \in {"expire", "cleanup", "dead"}
               \/ k[2] \in dirty'
    <3>1. /\ FreshOk(k)
          /\ Present(k) /\ k \notin ttl =>
               \/ k \in PairKeys(k[2][1]) /\ pc[k[2][1]] \in {"expire", "cleanup", "dead"}
               \/ k[2] \in dirty
      BY DEF IInv, KeyInv, NoImmortalSession
    <3> QED BY <1>0, <2>1, <3>1, KeyParts DEF Kill, TypeOK, PlaceOk, FreshOk
  <2> QED BY <2>1 DEF NoImmortalSession
<1> QED
  BY <1>1, <1>2, <1>3, <1>4, <1>5 DEF IInv, RequestInv, KeyInv

\* A key that expires belongs to a settled pair.
LEMMA ExpireKeyIInv ==
  ASSUME IInv, NEW k0 \in Keys, ExpireKey(k0)
  PROVE  IInv'
<1>0. TypeOK /\ FreshOk(k0) /\ k0 \in ttl
  BY DEF IInv, KeyInv, ExpireKey
<1>a. /\ UNCHANGED <<requests, panel, dirty>>
      /\ hash' = [hash EXCEPT ![k0] = "absent"]
      /\ ttl' = ttl \ {k0} /\ ended' = ended \cup {k0}
  BY <1>0 DEF ExpireKey, Del, Set, TypeOK
<1>1. TypeOK'
  <2>1. ttl' \subseteq {k \in Keys : hash'[k] # "absent"} /\ hash' \in [Keys -> {"absent", "plain", "blocked"}]
    BY <1>0, <1>a DEF TypeOK
  <2>2. swallowed' = swallowed
    BY DEF ExpireKey
  <2> QED BY <1>0, <1>a, <2>1, <2>2 DEF TypeOK
<1>2. ASSUME NEW q \in Reqs PROVE PlaceOk(q)' /\ TokenOk(q)' /\ StoreOk(q)' /\ SpentOk(q)'
  <2>0. PlaceOk(q) /\ TokenOk(q) /\ StoreOk(q) /\ SpentOk(q)
    BY DEF IInv, RequestInv
  <2>1. PlaceOk(q)' /\ TokenOk(q)'
    BY <1>a, <2>0 DEF PlaceOk, TokenOk, Settled
  <2>2. ASSUME pc[q] = "expire" PROVE k0 \notin PairKeys(q)
    <3>1. round[q] \in 1 .. MaxRounds
      BY <1>0, <2>0, <2>2 DEF TypeOK, PlaceOk
    <3> QED BY <1>0, <2>2, <3>1 DEF FreshOk, Settled
  <2>3. StoreOk(q)'
    <3>1. pc[q] = "expire" => PairKeys(q) \subseteq Keys
      BY <1>0, <2>0, OwnKeys DEF TypeOK, PlaceOk
    <3> QED BY <1>0, <1>a, <2>0, <2>2, <3>1 DEF TypeOK, StoreOk
  <2>4. SpentOk(q)'
    <3>1. kind[q] \in {"refresh", "logout"} => <<"refresh", presented[q]>> \in Keys
      BY <1>0, <2>0, OwnKeys DEF TypeOK, TokenOk
    <3>2. pc[q] = "delAccess" => kind[q] = "logout"
      BY <2>0 DEF PlaceOk
    <3> QED BY <1>0, <1>a, <2>0, <3>1, <3>2 DEF TypeOK, SpentOk
  <2> QED BY <2>1, <2>3, <2>4
<1>3. ASSUME NEW k \in Keys PROVE FreshOk(k)'
  <2>1. FreshOk(k)
    BY DEF IInv, KeyInv
  <2> QED BY <1>0, <1>a, <2>1 DEF TypeOK, FreshOk, Settled
<1>4. QuietInv'
  BY <1>0, <1>a DEF IInv, TypeOK, QuietInv
<1>5. NoImmortalSession'
  BY <1>0, <1>a DEF IInv, TypeOK, NoImmortalSession
<1> QED
  BY <1>1, <1>2, <1>3, <1>4, <1>5 DEF IInv, RequestInv, KeyInv

\* The panel flags every session that is there; when it is quiet nobody is
\* about to store one.
LEMMA BlockIInv ==
  ASSUME IInv, Block
  PROVE  IInv'
<1>0. TypeOK /\ QuietInv
  BY DEF IInv
<1>a. /\ UNCHANGED <<requests, ttl, late, history>>
      /\ hash' \in [Keys -> {"absent", "blocked"}]
      /\ \A k \in Keys : Present(k)' <=> Present(k)
  BY <1>0 DEF Block, Set, TypeOK
<1>1. TypeOK'
  <2>1. ttl' \subseteq {k \in Keys : hash'[k] # "absent"} /\ hash' \in [Keys -> {"absent", "plain", "blocked"}]
    BY <1>0, <1>a DEF TypeOK
  <2>2. disabled' \in BOOLEAN /\ quiet' \in BOOLEAN
    BY DEF Block
  <2> QED BY <1>0, <1>a, <2>1, <2>2 DEF TypeOK
<1>2. ASSUME NEW q \in Reqs PROVE PlaceOk(q)' /\ TokenOk(q)' /\ StoreOk(q)' /\ SpentOk(q)'
  <2>0. PlaceOk(q) /\ TokenOk(q) /\ StoreOk(q) /\ SpentOk(q)
    BY DEF IInv, RequestInv
  <2>1. PlaceOk(q)' /\ TokenOk(q)'
    BY <1>a, <2>0 DEF PlaceOk, TokenOk, Settled
  <2>2. StoreOk(q)'
    <3>1. pc[q] = "expire" => PairKeys(q) \subseteq Keys
      BY <1>0, <2>0, OwnKeys DEF TypeOK, PlaceOk
    <3> QED BY <1>a, <2>0, <3>1 DEF StoreOk
  <2>3. SpentOk(q)'
    <3>1. kind[q] \in {"refresh", "logout"} => <<"refresh", presented[q]>> \in Keys
      BY <1>0, <2>0, OwnKeys DEF TypeOK, TokenOk
    <3>2. pc[q] = "delAccess" => kind[q] = "logout"
      BY <2>0 DEF PlaceOk
    <3> QED BY <1>a, <2>0, <3>1, <3>2 DEF SpentOk
  <2> QED BY <2>1, <2>2, <2>3
<1>3. ASSUME NEW k \in Keys PROVE FreshOk(k)'
  <2>1. FreshOk(k)
    BY DEF IInv, KeyInv
  <2> QED BY <1>a, <2>1 DEF FreshOk, Settled
<1>4. QuietInv'
  <2>1. disabled' /\ \A k \in Keys : hash'[k] # "plain"
    BY <1>a DEF Block
  <2>2. ASSUME quiet', NEW r \in Reqs
        PROVE  pc[r] \notin {"store", "expire", "commit", "delOld", "fields"}
    <3>1. ~HoldsRow(r) /\ ~PastGuard(r)
      BY <2>2 DEF Block
    <3>2. PlaceOk(r)
      BY DEF IInv, RequestInv
    <3> QED BY <3>1, <3>2 DEF PlaceOk, HoldsRow, PastGuard
  <2> QED BY <1>a, <2>1, <2>2 DEF QuietInv
<1>5. NoImmortalSession'
  BY <1>a DEF IInv, NoImmortalSession
<1> QED
  BY <1>1, <1>2, <1>3, <1>4, <1>5 DEF IInv, RequestInv, KeyInv

\* Every step keeps the invariant.
LEMMA NextIInv == IInv /\ [Next]_vars => IInv'
<1> SUFFICES ASSUME IInv, [Next]_vars PROVE IInv'
  OBVIOUS
<1>1. ASSUME NEW r \in Reqs, Step(r) PROVE IInv'
  BY <1>1, GuardRefreshIInv, GuardLogoutIInv, GuardLogoutAccessIInv, GuardResourceIInv,
     LoginCheckIInv, StoreIInv, ExpireIInv, DelOldIInv, NextFieldIInv, RefreshOkIInv,
     CleanupIInv, LoginCommitIInv, LoginCommitFailsIInv, LogoutDelRefreshIInv,
     LogoutDelAccessIInv DEF Step
<1>2. CASE UNCHANGED vars
  <2>1. TypeOK' /\ QuietInv' /\ NoImmortalSession'
    BY <1>2 DEF IInv, TypeOK, QuietInv, NoImmortalSession
  <2>2. ASSUME NEW r \in Reqs PROVE PlaceOk(r)' /\ TokenOk(r)' /\ StoreOk(r)' /\ SpentOk(r)'
    <3>1. PlaceOk(r) /\ TokenOk(r) /\ StoreOk(r) /\ SpentOk(r)
      BY DEF IInv, RequestInv
    <3>2. PlaceOk(r)' /\ TokenOk(r)'
      BY <1>2, <3>1 DEF PlaceOk, TokenOk, Settled
    <3>3. StoreOk(r)' /\ SpentOk(r)'
      BY <1>2, <3>1 DEF StoreOk, SpentOk
    <3> QED BY <3>2, <3>3
  <2>3. ASSUME NEW k \in Keys PROVE FreshOk(k)'
    BY <1>2 DEF IInv, KeyInv, FreshOk, Settled
  <2> QED BY <2>1, <2>2, <2>3 DEF IInv, RequestInv, KeyInv
<1> QED
  BY <1>1, <1>2, CallLoginIInv, CallRefreshIInv, CallLogoutIInv, CallResourceIInv, KillIInv,
     ExpireKeyIInv, BlockIInv DEF Next

\* In every behaviour the types hold, and so does what each request and each key
\* of the Redis sessions relies on.
THEOREM SessionsIInv == Spec => []IInv
<1>1. Init => IInv
  BY InitIInv
<1>2. IInv /\ [Next]_vars => IInv'
  BY NextIInv
<1> QED
  BY <1>1, <1>2, PTL DEF Spec

\* An answered request changes no more.
LEMMA DoneIsFinal ==
  ASSUME IInv, [Next]_vars, NEW q \in Reqs, pc[q] = "done"
  PROVE  /\ pc'[q] = "done" /\ kind'[q] = kind[q] /\ result'[q] = result[q]
         /\ round'[q] = round[q] /\ presented'[q] = presented[q]
<1>0. TypeOK
  BY DEF IInv
<1>1. ASSUME NEW r \in Reqs, CallLogin(r) \/ CallRefresh(r) \/ CallLogout(r) \/ CallResource(r)
      PROVE  /\ pc' = [pc EXCEPT ![r] = pc'[r]] /\ kind' = [kind EXCEPT ![r] = kind'[r]]
             /\ presented' = [presented EXCEPT ![r] = presented'[r]]
             /\ UNCHANGED <<result, round>> /\ r # q
  BY <1>0, <1>1 DEF CallLogin, CallRefresh, CallLogout, CallResource, Call, TypeOK
<1>2. ASSUME NEW r \in Reqs, Step(r) \/ Kill(r)
      PROVE  /\ pc' = [pc EXCEPT ![r] = pc'[r]] /\ result' = [result EXCEPT ![r] = result'[r]]
             /\ round' = [round EXCEPT ![r] = round'[r]]
             /\ UNCHANGED <<kind, presented>> /\ r # q
  BY <1>0, <1>2 DEF Step, Kill, GuardRefresh, GuardLogout, GuardLogoutAccess, GuardResource,
       LoginCheck, Store, Expire, DelOld, NextField, RefreshOk, Cleanup, LoginCommit,
       LoginCommitFails, LogoutDelRefresh, LogoutDelAccess, LogoutDel, Both, DrawPair, Answer, TypeOK
<1> QED
  BY <1>0, <1>1, <1>2 DEF Next, ExpireKey, Block, TypeOK

\* A session that is gone does not come back: no request stores a settled pair.
LEMMA DeadStaysDead ==
  ASSUME IInv, [Next]_vars, NEW k \in Keys, Settled(k[2]), ~Present(k)
  PROVE  ~Present(k)'
<1>0. TypeOK
  BY DEF IInv
<1>1. ASSUME NEW r \in Reqs, Store(r) PROVE ~Present(k)'
  <2>1. k \notin PairKeys(r)
    BY <1>0, <1>1, KeyParts DEF Store, TypeOK, Settled
  <2> QED BY <1>1, <2>1 DEF Store, Set
<1>2. ASSUME NEW r \in Reqs, DelOld(r) \/ Cleanup(r) \/ LogoutDelRefresh(r) \/ LogoutDelAccess(r)
      PROVE  ~Present(k)'
  BY <1>2 DEF DelOld, Cleanup, LogoutDelRefresh, LogoutDelAccess, LogoutDel, Del, Set
<1>3. ASSUME NEW x \in Keys, ExpireKey(x) PROVE ~Present(k)'
  BY <1>3 DEF ExpireKey, Del, Set
<1>4. CASE Block
  BY <1>4 DEF Block, Set
<1>5. ASSUME NEW r \in Reqs,
             \/ CallLogin(r) \/ CallRefresh(r) \/ CallLogout(r) \/ CallResource(r) \/ Kill(r)
             \/ GuardRefresh(r) \/ GuardLogout(r) \/ GuardLogoutAccess(r) \/ GuardResource(r)
             \/ LoginCheck(r) \/ Expire(r) \/ NextField(r) \/ RefreshOk(r)
             \/ LoginCommit(r) \/ LoginCommitFails(r)
      PROVE  hash' = hash
  BY <1>5 DEF CallLogin, CallRefresh, CallLogout, CallResource, Call, Kill, GuardRefresh,
       GuardLogout, GuardLogoutAccess, GuardResource, LoginCheck, Expire, NextField, RefreshOk,
       LoginCommit, LoginCommitFails
<1> QED
  BY <1>1, <1>2, <1>3, <1>4, <1>5 DEF Next, Step

\* A session of an answered request keeps its expiry until it ends: only the
\* clean-up takes one back, and that is the clean-up of its own request.
LEMMA ExpiryIsKept ==
  ASSUME IInv, [Next]_vars, NEW q \in Reqs, pc[q] = "done", NEW k \in PairKeys(q),
         k \in ttl \cup ended
  PROVE  k \in ttl' \cup ended'
<1>1. ASSUME NEW r \in Reqs, Cleanup(r) PROVE k \in ttl' \cup ended'
  <2>1. r # q
    BY <1>1 DEF Cleanup
  <2> QED BY <1>1, <2>1 DEF Cleanup, Del
<1>2. ASSUME NEW r \in Reqs, DelOld(r) PROVE k \in ttl' \cup ended'
  <2>1. TypeOK
    BY DEF IInv
  <2> QED BY <1>2, <2>1 DEF DelOld, Del, TypeOK
<1>3. ASSUME NEW r \in Reqs, LogoutDelRefresh(r) \/ LogoutDelAccess(r)
      PROVE  k \in ttl' \cup ended'
  BY <1>3 DEF LogoutDelRefresh, LogoutDelAccess, LogoutDel, Del
<1>4. ASSUME NEW x \in Keys, ExpireKey(x) PROVE k \in ttl' \cup ended'
  BY <1>4 DEF ExpireKey, Del
<1>5. ASSUME NEW r \in Reqs,
             \/ CallLogin(r) \/ CallRefresh(r) \/ CallLogout(r) \/ CallResource(r) \/ Kill(r)
             \/ GuardRefresh(r) \/ GuardLogout(r) \/ GuardLogoutAccess(r) \/ GuardResource(r)
             \/ LoginCheck(r) \/ Store(r) \/ Expire(r) \/ NextField(r) \/ RefreshOk(r)
             \/ LoginCommit(r) \/ LoginCommitFails(r)
      PROVE  ttl \subseteq ttl' /\ ended' = ended
  BY <1>5 DEF CallLogin, CallRefresh, CallLogout, CallResource, Call, Kill, GuardRefresh,
       GuardLogout, GuardLogoutAccess, GuardResource, LoginCheck, Store, Expire, NextField,
       RefreshOk, LoginCommit, LoginCommitFails
<1> QED
  BY <1>1, <1>2, <1>3, <1>4, <1>5 DEF Next, Step, Block

\* The steps that answer a request.
LEMMA Answers ==
  ASSUME IInv, [Next]_vars, NEW q \in Reqs, pc[q] # "done", pc'[q] = "done"
  PROVE  /\ UNCHANGED panel
         /\ \/ GuardRefresh(q) \/ GuardLogout(q) \/ GuardResource(q) \/ LoginCheck(q)
            \/ RefreshOk(q) \/ Cleanup(q) \/ LoginCommit(q) \/ LoginCommitFails(q)
            \/ LogoutDelRefresh(q) \/ LogoutDelAccess(q)
<1>0. TypeOK
  BY DEF IInv
<1>1. ASSUME NEW r \in Reqs, CallLogin(r) \/ CallRefresh(r) \/ CallLogout(r) \/ CallResource(r) \/ Kill(r)
      PROVE  FALSE
  BY <1>0, <1>1 DEF CallLogin, CallRefresh, CallLogout, CallResource, Call, Kill, TypeOK
<1>2. ASSUME NEW r \in Reqs, GuardLogoutAccess(r) \/ Store(r) \/ Expire(r) \/ DelOld(r) \/ NextField(r)
      PROVE  FALSE
  BY <1>0, <1>2 DEF GuardLogoutAccess, Store, Expire, DelOld, NextField, Both, DrawPair, TypeOK
<1>3. ASSUME NEW r \in Reqs, Step(r) PROVE r = q
  <2>1. pc' = [pc EXCEPT ![r] = pc'[r]]
    BY <1>0, <1>3 DEF Step, GuardRefresh, GuardLogout, GuardLogoutAccess, GuardResource,
         LoginCheck, Store, Expire, DelOld, NextField, RefreshOk, Cleanup, LoginCommit,
         LoginCommitFails, LogoutDelRefresh, LogoutDelAccess, LogoutDel, Both, DrawPair, Answer,
         TypeOK
  <2> QED BY <1>0, <2>1 DEF TypeOK
<1>4. ASSUME NEW r \in Reqs, Step(r) PROVE UNCHANGED panel
  BY <1>4 DEF Step, GuardRefresh, GuardLogout, GuardLogoutAccess, GuardResource, LoginCheck,
       Store, Expire, DelOld, NextField, RefreshOk, Cleanup, LoginCommit, LoginCommitFails,
       LogoutDelRefresh, LogoutDelAccess
<1>5. ASSUME (\E k \in Keys : ExpireKey(k)) \/ Block PROVE FALSE
  BY <1>5 DEF ExpireKey, Block
<1>6. PICK r \in Reqs : Step(r)
  BY <1>1, <1>5 DEF Next
<1> QED
  BY <1>2, <1>3, <1>4, <1>6 DEF Step

\* A spent token stays dead, and each answer of refresh or logout makes its own so.
LEMMA SpentTokenStays ==
  IInv /\ SpentTokenIsDead /\ [Next]_vars => SpentTokenIsDead'
<1> SUFFICES ASSUME IInv, SpentTokenIsDead, [Next]_vars, NEW q \in Reqs,
                    result'[q] = "ok", kind'[q] \in {"refresh", "logout"}, q \notin swallowed'
             PROVE  ~Present(<<"refresh", presented[q]>>)'
  BY DEF SpentTokenIsDead
<1>1. IInv'
  BY NextIInv
<1>2. /\ TypeOK /\ PlaceOk(q) /\ TokenOk(q) /\ SpentOk(q)
      /\ TypeOK' /\ PlaceOk(q)' /\ TokenOk(q)'
  BY <1>1 DEF IInv, RequestInv
<1>3. pc'[q] = "done" /\ presented'[q] \in Pairs
  BY <1>2 DEF TypeOK, PlaceOk, TokenOk
<1>4. CASE pc[q] = "done"
  <2>1. kind[q] = kind'[q] /\ result[q] = "ok" /\ presented[q] = presented'[q]
    BY <1>4, DoneIsFinal
  <2>2. q \notin swallowed
    BY <1>4, ZenonT(40) DEF Next, Step, CallLogin, CallRefresh, CallLogout, CallResource, Call, Kill,
         GuardRefresh, GuardLogout, GuardLogoutAccess, GuardResource, LoginCheck, Store, Expire,
         DelOld, NextField, RefreshOk, Cleanup, LoginCommit, LoginCommitFails, LogoutDelRefresh,
         LogoutDelAccess, LogoutDel, ExpireKey, Block
  <2>3. ~Present(<<"refresh", presented[q]>>) /\ Settled(presented[q])
    BY <1>2, <1>3, <2>1, <2>2, NoPairIsNone DEF SpentTokenIsDead, TokenOk
  <2> QED BY <1>3, <2>1, <2>3, OwnKeys, DeadStaysDead
<1>5. CASE pc[q] # "done"
  <2>1. \/ RefreshOk(q) \/ LogoutDelRefresh(q) \/ LogoutDelAccess(q)
        \/ GuardRefresh(q) \/ GuardLogout(q) \/ Cleanup(q)
    BY <1>2, <1>3, <1>5, Answers DEF GuardResource, LoginCheck, LoginCommit, LoginCommitFails, PlaceOk
  <2>2. CASE GuardRefresh(q) \/ GuardLogout(q) \/ Cleanup(q)
    BY <1>2, <1>3, <2>2 DEF GuardRefresh, GuardLogout, Cleanup, DrawPair, Answer, TypeOK
  <2>3. CASE RefreshOk(q)
    BY <1>2, <2>3 DEF RefreshOk, PlaceOk, SpentOk
  <2>4. CASE LogoutDelRefresh(q)
    BY <1>2, <1>3, <2>4, OwnKeys DEF LogoutDelRefresh, LogoutDel, Del, Set, PlaceOk, TokenOk
  <2>5. CASE LogoutDelAccess(q)
    BY <1>2, <1>3, <2>5, OwnKeys DEF LogoutDelAccess, LogoutDel, Del, Set, SpentOk
  <2> QED BY <2>1, <2>2, <2>3, <2>4, <2>5
<1> QED
  BY <1>4, <1>5

\* Each answer tells what the store holds, and goes on doing so.
LEMMA AnswerStays ==
  IInv /\ AnswerMatchesStore /\ [Next]_vars => AnswerMatchesStore'
<1> SUFFICES ASSUME IInv, AnswerMatchesStore, [Next]_vars, NEW q \in Reqs,
                    round'[q] > 0, pc'[q] = "done"
             PROVE  IF result'[q] = "ok"
                    THEN \A k \in PairKeys(q)' : k \in ttl' \/ k \in ended'
                    ELSE Pair(q)' \in dirty' \/ \A k \in PairKeys(q)' : ~Present(k)'
  BY DEF AnswerMatchesStore
<1>1. /\ TypeOK /\ PlaceOk(q) /\ StoreOk(q)
  BY DEF IInv, RequestInv
<1>2. CASE pc[q] = "done"
  <2>1. result'[q] = result[q] /\ round'[q] = round[q]
    BY <1>2, DoneIsFinal
  <2>2. CASE result[q] = "ok"
    BY <1>2, <2>1, <2>2, ExpiryIsKept DEF AnswerMatchesStore
  <2>3. CASE Pair(q) \in dirty
    <3>1. dirty \subseteq dirty'
      BY ZenonT(40) DEF Next, Step, CallLogin, CallRefresh, CallLogout, CallResource, Call, Kill,
         GuardRefresh, GuardLogout, GuardLogoutAccess, GuardResource, LoginCheck, Store, Expire,
         DelOld, NextField, RefreshOk, Cleanup, LoginCommit, LoginCommitFails, LogoutDelRefresh,
         LogoutDelAccess, ExpireKey, Block
    <3> QED BY <1>2, <2>1, <2>3, <3>1, ExpiryIsKept DEF AnswerMatchesStore
  <2>4. CASE result[q] # "ok" /\ \A k \in PairKeys(q) : ~Present(k)
    <3>1. Pair(q) \in Pairs /\ Settled(Pair(q))
      BY <1>1, <1>2, <2>1, OwnKeys DEF TypeOK, Settled
    <3> QED BY <2>1, <2>4, <3>1, OwnKeys, DeadStaysDead
  <2> QED BY <1>2, <2>1, <2>2, <2>3, <2>4 DEF AnswerMatchesStore
<1>3. CASE pc[q] # "done"
  <2>1. CASE RefreshOk(q) \/ LoginCommit(q)
    BY <1>1, <2>1 DEF RefreshOk, LoginCommit, Answer, TypeOK, StoreOk
  <2>2. CASE Cleanup(q)
    <3>1. PICK done \in SUBSET PairKeys(q) :
            Del(done) /\ dirty' = IF done = PairKeys(q) THEN dirty ELSE dirty \cup {Pair(q)}
      BY <2>2 DEF Cleanup
    <3>2. PairKeys(q) \subseteq Keys /\ result'[q] = "error"
      BY <1>1, <2>2, OwnKeys DEF Cleanup, Answer, TypeOK, PlaceOk
    <3> QED BY <2>2, <3>1, <3>2 DEF Cleanup, Del, Set
  <2>3. CASE LoginCommitFails(q) \/ LoginCheck(q)
    BY <1>1, <2>3 DEF LoginCommitFails, LoginCheck, Answer, DrawPair, TypeOK, StoreOk
  <2>4. CASE \/ GuardRefresh(q) \/ GuardLogout(q) \/ GuardResource(q)
             \/ LogoutDelRefresh(q) \/ LogoutDelAccess(q)
    BY <1>1, <2>4 DEF GuardRefresh, GuardLogout, GuardResource, LogoutDelRefresh, LogoutDelAccess,
         DrawPair, PlaceOk, TypeOK
  <2> QED BY <1>3, <2>1, <2>2, <2>3, <2>4, Answers
<1> QED
  BY <1>2, <1>3

\* After a quiet block no answer of a later request is a success.
LEMMA QuietStays ==
  IInv /\ QuietBlockHolds /\ [Next]_vars => QuietBlockHolds'
<1> SUFFICES ASSUME IInv, QuietBlockHolds, [Next]_vars, quiet', NEW q \in late',
                    kind'[q] # "logout", result'[q] = "ok"
             PROVE  FALSE
  BY DEF QuietBlockHolds
<1>0. IInv'
  BY NextIInv
<1>t. TypeOK /\ TypeOK' /\ q \in Reqs
  BY <1>0 DEF IInv, TypeOK
<1>1. PlaceOk(q) /\ TokenOk(q) /\ QuietInv /\ PlaceOk(q)'
  BY <1>0, <1>t DEF IInv, RequestInv
<1>2. pc'[q] = "done"
  BY <1>t, <1>1 DEF PlaceOk
<1>3. CASE pc[q] = "done"
  <2>1. kind'[q] = kind[q] /\ result'[q] = result[q]
    BY <1>t, <1>3, DoneIsFinal
  <2>2. quiet /\ q \in late
    BY <1>t, <1>1, <1>3, ZenonT(40) DEF Next, Step, CallLogin, CallRefresh, CallLogout, CallResource, Call, Kill,
         GuardRefresh, GuardLogout, GuardLogoutAccess, GuardResource, LoginCheck, Store, Expire,
         DelOld, NextField, RefreshOk, Cleanup, LoginCommit, LoginCommitFails, LogoutDelRefresh,
         LogoutDelAccess, ExpireKey, Block, QuietInv
  <2> QED BY <2>1, <2>2 DEF QuietBlockHolds
<1>4. CASE pc[q] # "done"
  <2>1. quiet
    BY <1>t, <1>2, <1>4, Answers
  <2>2. pc[q] \notin {"commit", "fields"} /\ \A k \in Keys : hash[k] # "plain"
    BY <1>t, <1>1, <2>1 DEF QuietInv
  <2>3. CASE GuardResource(q)
    <3>1. <<"access", bearer[q]>> \in Keys
      BY <1>t, <1>1, <2>3, OwnKeys DEF GuardResource, TypeOK, TokenOk
    <3> QED BY <1>t, <2>2, <2>3, <3>1 DEF GuardResource, Answer, TypeOK
  <2>4. CASE \/ GuardRefresh(q) \/ GuardLogout(q) \/ LoginCheck(q) \/ Cleanup(q)
             \/ LoginCommitFails(q) \/ RefreshOk(q) \/ LoginCommit(q)
    BY <1>t, <1>1, <1>2, <2>2, <2>4 DEF GuardRefresh, GuardLogout, LoginCheck, Cleanup, LoginCommitFails,
         RefreshOk, LoginCommit, DrawPair, Answer, TypeOK
  <2>5. CASE LogoutDelRefresh(q) \/ LogoutDelAccess(q)
    BY <1>t, <1>1, <2>5 DEF LogoutDelRefresh, LogoutDelAccess, PlaceOk
  <2> QED BY <1>t, <1>2, <1>4, <2>3, <2>4, <2>5, Answers
<1> QED
  BY <1>3, <1>4

\* No session without an expiry outlives the request that stored it, but for a
\* failed clean-up, a failed commit or the death of the process: the stores and
\* the expiries of setRedisLoginSession.mts and refresh.mts.
THEOREM SessionsNoImmortalSession == Spec => []NoImmortalSession
<1>1. IInv => NoImmortalSession
  BY DEF IInv
<1> QED
  BY <1>1, SessionsIInv, PTL

\* A refresh token that was rotated by refresh.mts, or deleted by logout.mts
\* without an error, is never accepted again.
THEOREM SessionsSpentTokenIsDead == Spec => []SpentTokenIsDead
<1>1. Init => SpentTokenIsDead
  BY DEF Init, SpentTokenIsDead
<1> QED
  BY <1>1, SessionsIInv, SpentTokenStays, PTL DEF Spec

\* A success of a login or of refresh.mts hands out sessions that expire, and an
\* error leaves none behind, but for a failed clean-up or commit.
THEOREM SessionsAnswerMatchesStore == Spec => []AnswerMatchesStore
<1>1. Init => AnswerMatchesStore
  BY DEF Init, AnswerMatchesStore
<1> QED
  BY <1>1, SessionsIInv, AnswerStays, PTL DEF Spec

\* Once the panel has blocked the account with no refresh past its middleware,
\* no later request of the account is served, whatever it presents
\* (isSessionBlocked.mts).
THEOREM SessionsQuietBlockHolds == Spec => []QuietBlockHolds
<1>1. Init => QuietBlockHolds
  BY DEF Init, QuietBlockHolds
<1> QED
  BY <1>1, SessionsIInv, QuietStays, PTL DEF Spec
==============================================================================
