------------------------------ MODULE Sessions ------------------------------
(***************************************************************************)
(* The Redis sessions of one account: login (the three login mutations     *)
(* share this path), refresh, logout, and the three Koa middlewares that   *)
(* read a session before they let a request through.  A token is a fresh   *)
(* uuid, so a pair of tokens is named by the request that drew it and the  *)
(* round of that request: a login draws again when its MongoDB transaction *)
(* is retried, a refresh when the same GraphQL operation has the field     *)
(* twice.                                                                  *)
(*                                                                         *)
(* External: Redis (a command runs or not, and its answer may be lost),    *)
(* MongoDB (the login transaction writes the account row it read, so       *)
(* nothing changes that row between the check and the end of the           *)
(* transaction), and the control panel that isSessionBlocked.mts names: it *)
(* disables the account and flags every session the account has.           *)
(* The introspection bypass of the middlewares (development and test only) *)
(* is left out.                                                            *)
(***************************************************************************)
EXTENDS Integers, FiniteSets

CONSTANTS
  Reqs,       \* requests of this account
  NoPair,     \* no token
  MaxRounds,  \* bound: pairs one request draws
  MaxPairs,   \* bound: pairs drawn in all
  Kills,      \* bound: requests whose process dies under them
  MaxEnded    \* bound: no key expires once that many have ended

ASSUME SessionsAssumption ==
  /\ MaxRounds \in Nat \ {0} /\ {MaxPairs, Kills, MaxEnded} \subseteq Nat
  /\ NoPair \notin Reqs \X (1 .. MaxRounds)

Pairs == Reqs \X (1 .. MaxRounds)
Keys == {"access", "refresh"} \X Pairs

VARIABLES
  pc,         \* where each request stands
  kind,       \* what it does
  old,        \* ctx.state.user.refreshToken: the pair whose refresh token it presents
  presented,  \* the same, kept when refresh takes it out of the context
  bearer,     \* the pair whose access token it presents
  round,      \* pairs it has drawn
  cookie,     \* the pair of its refresh_token cookie
  result,     \* how it was answered
  hash,       \* Redis: "absent", "plain", or "blocked" (disabled or deleted is set)
  ttl,        \* keys with an expiry
  disabled,   \* the account is disabled in MongoDB
  quiet,      \* no refresh was past its middleware when the panel blocked the account
  late,       \* requests that came after that
  dirty,      \* pairs left behind: a clean-up failed, or a login after its pair was stored
  swallowed,  \* logouts that swallowed an error
  ended       \* keys that expired, were rotated away or logged out

requests == <<pc, kind, old, presented, bearer, round, cookie, result>>
redis == <<hash, ttl>>
panel == <<disabled, quiet, late>>
history == <<dirty, swallowed, ended>>
vars == <<requests, redis, panel, history>>

PCs == {"idle", "check", "guard", "guardAccess", "store", "expire", "commit",
        "delOld", "fields", "cleanup", "delRefresh", "delAccess", "done", "dead"}
Kinds == {"none", "login", "refresh", "logout", "resource"}

TypeOK ==
  /\ pc \in [Reqs -> PCs]
  /\ kind \in [Reqs -> Kinds]
  /\ old \in [Reqs -> Pairs \cup {NoPair}]
  /\ presented \in [Reqs -> Pairs \cup {NoPair}]
  /\ bearer \in [Reqs -> Pairs \cup {NoPair}]
  /\ round \in [Reqs -> 0 .. MaxRounds]
  /\ cookie \in [Reqs -> Pairs \cup {NoPair}]
  /\ result \in [Reqs -> {"none", "ok", "error"}]
  /\ hash \in [Keys -> {"absent", "plain", "blocked"}]
  /\ ttl \subseteq {k \in Keys : hash[k] # "absent"}
  /\ disabled \in BOOLEAN /\ quiet \in BOOLEAN
  /\ late \subseteq Reqs
  /\ dirty \subseteq Pairs
  /\ swallowed \subseteq Reqs
  /\ ended \subseteq Keys

Init ==
  /\ pc = [r \in Reqs |-> "idle"]
  /\ kind = [r \in Reqs |-> "none"]
  /\ old = [r \in Reqs |-> NoPair]
  /\ presented = [r \in Reqs |-> NoPair]
  /\ bearer = [r \in Reqs |-> NoPair]
  /\ round = [r \in Reqs |-> 0]
  /\ cookie = [r \in Reqs |-> NoPair]
  /\ result = [r \in Reqs |-> "none"]
  /\ hash = [k \in Keys |-> "absent"]
  /\ ttl = {}
  /\ disabled = FALSE /\ quiet = FALSE
  /\ late = {}
  /\ dirty = {}
  /\ swallowed = {}
  /\ ended = {}

----------------------------------------------------------------------------
Goto(r, place) == pc' = [pc EXCEPT ![r] = place]

Answer(r, res) ==
  /\ result' = [result EXCEPT ![r] = res]
  /\ Goto(r, "done")

\* generateAccessToken and generateRefreshToken.
DrawPair(r) ==
  /\ round[r] < MaxRounds
  /\ Cardinality({p \in Pairs : p[2] <= round[p[1]]}) < MaxPairs
  /\ round' = [round EXCEPT ![r] = @ + 1]
  /\ Goto(r, "store")

Pair(r) == <<r, round[r]>>
PairKeys(r) == {<<"access", Pair(r)>>, <<"refresh", Pair(r)>>}
Present(k) == hash[k] # "absent"

Set(keys, value) == hash' = [k \in Keys |-> IF k \in keys THEN value ELSE hash[k]]
Del(keys) == Set(keys, "absent") /\ ttl' = ttl \ keys

\* What a client has been handed: cookies come with every answer, also with an
\* error; access tokens only with a success.
Cookies == {cookie[r] : r \in {q \in Reqs : pc[q] = "done"}} \ {NoPair}
AccessTokens == {p \in Pairs : /\ kind[p[1]] \in {"login", "refresh"}
                               /\ result[p[1]] = "ok"
                               /\ p[2] <= round[p[1]]
                               /\ kind[p[1]] = "login" => p[2] = round[p[1]]}

Call(r, what, place) ==
  /\ pc[r] = "idle"
  /\ kind' = [kind EXCEPT ![r] = what]
  /\ Goto(r, place)
  /\ late' = IF disabled THEN late \cup {r} ELSE late
  /\ UNCHANGED <<round, cookie, result, redis, disabled, quiet, history>>

CallLogin(r) ==
  Call(r, "login", "check") /\ UNCHANGED <<old, presented, bearer>>

CallRefresh(r) ==
  /\ \E p \in Cookies :
       old' = [old EXCEPT ![r] = p] /\ presented' = [presented EXCEPT ![r] = p]
  /\ Call(r, "refresh", "guard")
  /\ UNCHANGED bearer

CallLogout(r) ==
  /\ \E p \in Cookies :
       old' = [old EXCEPT ![r] = p] /\ presented' = [presented EXCEPT ![r] = p]
  /\ \E p \in AccessTokens \cup {NoPair} : bearer' = [bearer EXCEPT ![r] = p]
  /\ Call(r, "logout", "guard")

CallResource(r) ==
  /\ \E p \in AccessTokens : bearer' = [bearer EXCEPT ![r] = p]
  /\ Call(r, "resource", "guard")
  /\ UNCHANGED <<old, presented>>

----------------------------------------------------------------------------
(* The middlewares.                                                        *)

\* Mutant: the flag of the session is not looked at.
GuardRefreshUnflagged(r) ==
  /\ kind[r] = "refresh" /\ pc[r] = "guard"
  /\ IF Present(<<"refresh", old[r]>>)
     THEN DrawPair(r) /\ UNCHANGED result
     ELSE Answer(r, "error") /\ UNCHANGED round
  /\ UNCHANGED <<kind, old, presented, bearer, cookie, redis, panel, history>>

GuardRefresh(r) ==
  /\ kind[r] = "refresh" /\ pc[r] = "guard"
  /\ IF hash[<<"refresh", old[r]>>] = "plain"
     THEN DrawPair(r) /\ UNCHANGED result
     ELSE Answer(r, "error") /\ UNCHANGED round
  /\ UNCHANGED <<kind, old, presented, bearer, cookie, redis, panel, history>>

\* A flagged session may still log out: only its presence is read.
GuardLogout(r) ==
  /\ kind[r] = "logout" /\ pc[r] = "guard"
  /\ IF Present(<<"refresh", old[r]>>)
     THEN Goto(r, "guardAccess") /\ UNCHANGED result
     ELSE Answer(r, "error")
  /\ UNCHANGED <<kind, old, presented, bearer, round, cookie, redis, panel, history>>

\* The access token is optional: one that is gone is left out of the context.
GuardLogoutAccess(r) ==
  /\ pc[r] = "guardAccess"
  /\ bearer' = [bearer EXCEPT ![r] =
                  IF @ # NoPair /\ Present(<<"access", @>>) THEN @ ELSE NoPair]
  /\ Goto(r, "delRefresh")
  /\ UNCHANGED <<kind, old, presented, round, cookie, result, redis, panel, history>>

GuardResource(r) ==
  /\ kind[r] = "resource" /\ pc[r] = "guard"
  /\ Answer(r, IF hash[<<"access", bearer[r]>>] = "plain" THEN "ok" ELSE "error")
  /\ UNCHANGED <<kind, old, presented, bearer, round, cookie, redis, panel, history>>

\* checkUserLoginAuthorization and the update of the login statistics, which
\* conflicts with any change of the row since it was read: one step.
LoginCheck(r) ==
  /\ pc[r] = "check"
  /\ IF disabled
     THEN Answer(r, "error") /\ UNCHANGED round
     ELSE DrawPair(r) /\ UNCHANGED result
  /\ UNCHANGED <<kind, old, presented, bearer, cookie, redis, panel, history>>

----------------------------------------------------------------------------
(* setRedisLoginSession and the body of refresh.                           *)

\* Mutant: Promise.allSettled, whose failures nobody reads.
BothSettled(r, done, onOk) == Goto(r, onOk)

\* Promise.all of two commands: any of them may have run, and only the success
\* of both goes on.
Both(r, done, onOk) ==
  \/ done = PairKeys(r) /\ Goto(r, onOk)
  \/ Goto(r, "cleanup")

Store(r) ==
  /\ pc[r] = "store"
  /\ \E done \in SUBSET PairKeys(r) :
       /\ Both(r, done, "expire")
       /\ Set(done, "plain")
  /\ UNCHANGED <<kind, old, presented, bearer, round, cookie, result, ttl, panel, history>>

\* The expiries, then setLoginCookies in the continuation of their success.
Expire(r) ==
  /\ pc[r] = "expire"
  /\ \E done \in SUBSET PairKeys(r) :
       /\ ttl' = ttl \cup {k \in done : Present(k)}
       /\ Both(r, done, IF kind[r] = "login" THEN "commit" ELSE "delOld")
  /\ cookie' = IF pc'[r] = "cleanup" THEN cookie ELSE [cookie EXCEPT ![r] = Pair(r)]
  /\ UNCHANGED <<kind, old, presented, bearer, round, result, hash, panel, history>>

\* Mutant: the prefix is added twice, and the key that is deleted never existed.
DelOldPrefixedTwice(r) ==
  /\ pc[r] = "delOld"
  /\ Goto(r, "fields")
  /\ UNCHANGED <<kind, old, presented, bearer, round, cookie, result, redis, panel, history>>

\* refresh deletes the token it was called with; a second refresh field of the
\* operation finds no token in the context and deletes nothing.
DelOld(r) ==
  /\ pc[r] = "delOld"
  /\ \/ /\ Del({<<"refresh", old[r]>>})
        /\ ended' = ended \cup ({<<"refresh", old[r]>>} \cap Keys)
     \/ UNCHANGED <<redis, ended>> /\ Goto(r, "cleanup")
  /\ Goto(r, "fields") \/ Goto(r, "cleanup")
  /\ UNCHANGED <<kind, old, presented, bearer, round, cookie, result, panel, dirty, swallowed>>

\* The next refresh field of the same operation, over the same context.
NextField(r) ==
  /\ pc[r] = "fields"
  /\ old' = [old EXCEPT ![r] = NoPair]
  /\ DrawPair(r)
  /\ UNCHANGED <<kind, presented, bearer, cookie, result, redis, panel, history>>

RefreshOk(r) ==
  /\ pc[r] = "fields"
  /\ Answer(r, "ok")
  /\ UNCHANGED <<kind, old, presented, bearer, round, cookie, redis, panel, history>>

\* The catch of both: delete the two new keys, then the error.
Cleanup(r) ==
  /\ pc[r] = "cleanup"
  /\ \E done \in SUBSET PairKeys(r) :
       /\ Del(done)
       /\ dirty' = IF done = PairKeys(r) THEN dirty ELSE dirty \cup {Pair(r)}
  /\ Answer(r, "error")
  /\ UNCHANGED <<kind, old, presented, bearer, round, cookie, panel, swallowed, ended>>

LoginCommit(r) ==
  /\ pc[r] = "commit"
  /\ Answer(r, "ok")
  /\ UNCHANGED <<kind, old, presented, bearer, round, cookie, redis, panel, history>>

\* The transaction fails after the pair was stored: withTransaction runs the
\* callback again, or gives up.  Neither removes the pair.
LoginCommitFails(r) ==
  /\ pc[r] = "commit"
  /\ dirty' = dirty \cup {Pair(r)}
  /\ \/ round[r] < MaxRounds /\ Goto(r, "check") /\ UNCHANGED result
     \/ Answer(r, "error")
  /\ UNCHANGED <<kind, old, presented, bearer, round, cookie, redis, panel, swallowed, ended>>

----------------------------------------------------------------------------
(* logout: an error is swallowed, and the answer is true.                  *)

LogoutDel(r, key, next) ==
  \/ /\ Del({key})
     /\ ended' = ended \cup {key}
     /\ next
     /\ UNCHANGED swallowed
  \/ /\ \/ Del({key}) /\ ended' = ended \cup {key}
        \/ UNCHANGED <<redis, ended>>
     /\ swallowed' = swallowed \cup {r}
     /\ Answer(r, "ok")

LogoutDelRefresh(r) ==
  /\ pc[r] = "delRefresh"
  /\ LogoutDel(r, <<"refresh", old[r]>>,
               IF bearer[r] = NoPair THEN Answer(r, "ok")
                                     ELSE Goto(r, "delAccess") /\ UNCHANGED result)
  /\ UNCHANGED <<kind, old, presented, bearer, round, cookie, panel, dirty>>

LogoutDelAccess(r) ==
  /\ pc[r] = "delAccess"
  /\ LogoutDel(r, <<"access", bearer[r]>>, Answer(r, "ok"))
  /\ UNCHANGED <<kind, old, presented, bearer, round, cookie, panel, dirty>>

----------------------------------------------------------------------------
(* The environment.                                                        *)

\* The process of a request dies under it.
Kill(r) ==
  /\ pc[r] \notin {"idle", "done", "dead"}
  /\ Cardinality({q \in Reqs : pc[q] = "dead"}) < Kills
  /\ Goto(r, "dead")
  /\ UNCHANGED <<kind, old, presented, bearer, round, cookie, result, redis, panel, history>>

ExpireKey(k) ==
  /\ k \in ttl
  /\ Cardinality(ended) < MaxEnded
  /\ Del({k})
  /\ ended' = ended \cup {k}
  /\ UNCHANGED <<requests, panel, dirty, swallowed>>

\* Past its middleware: a refresh that may still hand out a pair.
PastGuard(r) == kind[r] = "refresh" /\ pc[r] \in {"store", "expire", "delOld", "fields"}
\* A login transaction that has written the account row.
HoldsRow(r) == kind[r] = "login" /\ pc[r] \in {"store", "expire", "commit", "cleanup"}

\* The control panel blocks the account: the row first, then its sessions.
Block ==
  /\ ~disabled
  /\ \A r \in Reqs : ~HoldsRow(r)
  /\ disabled' = TRUE
  /\ quiet' = \A r \in Reqs : ~PastGuard(r)
  /\ Set({k \in Keys : Present(k)}, "blocked")
  /\ UNCHANGED <<requests, ttl, late, history>>

Step(r) ==
  \/ GuardRefresh(r) \/ GuardLogout(r) \/ GuardLogoutAccess(r) \/ GuardResource(r)
  \/ LoginCheck(r) \/ Store(r) \/ Expire(r) \/ DelOld(r) \/ NextField(r) \/ RefreshOk(r)
  \/ Cleanup(r) \/ LoginCommit(r) \/ LoginCommitFails(r)
  \/ LogoutDelRefresh(r) \/ LogoutDelAccess(r)

Next ==
  \/ \E r \in Reqs :
       \/ CallLogin(r) \/ CallRefresh(r) \/ CallLogout(r) \/ CallResource(r)
       \/ Step(r) \/ Kill(r)
  \/ \E k \in Keys : ExpireKey(k)
  \/ Block

Spec == Init /\ [][Next]_vars

----------------------------------------------------------------------------
(* Properties                                                              *)

\* A refresh token that was rotated, or logged out without an error, is dead.
SpentTokenIsDead ==
  \A r \in Reqs :
    (result[r] = "ok" /\ kind[r] \in {"refresh", "logout"} /\ r \notin swallowed) =>
      ~Present(<<"refresh", presented[r]>>)

\* A session without an expiry would last for ever: one exists only while the
\* request that stores it is at work, or after a failure of its clean-up or the
\* death of its process.
NoImmortalSession ==
  \A k \in Keys :
    Present(k) /\ k \notin ttl =>
      LET r == k[2][1] IN
      \/ k \in PairKeys(r) /\ pc[r] \in {"expire", "cleanup", "dead"}
      \/ k[2] \in dirty

\* A success hands out two live sessions that will expire; an error leaves
\* none of the round, unless its clean-up or the commit of a login failed.
AnswerMatchesStore ==
  \A r \in Reqs :
    round[r] > 0 /\ pc[r] = "done" =>
      IF result[r] = "ok"
      THEN \A k \in PairKeys(r) : k \in ttl \/ k \in ended
      ELSE Pair(r) \in dirty \/ \A k \in PairKeys(r) : ~Present(k)

\* A block that met no refresh past its middleware is final: no later request
\* of the account is served, whatever it presents.
QuietBlockHolds ==
  quiet => \A r \in late : kind[r] # "logout" => result[r] # "ok"

----------------------------------------------------------------------------
(* What the proofs need.                                                   *)

\* Where a request of each kind may stand, when it has an answer, and which
\* pairs it has drawn.
PlaceOk(r) ==
  /\ pc[r] = "idle" <=> kind[r] = "none"
  /\ pc[r] = "done" <=> result[r] # "none"
  /\ pc[r] = "guard" => kind[r] \in {"refresh", "logout", "resource"}
  /\ pc[r] \in {"guardAccess", "delRefresh", "delAccess"} => kind[r] = "logout"
  /\ pc[r] \in {"check", "commit"} => kind[r] = "login"
  /\ pc[r] \in {"delOld", "fields"} => kind[r] = "refresh"
  /\ pc[r] \in {"store", "expire", "cleanup"} => kind[r] \in {"login", "refresh"}
  /\ pc[r] \in {"store", "expire", "cleanup", "commit", "delOld", "fields"} => round[r] > 0
  /\ pc[r] \in {"idle", "guard"} \/ kind[r] \in {"logout", "resource"} => round[r] = 0

\* A pair that can have been handed out: its owner is past its expiries.
Settled(p) ==
  \/ p[2] < round[p[1]]
  \/ p[2] = round[p[1]] /\ pc[p[1]] \notin {"store", "expire"}

\* What a request holds or presents was drawn, and is settled once it is out.
TokenOk(r) ==
  /\ cookie[r] # NoPair => cookie[r][1] = r /\ cookie[r][2] <= round[r]
  /\ old[r] # NoPair => Settled(old[r])
  /\ presented[r] # NoPair => Settled(presented[r])
  /\ bearer[r] # NoPair => Settled(bearer[r])
  /\ kind[r] \in {"refresh", "logout"} => presented[r] # NoPair
  /\ kind[r] = "logout" => old[r] = presented[r]
  /\ kind[r] = "resource" \/ pc[r] = "delAccess" => bearer[r] # NoPair
  /\ kind[r] = "refresh" /\ pc[r] = "guard" => old[r] # NoPair
  /\ kind[r] = "refresh" => old[r] \in {presented[r], NoPair}

\* What a request at each place can rely on about the keys of its own pair.
StoreOk(r) ==
  /\ pc[r] = "expire" => \A k \in PairKeys(r) : Present(k)
  /\ pc[r] \in {"commit", "delOld", "fields"} => \A k \in PairKeys(r) : k \in ttl \cup ended
  /\ pc[r] = "check" /\ round[r] > 0 => Pair(r) \in dirty

\* A key is there only when its pair was drawn and is being, or was, stored; it
\* has an expiry only when its owner is past them.
FreshOk(k) ==
  LET p == k[2]
  IN /\ Present(k) => \/ p[2] < round[p[1]]
                      \/ p[2] = round[p[1]] /\ pc[p[1]] # "store"
     /\ k \in ttl => Settled(p)

\* The presented token is gone as soon as its deletion has been answered.
SpentOk(r) ==
  \/ kind[r] = "refresh" /\ (pc[r] = "fields" \/ old[r] = NoPair)
  \/ pc[r] = "delAccess"
  => ~Present(<<"refresh", presented[r]>>)

\* After a quiet block nothing is served, stored, or on its way to be.
QuietInv ==
  /\ ~disabled => late = {} /\ ~quiet
  /\ quiet => /\ \A k \in Keys : hash[k] # "plain"
              /\ \A r \in Reqs : pc[r] \notin {"store", "expire", "commit", "delOld", "fields"}

RequestInv == \A r \in Reqs : PlaceOk(r) /\ TokenOk(r) /\ StoreOk(r) /\ SpentOk(r)
KeyInv == \A k \in Keys : FreshOk(k)

\* The types, what each request and each key relies on, and no session that
\* lives for ever: inductive as it stands, and what makes the properties above so.
IInv ==
  /\ TypeOK
  /\ RequestInv
  /\ KeyInv
  /\ QuietInv
  /\ NoImmortalSession
============================================================================
