---------------------------- MODULE ServiceProofs ----------------------------
(***************************************************************************)
(* Proofs about the two services that the library talks to.                *)
(*                                                                         *)
(* PostgreSQL at the boot: what a database URL that is accepted makes the  *)
(* driver do, what holds of every client a pool hands out, and what the    *)
(* verdict of assertRole rests on.                                         *)
(* The pool and the boot each have an inductive invariant of their own,    *)
(* PoolOk and BootInv.  The boot relies on the pool for one thing only,    *)
(* that the client in its hands stays there (OthersStand), so that a step  *)
(* of either is a lemma about the one and a frame for the other.  That the *)
(* checks ask what is expected is a fact about every catalog and grant:    *)
(* GrantIsAsked, AttributeIsAsked, and MemberIsReachable, where the least  *)
(* closed set of the recursive query meets the chains of memberships.      *)
(*                                                                         *)
(* SocketLabs: the throttle keeps its invariant and implements Debounce,   *)
(* for any keys, any window and any limit.  Whatever a method of the mails *)
(* builds, throws or hands over, the throttle below takes one of its own   *)
(* steps or none, so that what is proved of it holds of the mails.  Which  *)
(* links lead back is told for any addresses, bases and paths: what is     *)
(* read of one is found by position, in a path (ReadsBack) and in a query  *)
(* (QueryReadsBack), and nothing is on a base that has more than its name  *)
(* (CutIsNotRead, OffIsNotRead, QueryOff).                                 *)
(***************************************************************************)
EXTENDS RoleCheck, Mails, FiniteSetTheorems, WellFoundedInduction, SequenceTheorems, TLAPS

----------------------------------------------------------------------------
(* PostgreSQL at the boot                                                  *)

\* A set of numbers has a least one.
LEMMA LeastNat ==
  ASSUME NEW T \in SUBSET Nat, T # {}
  PROVE  \E x \in T : \A y \in T : x <= y
<1>0. \A y \in T : y \in Nat
  OBVIOUS
<1>1. PICK n \in T : TRUE
  OBVIOUS
<1> DEFINE UpTo(x) == {y \in T : y <= x}
           Low == {y \in T : y <= n}
           U == {UpTo(x) : x \in Low}
<1>2. IsFiniteSet(0 .. n)
  BY <1>1, FS_Interval
<1>3. IsWellFoundedOn(StrictSubsetOrdering(0 .. n), SUBSET (0 .. n))
  BY <1>2, FS_StrictSubsetOrderingWellFounded, FS_FiniteSubsetsOfFinite
<1>4. ASSUME NEW x \in Low PROVE UpTo(x) \in SUBSET (0 .. n)
  <2>1. \A y \in UpTo(x) : y \in 0 .. n
    BY <1>0, <1>1
  <2> QED
    BY <2>1
<1>5. n \in Low
  BY <1>1
<1>6. U \subseteq SUBSET (0 .. n) /\ U # {}
  <2> HIDE DEF UpTo, Low
  <2> QED
    BY <1>4, <1>5
<1>7. PICK V \in U : \A W \in U : ~(<<W, V>> \in StrictSubsetOrdering(0 .. n))
  <2> HIDE DEF U, UpTo, Low
  <2> QED
    BY <1>3, <1>6, WFMin
<1>8. PICK x \in Low : V = UpTo(x)
  <2> HIDE DEF UpTo, Low
  <2> QED
    BY <1>7
<1>9. ASSUME NEW y \in T, y < x PROVE FALSE
  <2>1. y \in Low /\ UpTo(y) \subseteq UpTo(x)
    <3>1. x \in Nat /\ y \in Nat /\ n \in Nat /\ x <= n
      BY <1>0, <1>1, <1>8
    <3>2. \A z \in T : z <= y => z <= x
      BY <1>0, <1>9, <3>1
    <3>3. y <= n
      BY <1>9, <3>1
    <3> QED
      BY <1>9, <3>2, <3>3
  <2>2. x \in UpTo(x) /\ x \notin UpTo(y)
    BY <1>0, <1>8, <1>9
  <2>3. UpTo(y) \in SUBSET (0 .. n) /\ UpTo(x) \in SUBSET (0 .. n)
    BY <1>4, <1>8, <2>1
  <2>4. UpTo(y) \in U
    <3> HIDE DEF UpTo, Low
    <3> QED
      BY <2>1
  <2>5. <<UpTo(y), V>> \in StrictSubsetOrdering(0 .. n)
    <3> HIDE DEF U, UpTo, Low
    <3> QED
      BY <1>8, <2>1, <2>2, <2>3 DEF StrictSubsetOrdering
  <2> QED
    <3> HIDE DEF U, UpTo, Low
    <3> QED
      BY <1>7, <2>4, <2>5
<1>10. \A y \in T : x <= y
  BY <1>0, <1>8, <1>9
<1> QED
  BY <1>8, <1>10

\* A query as URLSearchParams gives it: keys and values that are strings.
IsQuery(q) == \E n \in Nat : q \in [1..n -> STRING \X STRING]

\* The keys that both checks let through: the allowed ones, each at most once.
Listed(u) ==
  \A i \in DOMAIN u.query :
    u.query[i][1] \in ALLOWED_QUERY /\ \A j \in 1..(i - 1) : u.query[j][1] # u.query[i][1]

\* A key outside of the list replaces no part of a URL whose keys are listed.
LEMMA PartStands ==
  ASSUME NEW u, Listed(u), NEW key, key \notin ALLOWED_QUERY, NEW part
  PROVE  Setting(u, key, part) = part
BY DEF Listed, Setting

\* createPool lets no parameter replace a part of the URL or a setting of its own.
THEOREM PoolSettingsStand ==
  ASSUME NEW u, poolUrlValid(u)
  PROVE  SettingsOfPool(u)
<1>1. Listed(u)
  BY DEF poolUrlValid, Listed
<1>2. \A key \in {"user", "host", "port", "database", "application_name"} : key \notin ALLOWED_QUERY
  BY DEF ALLOWED_QUERY
<1>3. /\ Setting(u, "user", u.user) = u.user
      /\ Setting(u, "host", u.host) = u.host
      /\ Setting(u, "port", u.port) = u.port
      /\ Setting(u, "database", u.database) = u.database
      /\ Setting(u, "application_name", "the service") = "the service"
  BY <1>1, <1>2, PartStands
<1> QED
  BY <1>3 DEF SettingsOfPool, Settings

\* A URL that databaseUrlReason accepts passes each of its checks.
LEMMA AcceptedPasses ==
  ASSUME NEW u, NEW asked, databaseUrlReason(u, asked) = "none"
  PROVE  /\ syntaxReason(u) = "none" /\ roleReason(u, asked.expectedRole) = "none"
         /\ locationReason(u) = "none" /\ queryReason(u) = "none"
         /\ tlsReason(u, asked.allowPlainLoopback) = "none"
BY DEF databaseUrlReason, OrElse

\* When the keys are listed, the parameter the check has read first is the one
\* the driver reads last: the verification asked for is the one that is used.
LEMMA FirstIsLast ==
  ASSUME NEW u, IsQuery(u.query), Listed(u), FirstIs(u, "sslmode", "verify-full")
  PROVE  Verified(u)
<1>1. PICK n \in Nat : u.query \in [1..n -> STRING \X STRING]
  BY DEF IsQuery
<1>2. PICK i \in 1..n : u.query[i] = <<"sslmode", "verify-full">>
  BY <1>1 DEF FirstIs
<1> DEFINE at == {j \in DOMAIN u.query : u.query[j][1] = "sslmode"}
<1>3. at = {i}
  <2>1. i \in at
    BY <1>1, <1>2
  <2>2. ASSUME NEW j \in at PROVE j = i
    <3>1. j \in 1..n /\ i \in 1..n /\ u.query[j][1] = u.query[i][1]
      BY <1>1, <1>2
    <3>2. CASE j < i
      <4>1. j \in 1..(i - 1)
        BY <3>1, <3>2
      <4> QED
        BY <4>1, <3>1, <1>1 DEF Listed
    <3>3. CASE i < j
      <4>1. i \in 1..(j - 1)
        BY <3>1, <3>3
      <4> QED
        BY <4>1, <3>1, <1>1 DEF Listed
    <3> QED
      BY <3>1, <3>2, <3>3
  <2> QED
    BY <2>1, <2>2
<1>4. (CHOOSE k \in at : \A j \in at : j <= k) = i
  <2>1. i <= i
    BY <1>2
  <2> QED
    BY <1>3, <2>1
<1>5. Setting(u, "sslmode", "none") = "verify-full"
  BY <1>2, <1>3, <1>4 DEF Setting
<1>6. \A j \in DOMAIN u.query : u.query[j][1] \notin {"ssl", "uselibpqcompat"}
  BY DEF Listed, ALLOWED_QUERY
<1> QED
  BY <1>5, <1>6 DEF Verified

\* A URL that databaseUrlReason accepts is one createPool accepts, and the driver
\* then logs in as the expected role, at the host and the database the URL names,
\* with the server verified unless the host is this one and the service allows it.
THEOREM AcceptedUrlIsSound ==
  ASSUME NEW u, IsQuery(u.query), NEW asked,
         u.port \in Nat,
         databaseUrlReason(u, asked) = "none"
  PROVE  poolUrlValid(u) /\ SettingsAsExpected(u, asked)
<1>1. /\ syntaxReason(u) = "none" /\ roleReason(u, asked.expectedRole) = "none"
      /\ locationReason(u) = "none" /\ queryReason(u) = "none"
      /\ tlsReason(u, asked.allowPlainLoopback) = "none"
  BY AcceptedPasses
<1>2. /\ parseUrl(u) /\ u.scheme \in {"postgres", "postgresql"}
  BY <1>1 DEF syntaxReason
<1>3. u.user = asked.expectedRole
  BY <1>1 DEF roleReason
<1>4. isValidHost(u.host) /\ u.port >= 1
  <2>1. isValidHost(u.host)
    BY <1>1, Zenon DEF locationReason
  <2>2. ~(u.port < 1)
    BY <1>1, <2>1 DEF locationReason
  <2> QED
    BY <2>1, <2>2
<1>5. Listed(u)
  BY <1>1 DEF queryReason, Listed
<1>6. u.host # ""
  BY <1>4, HostsAssumption
<1>7. poolUrlValid(u)
  BY <1>2, <1>5, <1>6 DEF poolUrlValid, Listed, parseUrl
<1>8. SettingsOfPool(u)
  BY <1>7, PoolSettingsStand
<1>9. Verified(u) \/ (asked.allowPlainLoopback /\ isLoopback(u.host))
  BY <1>1, <1>5, FirstIsLast DEF tlsReason
<1> QED
  <2>1. /\ Settings(u).host = u.host /\ Settings(u).port = u.port
        /\ Settings(u).user = u.user
    BY <1>8 DEF SettingsOfPool
  <2>2. Settings(u).verified = Verified(u)
    BY DEF Settings
  <2> QED
    BY <1>3, <1>4, <1>7, <1>8, <1>9, <2>1, <2>2 DEF SettingsAsExpected, isLoopback

----------------------------------------------------------------------------
(* The pool                                                                *)

\* The inductive invariant of the pool.
PoolOk == PoolTypeOK /\ HandedOutIsChecked /\ ClientsOk

\* What a step of the pool may do to callers: only one that waits, or connects,
\* is answered.
OthersStand == \A u \in Callers : asks[u] = "holds" => asks'[u] = "holds"

\* Of few clients, some are few.
LEMMA Few ==
  ASSUME NEW S \in SUBSET Clients, Cardinality(S) <= Max, NEW R \in SUBSET S
  PROVE  Cardinality(R) <= Max
<1>1. IsFiniteSet(S) /\ IsFiniteSet(R)
  BY PoolAssumption, FS_Subset
<1>2. Cardinality(R) \in Nat /\ Cardinality(S) \in Nat /\ Cardinality(R) <= Cardinality(S)
  BY <1>1, FS_Subset, FS_CardinalityType
<1> QED
  BY <1>2, PoolAssumption

\* A pool starts with no client.
LEMMA InitPool == PoolInit => PoolOk
<1> SUFFICES ASSUME PoolInit PROVE PoolOk
  OBVIOUS
<1>1. PoolTypeOK
  BY DEF PoolInit, PoolTypeOK
<1>2. ClientsOk
  BY PoolAssumption DEF PoolInit, ClientsOk, Held
<1>3. HandedOutIsChecked
  <2>1. Known = {} /\ {c \in Clients : race[c] \in Refusals} = {}
    BY DEF PoolInit, Known, Refusals
  <2>2. Cardinality({}) = 0
    BY FS_EmptySet
  <2> QED
    BY <2>1, <2>2, PoolAssumption DEF PoolInit, HandedOutIsChecked
<1> QED
  BY <1>1, <1>2, <1>3 DEF PoolOk

\* An answer that comes when the race is over, or a step of the work on the way.
LEMMA WorkGoesOn ==
  ASSUME PoolOk, UNCHANGED <<race, ends, holder, asks, failures>>, ending' \in BOOLEAN,
         work' \in [Clients -> {"none", "connect", "zone", "done", "failed"}],
         open' \subseteq Clients,
         \A d \in Clients : \/ work'[d] = work[d]
                            \/ race[d] \in Refusals
                            \/ race[d] = "pending" /\ work'[d] = "zone"
  PROVE  PoolOk' /\ OthersStand
<1>1. PoolTypeOK'
  BY DEF PoolOk, PoolTypeOK
<1>2. HandedOutIsChecked'
  <2>1. Known' = Known
    BY DEF Known
  <2>2. \A d \in Known : race[d] = "ok" => work'[d] = work[d]
    BY DEF Known, Refusals
  <2> QED
    BY <2>1, <2>2 DEF PoolOk, HandedOutIsChecked
<1>3. ClientsOk'
  <2>1. \A u : Held(u)' = Held(u)
    BY DEF Held
  <2> QED
    BY <2>1 DEF PoolOk, ClientsOk, Refusals
<1> QED
  BY <1>1, <1>2, <1>3 DEF PoolOk, OthersStand

\* A client that is refused leaves the pool, closed and counted.
LEMMA RefusePool ==
  ASSUME PoolOk, NEW c \in Clients, race[c] = "pending", NEW reason \in Refusals,
         Refuse(c, reason), UNCHANGED ending, open' \subseteq Clients,
         work' \in [Clients -> {"none", "connect", "zone", "done", "failed"}],
         \A d \in Clients : d # c => work'[d] = work[d]
  PROVE  PoolOk' /\ OthersStand
<1>1. PoolTypeOK /\ ClientsOk /\ HandedOutIsChecked
  BY DEF PoolOk
<1>2. /\ holder[c] \in Callers /\ asks[holder[c]] = "connecting"
      /\ \A d \in Clients : holder[d] = holder[c] => d = c
  BY <1>1 DEF ClientsOk
<1>3. /\ race' = [race EXCEPT ![c] = reason] /\ failures' = failures + 1
      /\ ends' = ends \cup {c} /\ holder' = [holder EXCEPT ![c] = Nobody]
      /\ asks' = [asks EXCEPT ![holder[c]] = "refused"]
  BY DEF Refuse
<1>4. PoolTypeOK'
  <2>1. race' \in [Clients -> {"none", "pending", "ok"} \cup Refusals]
    BY <1>1, <1>3 DEF PoolTypeOK
  <2>2. holder' \in [Clients -> Callers \cup {Pool, Nobody}]
    BY <1>1, <1>3 DEF PoolTypeOK
  <2>3. asks' \in [Callers -> {"none", "waiting", "connecting", "holds", "refused"}]
    BY <1>1, <1>3 DEF PoolTypeOK
  <2>4. ends' \subseteq Clients /\ failures' \in Nat /\ ending' \in BOOLEAN
    BY <1>1, <1>3 DEF PoolTypeOK
  <2> QED
    BY <2>1, <2>2, <2>3, <2>4 DEF PoolTypeOK
<1>5. /\ race'[c] = reason /\ holder'[c] = Nobody /\ asks'[holder[c]] = "refused"
      /\ \A d \in Clients : d # c => race'[d] = race[d] /\ holder'[d] = holder[d]
      /\ \A u \in Callers : u # holder[c] => asks'[u] = asks[u]
  BY <1>1, <1>2, <1>3 DEF PoolTypeOK
<1>6. HandedOutIsChecked'
  <2>1. Known' = Known \ {c}
    BY <1>5 DEF Known
  <2>2. \A d \in Known' : \/ race'[d] = "ok" /\ work'[d] = "done" /\ d \notin ends'
                          \/ /\ race'[d] = "pending" /\ holder'[d] # Pool
                             /\ asks'[holder'[d]] = "connecting"
    <3> SUFFICES ASSUME NEW d \in Known \ {c}
                 PROVE  \/ race'[d] = "ok" /\ work'[d] = "done" /\ d \notin ends'
                        \/ /\ race'[d] = "pending" /\ holder'[d] # Pool
                           /\ asks'[holder'[d]] = "connecting"
      BY <2>1
    <3>1. d \in Clients /\ d # c /\ holder[d] # holder[c]
      BY <1>2 DEF Known
    <3>2. race[d] = "pending" => holder[d] \in Callers
      BY <1>1, <3>1 DEF ClientsOk
    <3> QED
      BY <1>1, <1>3, <1>5, <3>1, <3>2 DEF HandedOutIsChecked
  <2>3. \A d \in Clients : race'[d] \in Refusals => d \in ends' /\ holder'[d] = Nobody
    BY <1>1, <1>3, <1>5 DEF HandedOutIsChecked
  <2>4. failures' = Cardinality({d \in Clients : race'[d] \in Refusals})
    <3> DEFINE out == {d \in Clients : race[d] \in Refusals}
    <3>1. {d \in Clients : race'[d] \in Refusals} = out \cup {c} /\ c \notin out
      BY <1>5 DEF Refusals
    <3>2. IsFiniteSet(out)
      BY PoolAssumption, FS_Subset
    <3>3. failures = Cardinality(out)
      BY <1>1 DEF HandedOutIsChecked
    <3> HIDE DEF out
    <3>4. Cardinality(out \cup {c}) = Cardinality(out) + 1
      BY <3>1, <3>2, FS_AddElement
    <3> QED
      BY <1>3, <3>1, <3>3, <3>4
  <2>5. Cardinality(Known') <= Max
    <3>1. Known' \subseteq Known /\ Known \subseteq Clients /\ Cardinality(Known) <= Max
      BY <1>1, <2>1 DEF HandedOutIsChecked, Known
    <3> QED
      BY <3>1, Few
  <2> QED
    BY <2>2, <2>3, <2>4, <2>5 DEF HandedOutIsChecked
<1>7. ClientsOk'
  <2>1. \A d \in Clients :
          /\ race'[d] = "none" => work'[d] = "none" /\ holder'[d] = Nobody /\ d \notin ends'
          /\ race'[d] = "pending" =>
               /\ work'[d] \in {"connect", "zone"} /\ d \notin ends'
               /\ holder'[d] \in Callers /\ asks'[holder'[d]] = "connecting"
          /\ race'[d] = "ok" => work'[d] = "done"
    <3> TAKE d \in Clients
    <3>1. CASE d = c
      BY <1>5, <3>1 DEF Refusals
    <3>2. CASE d # c
      <4>1. race[d] = "pending" => holder[d] \in Callers /\ holder[d] # holder[c]
        BY <1>1, <1>2, <3>2 DEF ClientsOk
      <4> QED
        BY <1>1, <1>3, <1>5, <3>2, <4>1 DEF ClientsOk
    <3> QED
      BY <3>1, <3>2
  <2>2. \A d, e \in Clients : holder'[d] = holder'[e] /\ holder'[d] \in Callers => d = e
    BY <1>1, <1>5, PoolAssumption DEF ClientsOk
  <2>3. \A u \in Callers : Held(u)' = IF u = holder[c] THEN {} ELSE Held(u)
    BY <1>2, <1>5, PoolAssumption DEF Held
  <2>4. \A u \in Callers :
          /\ asks'[u] = "holds" => Held(u)' # {}
          /\ asks'[u] \in {"none", "waiting", "refused"} => Held(u)' = {}
          /\ asks'[u] = "connecting" => \A d \in Held(u)' : race'[d] = "pending"
    <3> TAKE u \in Callers
    <3>1. CASE u = holder[c]
      BY <1>5, <2>3, <3>1
    <3>2. CASE u # holder[c]
      <4>1. \A d \in Held(u) : race'[d] = race[d]
        BY <1>5, <3>2 DEF Held
      <4> QED
        BY <1>1, <1>5, <2>3, <3>2, <4>1 DEF ClientsOk
    <3> QED
      BY <3>1, <3>2
  <2> QED
    BY <2>1, <2>2, <2>4 DEF ClientsOk
<1>8. OthersStand
  BY <1>2, <1>5 DEF OthersStand
<1> QED
  BY <1>4, <1>6, <1>7, <1>8 DEF PoolOk

\* A client whose session runs in UTC is given to the caller that waits for it.
LEMMA AcceptPool ==
  ASSUME PoolOk, NEW c \in Clients, race[c] = "pending", Accept(c), UNCHANGED <<open, ending>>,
         work' = [work EXCEPT ![c] = "done"]
  PROVE  PoolOk' /\ OthersStand
<1>1. PoolTypeOK /\ ClientsOk /\ HandedOutIsChecked
  BY DEF PoolOk
<1>2. /\ holder[c] \in Callers /\ asks[holder[c]] = "connecting" /\ c \notin ends
      /\ \A d \in Clients : holder[d] = holder[c] => d = c
  BY <1>1 DEF ClientsOk
<1>3. /\ race' = [race EXCEPT ![c] = "ok"] /\ UNCHANGED <<ends, holder, failures>>
      /\ asks' = [asks EXCEPT ![holder[c]] = "holds"]
  BY DEF Accept
<1>4. PoolTypeOK'
  BY <1>1, <1>3 DEF PoolTypeOK
<1>5. /\ race'[c] = "ok" /\ work'[c] = "done" /\ asks'[holder[c]] = "holds"
      /\ \A d \in Clients : d # c => race'[d] = race[d] /\ work'[d] = work[d]
      /\ \A u \in Callers : u # holder[c] => asks'[u] = asks[u]
  BY <1>1, <1>2, <1>3 DEF PoolTypeOK
<1>6. HandedOutIsChecked'
  <2>1. Known' = Known
    BY <1>3 DEF Known
  <2>2. \A d \in Known : \/ race'[d] = "ok" /\ work'[d] = "done" /\ d \notin ends
                         \/ /\ race'[d] = "pending" /\ holder[d] # Pool
                            /\ asks'[holder[d]] = "connecting"
    <3> TAKE d \in Known
    <3>1. CASE d = c
      BY <1>2, <1>5, <3>1
    <3>2. CASE d # c
      <4>1. d \in Clients /\ (race[d] = "pending" => holder[d] \in Callers /\ holder[d] # holder[c])
        BY <1>1, <1>2, <3>2 DEF ClientsOk, Known
      <4> QED
        BY <1>1, <1>5, <3>2, <4>1 DEF HandedOutIsChecked
    <3> QED
      BY <3>1, <3>2
  <2>3. \A d \in Clients : race'[d] \in Refusals <=> race[d] \in Refusals
    BY <1>5 DEF Refusals
  <2>4. {d \in Clients : race'[d] \in Refusals} = {d \in Clients : race[d] \in Refusals}
    BY <2>3
  <2> QED
    BY <1>1, <1>3, <2>1, <2>2, <2>3, <2>4 DEF HandedOutIsChecked
<1>7. ClientsOk'
  <2>1. \A d \in Clients :
          /\ race'[d] = "none" => work'[d] = "none" /\ holder[d] = Nobody /\ d \notin ends
          /\ race'[d] = "pending" =>
               /\ work'[d] \in {"connect", "zone"} /\ d \notin ends
               /\ holder[d] \in Callers /\ asks'[holder[d]] = "connecting"
          /\ race'[d] = "ok" => work'[d] = "done"
    <3> TAKE d \in Clients
    <3>1. CASE d = c
      BY <1>5, <3>1
    <3>2. CASE d # c
      <4>1. race[d] = "pending" => holder[d] \in Callers /\ holder[d] # holder[c]
        BY <1>1, <1>2, <3>2 DEF ClientsOk
      <4> QED
        BY <1>1, <1>5, <3>2, <4>1 DEF ClientsOk
    <3> QED
      BY <3>1, <3>2
  <2>2. \A u \in Callers :
          /\ asks'[u] = "holds" => Held(u) # {}
          /\ asks'[u] \in {"none", "waiting", "refused"} => Held(u) = {}
          /\ asks'[u] = "connecting" => \A d \in Held(u) : race'[d] = "pending"
    <3> TAKE u \in Callers
    <3>1. CASE u = holder[c]
      BY <1>5, <3>1 DEF Held
    <3>2. CASE u # holder[c]
      <4>1. \A d \in Held(u) : race'[d] = race[d]
        BY <1>5, <3>2 DEF Held
      <4> QED
        BY <1>1, <1>5, <3>2, <4>1 DEF ClientsOk
    <3> QED
      BY <3>1, <3>2
  <2>3. \A u : Held(u)' = Held(u)
    BY <1>3 DEF Held
  <2> QED
    BY <1>1, <1>3, <2>1, <2>2, <2>3 DEF ClientsOk
<1>8. OthersStand
  BY <1>2, <1>5 DEF OthersStand
<1> QED
  BY <1>4, <1>6, <1>7, <1>8 DEF PoolOk

\* Idle clients that are closed leave the pool; whoever holds one keeps it.
LEMMA DropIdle ==
  ASSUME PoolOk, NEW D \in SUBSET Idle, UNCHANGED <<work, race, asks, failures>>,
         ends' = ends \cup D, open' \subseteq Clients, ending' \in BOOLEAN,
         holder' = [d \in Clients |-> IF d \in D THEN Nobody ELSE holder[d]]
  PROVE  PoolOk' /\ OthersStand
<1>1. PoolTypeOK /\ ClientsOk /\ HandedOutIsChecked
  BY DEF PoolOk
<1>2. \A d \in D : d \in Clients /\ holder[d] = Pool /\ race[d] = "ok"
  BY <1>1, PoolAssumption DEF Idle, Known, HandedOutIsChecked
<1>3. PoolTypeOK'
  BY <1>1, <1>2 DEF PoolTypeOK
<1>4. HandedOutIsChecked'
  <2>1. Known' = Known \ D
    BY DEF Known
  <2>2. \A d \in Known' : d \in Known /\ (d \in ends' <=> d \in ends) /\ holder'[d] = holder[d]
    BY <2>1 DEF Known
  <2>3. \A d \in Clients : race[d] \in Refusals => d \in ends' /\ holder'[d] = Nobody
    BY <1>1 DEF HandedOutIsChecked
  <2>4. Cardinality(Known') <= Max
    <3>1. Known' \subseteq Known /\ Known \subseteq Clients /\ Cardinality(Known) <= Max
      BY <1>1, <2>1 DEF HandedOutIsChecked, Known
    <3> QED
      BY <3>1, Few
  <2> QED
    BY <1>1, <2>2, <2>3, <2>4 DEF HandedOutIsChecked
<1>5. ClientsOk'
  <2>1. \A d \in Clients : race[d] \in {"none", "pending"} =>
          (d \in ends' <=> d \in ends) /\ holder'[d] = holder[d]
    BY <1>2
  <2>2. \A d \in Clients : holder'[d] \in Callers => holder'[d] = holder[d]
    BY PoolAssumption
  <2>3. \A u \in Callers : Held(u)' = Held(u)
    BY <1>2, PoolAssumption DEF Held
  <2> QED
    BY <1>1, <2>1, <2>2, <2>3 DEF ClientsOk
<1> QED
  BY <1>3, <1>4, <1>5 DEF PoolOk, OthersStand

\* pool.connect() of a caller that holds nothing.
LEMMA AskPool ==
  ASSUME PoolOk, NEW u \in Callers, Ask(u)
  PROVE  PoolOk' /\ OthersStand
<1>1. PoolTypeOK /\ ClientsOk /\ HandedOutIsChecked
  BY DEF PoolOk
<1>2. /\ asks[u] \in {"none", "refused"} /\ asks'[u] \in {"waiting", "refused"}
      /\ UNCHANGED <<work, race, open, ends, holder, ending, failures>>
      /\ \A v \in Callers : v # u => asks'[v] = asks[v]
  BY <1>1 DEF Ask, PoolTypeOK
<1>3. PoolTypeOK'
  BY <1>1 DEF PoolTypeOK, Ask
<1>4. Held(u) = {} /\ \A v : Held(v)' = Held(v)
  BY <1>1, <1>2 DEF ClientsOk, Held
<1>5. \A d \in Clients : holder[d] # u
  BY <1>4 DEF Held
<1>6. HandedOutIsChecked'
  <2>1. Known' = Known
    BY <1>2 DEF Known
  <2>2. \A d \in Known : race[d] = "pending" => holder[d] \in Callers
    BY <1>1 DEF ClientsOk, Known
  <2>3. \A d \in Known : d \in Clients
    BY DEF Known
  <2> QED
    BY <1>1, <1>2, <1>5, <2>1, <2>2, <2>3 DEF HandedOutIsChecked
<1>7. ClientsOk'
  BY <1>1, <1>2, <1>4, <1>5 DEF ClientsOk
<1> QED
  BY <1>2, <1>3, <1>6, <1>7 DEF PoolOk, OthersStand

\* A caller that waits is given an idle client.
LEMMA TakeIdlePool ==
  ASSUME PoolOk, NEW u \in Callers, NEW c \in Clients, TakeIdle(u, c)
  PROVE  PoolOk' /\ OthersStand
<1>1. PoolTypeOK /\ ClientsOk /\ HandedOutIsChecked
  BY DEF PoolOk
<1>2. /\ asks[u] = "waiting" /\ holder[c] = Pool
      /\ UNCHANGED <<work, race, open, ends, ending, failures>>
  BY DEF TakeIdle, Idle
<1>3. c \in Known /\ race[c] = "ok" /\ c \notin ends /\ work[c] = "done"
  BY <1>1, <1>2, PoolAssumption DEF HandedOutIsChecked, Known
<1>4. /\ asks'[u] = "holds" /\ holder'[c] = u
      /\ \A v \in Callers : v # u => asks'[v] = asks[v]
      /\ \A d \in Clients : d # c => holder'[d] = holder[d]
  BY <1>1 DEF TakeIdle, PoolTypeOK
<1>5. PoolTypeOK'
  BY <1>1 DEF PoolTypeOK, TakeIdle
<1>6. \A d \in Clients : holder[d] # u
  BY <1>1, <1>2 DEF ClientsOk, Held
<1>7. HandedOutIsChecked'
  <2>1. Known' = Known
    BY <1>2, <1>4, PoolAssumption DEF Known
  <2>2. \A d \in Known : /\ d \in Clients
                         /\ race[d] = "pending" => holder[d] \in Callers
    BY <1>1 DEF ClientsOk, Known
  <2> QED
    BY <1>1, <1>2, <1>3, <1>4, <1>6, <2>1, <2>2 DEF HandedOutIsChecked, Refusals
<1>8. ClientsOk'
  <2>1. /\ Held(u)' = {c}
        /\ \A v \in Callers : v # u => Held(v)' = Held(v)
    BY <1>2, <1>4, <1>6, PoolAssumption DEF Held
  <2>2. \A d \in Clients : race[d] \in {"none", "pending"} => holder'[d] = holder[d]
    BY <1>3, <1>4
  <2>3. \A d, e \in Clients : holder'[d] = holder'[e] /\ holder'[d] \in Callers => d = e
    BY <1>1, <1>4, <1>6 DEF ClientsOk
  <2>4. \A d \in Clients : race[d] = "pending" => asks'[holder[d]] = asks[holder[d]]
    BY <1>1, <1>4, <1>6 DEF ClientsOk
  <2> QED
    BY <1>1, <1>2, <1>4, <2>1, <2>2, <2>3, <2>4 DEF ClientsOk
<1> QED
  BY <1>2, <1>4, <1>5, <1>7, <1>8 DEF PoolOk, OthersStand

\* The pool makes a client for a caller that waits, while it has room for one.
LEMMA CreatePool ==
  ASSUME PoolOk, NEW u \in Callers, NEW c \in Clients, Create(u, c)
  PROVE  PoolOk' /\ OthersStand
<1>1. PoolTypeOK /\ ClientsOk /\ HandedOutIsChecked
  BY DEF PoolOk
<1>2. /\ asks[u] = "waiting" /\ race[c] = "none" /\ Cardinality(Known) < Max
      /\ UNCHANGED <<open, ends, ending, failures>>
  BY DEF Create
<1>3. holder[c] = Nobody /\ c \notin ends
  BY <1>1, <1>2 DEF ClientsOk
<1>4. /\ asks'[u] = "connecting" /\ holder'[c] = u /\ race'[c] = "pending" /\ work'[c] = "connect"
      /\ \A v \in Callers : v # u => asks'[v] = asks[v]
      /\ \A d \in Clients : d # c =>
           holder'[d] = holder[d] /\ race'[d] = race[d] /\ work'[d] = work[d]
  BY <1>1 DEF Create, PoolTypeOK
<1>5. PoolTypeOK'
  BY <1>1 DEF PoolTypeOK, Create
<1>6. \A d \in Clients : holder[d] # u
  BY <1>1, <1>2 DEF ClientsOk, Held
<1>7. \A d \in Clients : race[d] = "pending" =>
        holder[d] \in Callers /\ asks'[holder[d]] = asks[holder[d]]
  BY <1>1, <1>4, <1>6 DEF ClientsOk
<1>8. HandedOutIsChecked'
  <2>1. Known' = Known \cup {c} /\ c \notin Known
    BY <1>3, <1>4, PoolAssumption DEF Known
  <2>2. Cardinality(Known') <= Max
    <3>1. IsFiniteSet(Known)
      BY PoolAssumption, FS_Subset DEF Known
    <3>2. Cardinality(Known \cup {c}) = Cardinality(Known) + 1 /\ Cardinality(Known) \in Nat
      BY <2>1, <3>1, FS_AddElement, FS_CardinalityType
    <3> QED
      BY <1>2, <2>1, <3>2, PoolAssumption
  <2>3. \A d \in Clients : race'[d] \in Refusals <=> race[d] \in Refusals
    BY <1>2, <1>4 DEF Refusals
  <2>4. {d \in Clients : race'[d] \in Refusals} = {d \in Clients : race[d] \in Refusals}
    BY <2>3
  <2>5. \A d \in Known' : \/ race'[d] = "ok" /\ work'[d] = "done" /\ d \notin ends
                          \/ /\ race'[d] = "pending" /\ holder'[d] # Pool
                             /\ asks'[holder'[d]] = "connecting"
    <3> TAKE d \in Known'
    <3>1. CASE d = c
      BY <1>4, <3>1, PoolAssumption
    <3>2. CASE d # c
      BY <1>1, <1>4, <1>7, <2>1, <3>2 DEF HandedOutIsChecked, Known
    <3> QED
      BY <3>1, <3>2
  <2>6. \A d \in Clients : race'[d] \in Refusals => d \in ends /\ holder'[d] = Nobody
    BY <1>1, <1>3, <1>4, <2>3 DEF HandedOutIsChecked, Refusals
  <2> QED
    BY <1>1, <1>2, <2>2, <2>4, <2>5, <2>6 DEF HandedOutIsChecked
<1>9. ClientsOk'
  <2>1. /\ Held(u)' = {c}
        /\ \A v \in Callers : v # u => Held(v)' = Held(v)
    BY <1>3, <1>4, <1>6, PoolAssumption DEF Held
  <2>2. \A d, e \in Clients : holder'[d] = holder'[e] /\ holder'[d] \in Callers => d = e
    BY <1>1, <1>4, <1>6 DEF ClientsOk
  <2>3. \A d \in Clients :
          /\ race'[d] = "none" => work'[d] = "none" /\ holder'[d] = Nobody /\ d \notin ends
          /\ race'[d] = "pending" =>
               /\ work'[d] \in {"connect", "zone"} /\ d \notin ends
               /\ holder'[d] \in Callers /\ asks'[holder'[d]] = "connecting"
          /\ race'[d] = "ok" => work'[d] = "done"
    <3> TAKE d \in Clients
    <3>1. CASE d = c
      BY <1>3, <1>4, <3>1
    <3>2. CASE d # c
      BY <1>1, <1>4, <1>7, <3>2 DEF ClientsOk
    <3> QED
      BY <3>1, <3>2
  <2>4. \A v \in Callers :
          /\ asks'[v] = "holds" => Held(v)' # {}
          /\ asks'[v] \in {"none", "waiting", "refused"} => Held(v)' = {}
          /\ asks'[v] = "connecting" => \A d \in Held(v)' : race'[d] = "pending"
    <3> TAKE v \in Callers
    <3>1. CASE v = u
      BY <1>4, <2>1, <3>1
    <3>2. CASE v # u
      <4>1. \A d \in Held(v) : race'[d] = race[d] \/ d = c
        BY <1>4 DEF Held
      <4>2. c \notin Held(v)
        BY <1>3, PoolAssumption DEF Held
      <4> QED
        BY <1>1, <1>4, <2>1, <3>2, <4>1, <4>2 DEF ClientsOk
    <3> QED
      BY <3>1, <3>2
  <2> QED
    BY <1>2, <2>2, <2>3, <2>4 DEF ClientsOk
<1> QED
  BY <1>2, <1>4, <1>5, <1>8, <1>9 DEF PoolOk, OthersStand

\* A caller gives its client back, or has it destroyed, and then holds none.
LEMMA ReleasePool ==
  ASSUME PoolOk, NEW u \in Callers, NEW c \in Clients, NEW destroy \in BOOLEAN,
         ReleaseClient(u, c, destroy)
  PROVE  PoolOk' /\ \A v \in Callers \ {u} : asks'[v] = asks[v]
<1>1. PoolTypeOK /\ ClientsOk /\ HandedOutIsChecked
  BY DEF PoolOk
<1>2. /\ asks[u] = "holds" /\ holder[c] = u
      /\ UNCHANGED <<work, race, open, ending, failures>>
  BY DEF ReleaseClient
<1>3. c \in Known /\ race[c] = "ok" /\ c \notin ends /\ work[c] = "done"
  BY <1>1, <1>2, PoolAssumption DEF HandedOutIsChecked, Known
<1>4. /\ asks'[u] = "none"
      /\ holder'[c] \in {Pool, Nobody} /\ (holder'[c] = Pool => c \notin ends')
      /\ \A v \in Callers : v # u => asks'[v] = asks[v]
      /\ \A d \in Clients : d # c => holder'[d] = holder[d] /\ (d \in ends' <=> d \in ends)
  BY <1>1, <1>3, PoolAssumption DEF ReleaseClient, PoolTypeOK
<1>5. PoolTypeOK'
  BY <1>1 DEF PoolTypeOK, ReleaseClient
<1>6. \A d \in Clients : d # c => holder[d] # u
  BY <1>1, <1>2 DEF ClientsOk
<1>7. \A d \in Clients : race[d] = "pending" =>
        holder[d] \in Callers /\ asks'[holder[d]] = asks[holder[d]]
  BY <1>1, <1>3, <1>4, <1>6 DEF ClientsOk
<1>8. HandedOutIsChecked'
  <2>1. Known' \subseteq Known
    BY <1>3, <1>4 DEF Known
  <2>2. Cardinality(Known') <= Max
    <3>1. Known \subseteq Clients /\ Cardinality(Known) <= Max
      BY <1>1 DEF HandedOutIsChecked, Known
    <3> QED
      BY <2>1, <3>1, Few
  <2>3. \A d \in Known' : \/ race[d] = "ok" /\ work[d] = "done" /\ d \notin ends'
                          \/ /\ race[d] = "pending" /\ holder'[d] # Pool
                             /\ asks'[holder'[d]] = "connecting"
    <3> TAKE d \in Known'
    <3>1. CASE d = c
      BY <1>3, <1>4, <3>1 DEF Known
    <3>2. CASE d # c
      BY <1>1, <1>4, <1>7, <2>1, <3>2 DEF HandedOutIsChecked, Known
    <3> QED
      BY <3>1, <3>2
  <2>4. \A d \in Clients : race[d] \in Refusals => d \in ends' /\ holder'[d] = Nobody
    BY <1>1, <1>3, <1>4 DEF HandedOutIsChecked, Refusals
  <2> QED
    BY <1>1, <1>2, <2>2, <2>3, <2>4 DEF HandedOutIsChecked
<1>9. ClientsOk'
  <2>1. /\ Held(u)' = {}
        /\ \A v \in Callers : v # u => Held(v)' = Held(v)
    BY <1>2, <1>4, <1>6, PoolAssumption DEF Held
  <2>2. \A d, e \in Clients : holder'[d] = holder'[e] /\ holder'[d] \in Callers => d = e
    BY <1>1, <1>4, PoolAssumption DEF ClientsOk
  <2>3. \A d \in Clients : race[d] \in {"none", "pending"} =>
          holder'[d] = holder[d] /\ (d \in ends' <=> d \in ends)
    BY <1>3, <1>4
  <2>4. \A d \in Clients :
          /\ race[d] = "none" => work[d] = "none" /\ holder'[d] = Nobody /\ d \notin ends'
          /\ race[d] = "pending" =>
               /\ work[d] \in {"connect", "zone"} /\ d \notin ends'
               /\ holder'[d] \in Callers /\ asks'[holder'[d]] = "connecting"
          /\ race[d] = "ok" => work[d] = "done"
    BY <1>1, <1>7, <2>3 DEF ClientsOk
  <2> QED
    BY <1>1, <1>2, <1>4, <2>1, <2>2, <2>4 DEF ClientsOk
<1> QED
  BY <1>4, <1>5, <1>8, <1>9 DEF PoolOk

\* What a connection or a timer does on its own.
LEMMA StepPool ==
  ASSUME PoolOk, PoolStep
  PROVE  PoolOk' /\ OthersStand
<1>1. PoolTypeOK /\ ClientsOk
  BY DEF PoolOk
<1>2. ASSUME NEW c \in Clients, Connected(c) PROVE PoolOk' /\ OthersStand
  <2>1. race[c] = "pending" \/ race[c] \in Refusals
    BY <1>1, <1>2 DEF Connected, ClientsOk, PoolTypeOK
  <2> QED
    BY <1>1, <1>2, <2>1, WorkGoesOn DEF Connected, PoolTypeOK
<1>3. ASSUME NEW c \in Clients, Deadline(c) PROVE PoolOk' /\ OthersStand
  <2>1. "CONNECT_TIMEOUT" \in Refusals
    BY DEF Refusals
  <2> QED
    BY <1>1, <1>3, <2>1, RefusePool DEF Deadline, PoolTypeOK
<1>4. ASSUME NEW c \in Clients, WorkFails(c) PROVE PoolOk' /\ OthersStand
  <2>1. race[c] = "pending" \/ race[c] \in Refusals
    BY <1>1, <1>4 DEF WorkFails, ClientsOk, PoolTypeOK
  <2>2. /\ work' \in [Clients -> {"none", "connect", "zone", "done", "failed"}]
        /\ \A d \in Clients : d # c => work'[d] = work[d]
        /\ open' \subseteq Clients /\ ending' = ending /\ ending' \in BOOLEAN
    BY <1>1, <1>4 DEF WorkFails, PoolTypeOK
  <2>3. CASE race[c] = "pending"
    <3>1. Refuse(c, "CONNECT_FAILED") /\ "CONNECT_FAILED" \in Refusals
      BY <1>4, <2>3 DEF WorkFails, Race, Refusals
    <3> QED
      BY <2>2, <2>3, <3>1, RefusePool
  <2>4. CASE race[c] \in Refusals
    <3>1. UNCHANGED <<race, ends, holder, asks, failures>>
      BY <1>4, <2>4 DEF WorkFails, Race, Refusals
    <3> QED
      BY <2>2, <2>4, <3>1, WorkGoesOn
  <2> QED
    BY <2>1, <2>3, <2>4
<1>5. ASSUME NEW c \in Clients, NEW zone \in Zones, ZoneAnswered(c, zone)
      PROVE  PoolOk' /\ OthersStand
  <2>1. race[c] = "pending" \/ race[c] \in Refusals
    BY <1>1, <1>5 DEF ZoneAnswered, ClientsOk, PoolTypeOK
  <2>2. /\ work' \in [Clients -> {"none", "connect", "zone", "done", "failed"}]
        /\ \A d \in Clients : d # c => work'[d] = work[d]
        /\ open' \subseteq Clients /\ UNCHANGED <<open, ending>> /\ ending' \in BOOLEAN
    BY <1>1, <1>5 DEF ZoneAnswered, PoolTypeOK
  <2>3. CASE race[c] = "pending" /\ zone = REQUIRED_SESSION_TIME_ZONE
    <3>1. Accept(c) /\ work' = [work EXCEPT ![c] = "done"]
      BY <1>5, <2>3 DEF ZoneAnswered, Race
    <3> QED
      BY <2>2, <2>3, <3>1, AcceptPool
  <2>4. CASE race[c] = "pending" /\ zone # REQUIRED_SESSION_TIME_ZONE
    <3>1. Refuse(c, "TIMEZONE_NOT_UTC") /\ "TIMEZONE_NOT_UTC" \in Refusals
      BY <1>5, <2>4 DEF ZoneAnswered, Race, Refusals
    <3> QED
      BY <2>2, <2>4, <3>1, RefusePool
  <2>5. CASE race[c] \in Refusals
    <3>1. UNCHANGED <<race, ends, holder, asks, failures>>
      BY <1>5, <2>5 DEF ZoneAnswered, Race, Refusals
    <3> QED
      BY <2>2, <2>5, <3>1, WorkGoesOn
  <2> QED
    BY <2>1, <2>3, <2>4, <2>5
<1>6. ASSUME NEW c \in Clients, EndDone(c) PROVE PoolOk' /\ OthersStand
  <2>1. work[c] \in {"connect", "zone"} => race[c] \in Refusals
    BY <1>1, <1>6 DEF EndDone, ClientsOk, PoolTypeOK
  <2> QED
    BY <1>1, <1>6, <2>1, WorkGoesOn DEF EndDone, PoolTypeOK
<1>7. ASSUME NEW c \in Clients, IdleError(c) PROVE PoolOk' /\ OthersStand
  <2>1. holder' = [d \in Clients |-> IF d \in {c} THEN Nobody ELSE holder[d]]
    BY <1>1, <1>7 DEF IdleError, PoolTypeOK
  <2>2. {c} \in SUBSET Idle /\ ends' = ends \cup {c} /\ open' \subseteq Clients
        /\ ending' \in BOOLEAN /\ UNCHANGED <<work, race, asks, failures>>
    BY <1>1, <1>7 DEF IdleError, PoolTypeOK
  <2> QED
    BY <2>1, <2>2, DropIdle
<1> QED
  BY <1>2, <1>3, <1>4, <1>5, <1>6, <1>7 DEF PoolStep

\* pool.end().
LEMMA EndingPool ==
  ASSUME PoolOk, EndPool
  PROVE  PoolOk' /\ OthersStand
<1>1. PoolTypeOK
  BY DEF PoolOk
<1>2. holder' = [d \in Clients |-> IF d \in Idle THEN Nobody ELSE holder[d]]
  BY DEF EndPool, Idle
<1>3. ends' = ends \cup Idle /\ open' \subseteq Clients /\ ending' \in BOOLEAN
      /\ UNCHANGED <<work, race, asks, failures>>
  BY <1>1 DEF EndPool, PoolTypeOK
<1> QED
  BY <1>2, <1>3, DropIdle

----------------------------------------------------------------------------
(* Memberships: the set the recursive query closes is the set of roles     *)
(* that a chain of memberships leads to.                                   *)

\* A chain of n memberships, from the effective role.
Chain(k, n, p) ==
  /\ p \in [0..n -> Roles]
  /\ p[0] = k.effective
  /\ \A i \in 1..n : <<p[i - 1], p[i]>> \in k.edges

\* A chain of n memberships leads to a role.
Leads(k, n, r) == \E p \in [0..n -> Roles] : Chain(k, n, p) /\ p[n] = r

\* Reachability counts the chains no longer than there are roles.
LEMMA ReachableByChain ==
  ASSUME NEW k, NEW r
  PROVE  Reachable(k, r) <=> \E n \in 1..Cardinality(Roles) : Leads(k, n, r)
BY DEF Reachable, Chain, Leads

\* A loop of a chain can be cut out.
LEMMA CutLoop ==
  ASSUME NEW k, NEW m \in Nat, NEW p, Chain(k, m, p),
         NEW i \in 1..m, NEW j \in 1..m, i < j, p[i] = p[j]
  PROVE  Leads(k, m - (j - i), p[m])
<1> DEFINE d == j - i
           q == [x \in 0..(m - d) |-> IF x <= i THEN p[x] ELSE p[x + d]]
<1>1. d \in Nat /\ d >= 1 /\ m - d \in Nat /\ m - d >= i /\ i + d = j
  OBVIOUS
<1>2. p \in [0..m -> Roles] /\ p[0] = k.effective
      /\ \A t \in 1..m : <<p[t - 1], p[t]>> \in k.edges
  BY DEF Chain
<1> HIDE DEF d
<1>3. q \in [0..(m - d) -> Roles]
  BY <1>1, <1>2
<1>4. q[0] = k.effective
  BY <1>1, <1>2
<1>5. q[m - d] = p[m]
  <2>1. CASE m - d = i
    <3>1. j = m
      BY <1>1, <2>1
    <3> QED
      BY <1>1, <2>1, <3>1
  <2>2. CASE m - d # i
    <3>1. ~(m - d <= i) /\ (m - d) + d = m
      BY <1>1, <2>2
    <3> QED
      BY <1>1, <3>1
  <2> QED
    BY <2>1, <2>2
<1>6. ASSUME NEW t \in 1..(m - d) PROVE <<q[t - 1], q[t]>> \in k.edges
  <2>1. CASE t <= i
    <3>1. t \in 1..m /\ t - 1 <= i /\ t - 1 \in 0..(m - d) /\ t \in 0..(m - d)
      BY <1>1, <2>1
    <3>2. q[t - 1] = p[t - 1] /\ q[t] = p[t]
      BY <2>1, <3>1
    <3> HIDE DEF q
    <3> QED
      BY <1>2, <3>1, <3>2
  <2>2. CASE t = i + 1
    <3>1. /\ t - 1 = i /\ t - 1 <= i /\ ~(t <= i) /\ t + d = j + 1 /\ t + d \in 1..m
          /\ t - 1 \in 0..(m - d) /\ t \in 0..(m - d) /\ (t + d) - 1 = j
      BY <1>1, <2>2
    <3>2. q[t - 1] = p[j] /\ q[t] = p[t + d]
      BY <3>1
    <3>3. <<p[(t + d) - 1], p[t + d]>> \in k.edges
      BY <1>2, <3>1
    <3> HIDE DEF q
    <3> QED
      BY <3>1, <3>2, <3>3
  <2>3. CASE t > i + 1
    <3>1. /\ ~(t - 1 <= i) /\ ~(t <= i) /\ t + d \in 1..m /\ (t - 1) + d = (t + d) - 1
          /\ t - 1 \in 0..(m - d) /\ t \in 0..(m - d)
      BY <1>1, <2>3
    <3>2. q[t - 1] = p[(t - 1) + d] /\ q[t] = p[t + d]
      BY <3>1
    <3>3. <<p[(t + d) - 1], p[t + d]>> \in k.edges
      BY <1>2, <3>1
    <3> HIDE DEF q
    <3> QED
      BY <3>1, <3>2, <3>3
  <2> QED
    BY <1>1, <2>1, <2>2, <2>3
<1>7. Chain(k, m - d, q)
  <2> HIDE DEF q
  <2> QED
    BY <1>3, <1>4, <1>6 DEF Chain
<1>8. Leads(k, m - d, p[m])
  <2> HIDE DEF q
  <2> QED
    BY <1>3, <1>5, <1>7 DEF Leads
<1> QED
  BY <1>8 DEF d

\* A chain of any length can be made no longer than there are roles: a shortest
\* one comes to no role twice.
LEMMA Shorten ==
  ASSUME NEW k, NEW n \in Nat \ {0}, NEW p, Chain(k, n, p)
  PROVE  Reachable(k, p[n])
<1> DEFINE T == {m \in Nat \ {0} : Leads(k, m, p[n])}
<1>1. n \in T
  BY DEF Chain, Leads
<1>2. PICK m \in T : \A y \in T : m <= y
  <2>1. T \in SUBSET Nat /\ T # {}
    BY <1>1
  <2> HIDE DEF T
  <2> QED
    BY <2>1, LeastNat
<1>3. PICK q \in [0..m -> Roles] : Chain(k, m, q) /\ q[m] = p[n]
  BY <1>2 DEF Leads
<1>4. m \in Nat /\ m >= 1
  BY <1>2
<1>5. ASSUME NEW i \in 1..m, NEW j \in 1..m, i < j, q[i] = q[j] PROVE FALSE
  <2>1. Leads(k, m - (j - i), q[m])
    <3> HIDE DEF T
    <3> QED
      BY <1>3, <1>4, <1>5, CutLoop
  <2>2. m - (j - i) \in Nat \ {0} /\ m - (j - i) < m
    BY <1>4, <1>5
  <2>3. m - (j - i) \in T
    BY <1>3, <2>1, <2>2
  <2> HIDE DEF T
  <2> QED
    BY <1>2, <1>4, <2>2, <2>3
<1>6. ~(Cardinality(Roles) < m)
  <2> SUFFICES ASSUME Cardinality(Roles) < m PROVE FALSE
    OBVIOUS
  <2> DEFINE f == [x \in 1..m |-> q[x]]
  <2>1. f \in [1..m -> Roles] /\ \A i \in 1..m : f[i] = q[i]
    BY <1>3, <1>4
  <2>2. IsFiniteSet(1..m) /\ Cardinality(1..m) = m
    BY <1>4, FS_Interval
  <2> HIDE DEF f
  <2>3. PICK i \in 1..m, j \in 1..m : i # j /\ f[i] = f[j]
    BY <2>1, <2>2, FS_PigeonHole, RoleCheckAssumption
  <2>4. q[i] = q[j] /\ (i < j \/ j < i)
    BY <1>4, <2>1, <2>3
  <2> QED
    BY <1>5, <2>4
<1>7. m \in 1..Cardinality(Roles)
  <2>1. Cardinality(Roles) \in Nat
    BY RoleCheckAssumption, FS_CardinalityType
  <2> QED
    BY <1>4, <1>6, <2>1
<1> QED
  BY <1>2, <1>7, ReachableByChain

\* What can be reached is closed under the memberships.
LEMMA ReachableIsClosed ==
  ASSUME NEW k \in Catalogs, NEW e \in k.edges, e[1] = k.effective \/ Reachable(k, e[1])
  PROVE  e[2] \in Roles /\ Reachable(k, e[2])
<1>1. k.effective \in Roles /\ e[1] \in Roles /\ e[2] \in Roles /\ <<e[1], e[2]>> \in k.edges
  <2>1. e \in Roles \X Roles /\ k.effective \in Roles
    BY RoleCheckAssumption
  <2> QED
    BY <2>1
<1>2. CASE e[1] = k.effective
  <2> DEFINE p == [x \in 0..1 |-> IF x = 0 THEN e[1] ELSE e[2]]
  <2>1. p \in [0..1 -> Roles] /\ p[0] = e[1] /\ p[1] = e[2]
    BY <1>1
  <2>2. \A i \in 1..1 : i = 1 /\ i - 1 = 0
    OBVIOUS
  <2> HIDE DEF p
  <2>3. Chain(k, 1, p)
    BY <1>1, <1>2, <2>1, <2>2 DEF Chain
  <2> QED
    BY <1>1, <2>1, <2>3, Shorten
<1>3. CASE Reachable(k, e[1])
  <2>0. PICK n \in 1..Cardinality(Roles) : Leads(k, n, e[1])
    BY <1>3, ReachableByChain
  <2>1. PICK p \in [0..n -> Roles] : Chain(k, n, p) /\ p[n] = e[1]
    BY <2>0 DEF Leads
  <2>2. n \in Nat /\ n >= 1
    BY <2>0
  <2> DEFINE q == [x \in 0..(n + 1) |-> IF x <= n THEN p[x] ELSE e[2]]
  <2>3. q \in [0..(n + 1) -> Roles]
    BY <1>1, <2>1, <2>2
  <2>4. q[n + 1] = e[2] /\ q[n] = e[1] /\ q[0] = k.effective
    BY <2>1, <2>2 DEF Chain
  <2>5. ASSUME NEW i \in 1..(n + 1) PROVE <<q[i - 1], q[i]>> \in k.edges
    <3>1. CASE i = n + 1
      <4>1. i - 1 = n
        BY <2>2, <3>1
      <4> HIDE DEF q
      <4> QED
        BY <1>1, <2>4, <3>1, <4>1
    <3>2. CASE i # n + 1
      <4>1. i \in 1..n /\ i - 1 \in 0..(n + 1) /\ i \in 0..(n + 1) /\ i <= n /\ i - 1 <= n
        BY <2>2, <3>2
      <4>2. q[i - 1] = p[i - 1] /\ q[i] = p[i]
        BY <4>1
      <4> HIDE DEF q
      <4> QED
        BY <2>1, <4>1, <4>2 DEF Chain
    <3> QED
      BY <3>1, <3>2
  <2> HIDE DEF q
  <2>6. Chain(k, n + 1, q)
    BY <2>3, <2>4, <2>5 DEF Chain
  <2> QED
    BY <1>1, <2>2, <2>4, <2>6, Shorten
<1> QED
  BY <1>2, <1>3

\* The roles of the recursive query are the ones a chain of memberships leads to.
LEMMA MemberIsReachable ==
  ASSUME NEW k \in Catalogs
  PROVE  MemberOf(k) = {r \in Roles : Reachable(k, r)}
<1> DEFINE Closed(S) == \A e \in k.edges : e[1] = k.effective \/ e[1] \in S => e[2] \in S
           Far == {r \in Roles : Reachable(k, r)}
<1>1. Closed(Far)
  BY ReachableIsClosed
<1>2. MemberOf(k) \subseteq Far
  <2>1. Far \in SUBSET Roles
    OBVIOUS
  <2> QED
    BY <1>1, <2>1 DEF MemberOf
<1>3. ASSUME NEW r \in Far, NEW S \in SUBSET Roles, Closed(S) PROVE r \in S
  <2>0. PICK n \in 1..Cardinality(Roles) : Leads(k, n, r)
    BY ReachableByChain
  <2>1. PICK p \in [0..n -> Roles] : Chain(k, n, p) /\ p[n] = r
    BY <2>0 DEF Leads
  <2>2. n \in Nat /\ n >= 1
    BY <2>0
  <2> SUFFICES ASSUME r \notin S PROVE FALSE
    OBVIOUS
  <2> DEFINE T == {i \in 1..n : p[i] \notin S}
  <2>3. n \in T
    BY <2>1, <2>2
  <2>4. PICK i \in T : \A y \in T : i <= y
    <3>1. T \in SUBSET Nat /\ T # {}
      BY <2>2, <2>3
    <3> HIDE DEF T
    <3> QED
      BY <3>1, LeastNat
  <2>5. <<p[i - 1], p[i]>> \in k.edges /\ p[i] \notin S
    BY <2>1, <2>4 DEF Chain
  <2>6. p[i - 1] = k.effective \/ p[i - 1] \in S
    <3>1. CASE i = 1
      BY <2>1, <3>1 DEF Chain
    <3>2. CASE i # 1
      <4>1. i - 1 \in 1..n /\ ~(i <= i - 1)
        BY <2>2, <2>4, <3>2
      <4>2. i - 1 \notin T
        BY <2>4, <4>1
      <4> QED
        BY <4>1, <4>2
    <3> QED
      BY <3>1, <3>2
  <2>7. <<p[i - 1], p[i]>>[1] = p[i - 1] /\ <<p[i - 1], p[i]>>[2] = p[i]
    OBVIOUS
  <2> QED
    BY <1>3, <2>5, <2>6, <2>7
<1>4. Far \subseteq MemberOf(k)
  BY <1>3 DEF MemberOf
<1> QED
  BY <1>2, <1>4

----------------------------------------------------------------------------
(* The checks of the plan say what the expectations are about.             *)

\* The only row that says the privilege is held.
LEMMA RowIsTrue ==
  ASSUME NEW b \in BOOLEAN
  PROVE  /\ Row(b) = <<"true">> <=> b
         /\ <<"null">> # <<"true">> /\ <<>> # <<"true">>
<1>1. <<"null">> # <<"true">> /\ <<>> # <<"true">> /\ <<"false">> # <<"true">>
  OBVIOUS
<1> QED
  BY <1>1 DEF Row

\* For a grant that is usable, what is asked of the catalog is whether it holds.
LEMMA GrantIsAsked ==
  ASSUME NEW k, NEW g \in Grant, RoleCheckOf(g) # "none"
  PROVE  MissingGrant(k, g) <=> ~GrantHolds(k, g)
<1> DEFINE o == g.object
           has(x) == <<g.object, g.privilege, x>> \in k.privs
           kind == KindOf[g.object]
<1>1. kind \in IF IsQualified[o] THEN {"function", "table", "sequence", "absent"}
                                 ELSE {"schema", "absent"}
  BY RoleCheckAssumption DEF Grant
<1>2. CASE ~IsQualified[o]
  <2>1. g.columns = NoColumns /\ RoleCheckOf(g) = "schema" /\ kind \in {"schema", "absent"}
    <3>1. kind \in {"schema", "absent"}
      BY <1>1, <1>2
    <3>2. RoleCheckOf(g) = IF g.columns = NoColumns /\ g.privilege \in ROLE_PRIVILEGES.schema
                             THEN "schema" ELSE "none"
      BY <1>2 DEF RoleCheckOf
    <3> QED
      BY <3>1, <3>2
  <2>2. GrantRows(k, g) = IF kind = "schema" THEN Row(has("all")) ELSE <<"null">>
    BY <1>2 DEF GrantRows
  <2>3. GrantHolds(k, g) <=> kind = "schema" /\ has("all")
    BY <2>1 DEF GrantHolds
  <2>4. MissingGrant(k, g) <=> GrantRows(k, g) # <<"true">>
    BY <2>1 DEF MissingGrant, MissingObject
  <2>5. has("all") \in BOOLEAN
    OBVIOUS
  <2> HIDE DEF kind, has
  <2> QED
    BY <2>2, <2>3, <2>4, <2>5, RowIsTrue
<1>3. CASE IsQualified[o] /\ g.privilege = "EXECUTE"
  <2>1. g.columns = NoColumns /\ RoleCheckOf(g) = "function"
        /\ kind \in {"function", "table", "sequence", "absent"}
    <3>1. RoleCheckOf(g) = IF g.columns = NoColumns THEN "function" ELSE "none"
      BY <1>3 DEF RoleCheckOf
    <3> QED
      BY <1>1, <1>3, <3>1
  <2> DEFINE each == \A f \in Overloads[o] : has(f)
  <2>2. GrantRows(k, g) = IF kind = "function" THEN Row(each) ELSE <<"null">>
    BY <1>3 DEF GrantRows
  <2>3. GrantHolds(k, g) <=> kind = "function" /\ each
    BY <1>3, <2>1 DEF GrantHolds
  <2>4. MissingGrant(k, g) <=> GrantRows(k, g) # <<"true">>
    BY <2>1 DEF MissingGrant, MissingObject
  <2> HIDE DEF kind, each
  <2>5. each \in BOOLEAN
    BY DEF each
  <2> QED
    BY <2>2, <2>3, <2>4, <2>5, RowIsTrue
<1>4. CASE IsQualified[o] /\ g.privilege # "EXECUTE" /\ g.columns # NoColumns
  <2>1. RoleCheckOf(g) = "columns" /\ g.columns # {}
        /\ kind \in {"function", "table", "sequence", "absent"}
    BY <1>1, <1>4 DEF RoleCheckOf
  <2>2. MissingGrant(k, g) <=> \E col \in g.columns : ~ColumnHeld(k, g, col)
    BY <2>1 DEF MissingGrant, MissingColumn
  <2>3. CASE kind \in {"function", "absent"}
    <3>1. ~GrantHolds(k, g)
      BY <1>4, <2>3 DEF GrantHolds
    <3>2. \A col \in g.columns : ~ColumnHeld(k, g, col)
      BY <2>3 DEF ColumnHeld
    <3> QED
      BY <2>1, <2>2, <3>1, <3>2
  <2>4. CASE kind \in {"table", "sequence"}
    <3>1. GrantHolds(k, g) <=>
            g.columns \subseteq {c \in ColumnsOf[g.object] : has(c) \/ has("all")}
      BY <1>4, <2>4 DEF GrantHolds
    <3>2. \A col : ColumnHeld(k, g, col) <=>
            col \in ColumnsOf[g.object] /\ (has(col) \/ has("all"))
      BY <2>4 DEF ColumnHeld
    <3> HIDE DEF has, kind
    <3> QED
      BY <2>2, <3>1, <3>2
  <2> QED
    BY <2>1, <2>3, <2>4
<1>5. CASE IsQualified[o] /\ g.privilege # "EXECUTE" /\ g.columns = NoColumns
  <2>1. RoleCheckOf(g) = "relation" /\ kind \in {"function", "table", "sequence", "absent"}
    BY <1>1, <1>5 DEF RoleCheckOf
  <2> DEFINE some == /\ has("all")
                     /\ IF kind = "sequence" THEN g.privilege \in {"USAGE", "SELECT", "UPDATE"}
                                             ELSE g.privilege # "USAGE"
  <2>2. GrantRows(k, g) = IF kind \notin {"table", "sequence"} THEN <<>> ELSE Row(some)
    BY <1>5 DEF GrantRows
  <2>3. GrantHolds(k, g) <=> kind \in {"table", "sequence"} /\ some
    BY <1>5, <2>1 DEF GrantHolds
  <2>4. MissingGrant(k, g) <=> GrantRows(k, g) # <<"true">>
    BY <2>1 DEF MissingGrant, MissingObject
  <2>5. some \in BOOLEAN
    OBVIOUS
  <2> HIDE DEF kind, some
  <2> QED
    BY <2>2, <2>3, <2>4, <2>5, RowIsTrue
<1> QED
  BY <1>2, <1>3, <1>4, <1>5

\* The reasons an attribute of the role gives.
AttributeReasons == {ROLE_ATTRIBUTES[i][2] : i \in 1..5}

\* The attributes and the reasons their failures have.
LEMMA AttributeNames ==
  /\ DOMAIN ROLE_ATTRIBUTES = 1..5
  /\ AttributeReasons = {"ROLE_SUPERUSER", "ROLE_CREATEROLE", "ROLE_CREATEDB",
                         "ROLE_BYPASSRLS", "ROLE_REPLICATION"}
<1>1. /\ DOMAIN ROLE_ATTRIBUTES = 1..5
      /\ ROLE_ATTRIBUTES[1][2] = "ROLE_SUPERUSER" /\ ROLE_ATTRIBUTES[2][2] = "ROLE_CREATEROLE"
      /\ ROLE_ATTRIBUTES[3][2] = "ROLE_CREATEDB" /\ ROLE_ATTRIBUTES[4][2] = "ROLE_BYPASSRLS"
      /\ ROLE_ATTRIBUTES[5][2] = "ROLE_REPLICATION"
  BY DEF ROLE_ATTRIBUTES
<1>2. 1..5 = {1, 2, 3, 4, 5}
  OBVIOUS
<1> HIDE DEF ROLE_ATTRIBUTES
<1> QED
  BY <1>1, <1>2 DEF AttributeReasons

\* The loop over the attributes finds one the role has, when there is one.
LEMMA AttributeIsAsked ==
  ASSUME NEW k
  PROVE  /\ AttributeReason(k) = "none" =>
              \A reason \in AttributeReasons : Attribute(reason) \cap k.flags = {}
         /\ AttributeReason(k) # "none" =>
              AttributeReason(k) \in AttributeReasons
              /\ Attribute(AttributeReason(k)) \cap k.flags # {}
<1> DEFINE bad == {i \in DOMAIN ROLE_ATTRIBUTES : ROLE_ATTRIBUTES[i][1] \in k.flags}
           first == CHOOSE i \in bad : \A j \in bad : i <= j
<1>1. AttributeReason(k) = IF bad = {} THEN "none" ELSE ROLE_ATTRIBUTES[first][2]
  BY DEF AttributeReason
<1>2. bad = {i \in 1..5 : ROLE_ATTRIBUTES[i][1] \in k.flags}
  BY AttributeNames
<1>3. CASE bad = {}
  <2>1. \A reason : Attribute(reason) \cap k.flags = {}
    BY <1>2, <1>3 DEF Attribute
  <2> QED
    BY <1>1, <1>3, <2>1
<1>4. CASE bad # {}
  <2>1. bad \in SUBSET Nat
    BY <1>2
  <2>2. \E i \in bad : \A j \in bad : i <= j
    <3> HIDE DEF bad
    <3> QED
      BY <1>4, <2>1, LeastNat
  <2>3. first \in bad
    <3> HIDE DEF bad
    <3> QED
      BY <2>2
  <2>4. first \in 1..5 /\ ROLE_ATTRIBUTES[first][1] \in k.flags
    <3> HIDE DEF first
    <3> QED
      BY <1>2, <2>3
  <2> HIDE DEF first, bad
  <2>5. AttributeReason(k) = ROLE_ATTRIBUTES[first][2]
    BY <1>1, <1>4
  <2>6. AttributeReason(k) \in AttributeReasons
    BY <2>4, <2>5 DEF AttributeReasons
  <2>7. ROLE_ATTRIBUTES[first][1] \in Attribute(AttributeReason(k)) \cap k.flags
    BY <2>4, <2>5 DEF Attribute
  <2>8. AttributeReason(k) # "none"
    BY <2>6, AttributeNames
  <2> QED
    BY <2>6, <2>7, <2>8
<1> QED
  BY <1>3, <1>4

----------------------------------------------------------------------------
(* The boot                                                                *)

\* The expectations a service has of every role; a grant is named by its place.
SingleReasons ==
  {"ROLE_MISMATCH", "ROLE_OWNS_OBJECTS", "ROLE_MEMBERSHIP", "SESSION_ROLE_DIFFERS"}
    \cup AttributeReasons

\* What is expected, and what it is for an expectation to be met.
LEMMA ExpectationsAre ==
  /\ Expectations = About(SingleReasons)
                      \cup {<<"GRANT_MISSING", i>> : i \in DOMAIN options.expectedGrants}
  /\ \A e \in Expectations : e[1] \in SingleReasons \cup {"GRANT_MISSING"}
<1>1. Expectations = About(SingleReasons)
                       \cup {<<"GRANT_MISSING", i>> : i \in DOMAIN options.expectedGrants}
  BY DEF Expectations, About, SingleReasons, AttributeReasons
<1>2. \A e \in About(SingleReasons) : e[1] \in SingleReasons
  BY DEF About
<1> QED
  BY <1>1, <1>2

\* Each reason stands for an expectation of its own.
LEMMA MetIs ==
  ASSUME NEW k
  PROVE  /\ Met(k, <<"ROLE_MISMATCH", 0>>) <=> k.effective = options.expectedRole
         /\ Met(k, <<"ROLE_OWNS_OBJECTS", 0>>) <=> ~k.owns
         /\ Met(k, <<"ROLE_MEMBERSHIP", 0>>) <=>
              {r \in Roles : Reachable(k, r)} \subseteq options.allowedMemberships
         /\ Met(k, <<"SESSION_ROLE_DIFFERS", 0>>) <=> k.login = k.effective
         /\ \A i : Met(k, <<"GRANT_MISSING", i>>) <=> GrantHolds(k, options.expectedGrants[i])
         /\ \A reason \in AttributeReasons :
              Met(k, <<reason, 0>>) <=> Attribute(reason) \cap k.flags = {}
<1>1. \A x, i : <<x, i>>[1] = x /\ <<x, i>>[2] = i
  OBVIOUS
<1>2. \A reason \in AttributeReasons :
        reason \notin {"ROLE_MISMATCH", "ROLE_OWNS_OBJECTS", "ROLE_MEMBERSHIP",
                       "SESSION_ROLE_DIFFERS", "GRANT_MISSING"}
  BY AttributeNames
<1>3. Met(k, <<"ROLE_MISMATCH", 0>>) <=> k.effective = options.expectedRole
  BY <1>1 DEF Met
<1>4. Met(k, <<"ROLE_OWNS_OBJECTS", 0>>) <=> ~k.owns
  BY <1>1 DEF Met
<1>5. Met(k, <<"ROLE_MEMBERSHIP", 0>>) <=>
        {r \in Roles : Reachable(k, r)} \subseteq options.allowedMemberships
  BY <1>1 DEF Met
<1>6. Met(k, <<"SESSION_ROLE_DIFFERS", 0>>) <=> k.login = k.effective
  BY <1>1 DEF Met
<1>7. ASSUME NEW i
      PROVE  Met(k, <<"GRANT_MISSING", i>>) <=> GrantHolds(k, options.expectedGrants[i])
  BY <1>1 DEF Met
<1>8. ASSUME NEW reason \in AttributeReasons
      PROVE  Met(k, <<reason, 0>>) <=> Attribute(reason) \cap k.flags = {}
  BY <1>1, <1>2 DEF Met
<1> QED
  BY <1>3, <1>4, <1>5, <1>6, <1>7, <1>8

\* What is expected does not change.
LEMMA ExpectationsStand ==
  ASSUME options' = options
  PROVE  /\ Expectations' = Expectations /\ RoleReasons' = RoleReasons
         /\ \A k : MetBy(k)' = MetBy(k)
         /\ MetBy(catalog)' = MetBy(catalog')
<1>1. Expectations' = Expectations
  BY DEF Expectations
<1>2. RoleReasons' = RoleReasons
  BY <1>1 DEF RoleReasons
<1>3. \A k : MetBy(k)' = MetBy(k)
  BY <1>1 DEF MetBy, Met
<1>4. MetBy(catalog)' = MetBy(catalog')
  BY <1>1 DEF MetBy, Met
<1> QED
  BY <1>1, <1>2, <1>3, <1>4

\* What databaseUrlReason answers, and createPool's own refusal never.
LEMMA UrlReasonsAre ==
  ASSUME NEW u, NEW asked
  PROVE  databaseUrlReason(u, asked) \in (UrlReasons \cup {"none"}) \ {"URL_INVALID"}
<1>1. syntaxReason(u) \in {"none", "url_syntax", "url_scheme"}
  BY Zenon DEF syntaxReason
<1>2. roleReason(u, asked.expectedRole) \in {"none", "url_user", "url_role"}
  BY DEF roleReason
<1>3. locationReason(u) \in {"none", "url_host", "url_port", "url_database"}
  BY Zenon DEF locationReason
<1>4. queryReason(u) \in {"none", "url_query"}
  BY Zenon DEF queryReason
<1>5. tlsReason(u, asked.allowPlainLoopback) \in {"none", "url_tls"}
  BY Zenon DEF tlsReason
<1> QED
  BY <1>1, <1>2, <1>3, <1>4, <1>5 DEF databaseUrlReason, OrElse, UrlReasons

\* The part of TypeOK that is about the boot.
BootTypeOK ==
  /\ options \in Options
  /\ changes \in 0..MaxChanges
  /\ given.plain \in {"allowed", "refused", "unchecked"}
  /\ given.url # NoUrl => step = "plan"
  /\ step \in {"wire", "plan", "connect", "identity", "owns", "memberships", "grants",
               "closing", "passed", "thrown"}
  /\ next \in 1..(Len(options.expectedGrants) + 1)
  /\ broken \in BOOLEAN
  /\ outcome \in {"none", "passed"} \cup RoleReasons \cup UrlReasons
  /\ met \subseteq Expectations /\ unmet \subseteq Expectations

\* The inductive invariant of the boot.
BootInv == BootTypeOK /\ ConnectsAsNamed /\ BootOk /\ CheckedSoFar /\ VerdictsAreGrounded

\* An outcome that is grounded in what the check has seen.
Grounded(reason) ==
  /\ reason = "passed" => Expectations \subseteq met
  /\ reason \in {e[1] : e \in Expectations} => \E e \in unmet : e[1] = reason

\* The names of the outcomes that are no expectation.
LEMMA OtherOutcomes ==
  ASSUME NEW reason \in {"none", "INVALID_EXPECTATION", "CHECK_FAILED"} \cup UrlReasons
  PROVE  Grounded(reason)
<1>1. reason \notin SingleReasons \cup {"GRANT_MISSING", "passed"}
  BY AttributeNames DEF UrlReasons, SingleReasons
<1> QED
  BY <1>1, ExpectationsAre DEF Grounded

\* Past the wiring no URL is kept.
LEMMA NothingIsNoUrl == NothingGiven.url = NoUrl /\ NothingGiven.plain = "unchecked"
BY DEF NothingGiven

\* Before it is wired, the boot has seen nothing and said nothing.
LEMMA InitBoot == Init => BootInv
<1> SUFFICES ASSUME Init PROVE BootInv
  OBVIOUS
<1>1. options.expectedGrants \in Seq(Grant)
  BY RoleCheckAssumption DEF Init
<1>2. BootTypeOK
  <2>1. changes \in 0..MaxChanges /\ next \in 1..(Len(options.expectedGrants) + 1)
    BY <1>1, RoleCheckAssumption DEF Init
  <2> QED
    BY <2>1, NothingIsNoUrl DEF Init, BootTypeOK
<1>3. ConnectsAsNamed
  BY NothingIsNoUrl DEF Init, ConnectsAsNamed
<1>4. BootOk /\ CheckedSoFar
  BY DEF Init, BootOk, CheckedSoFar, Checking
<1>5. VerdictsAreGrounded
  BY OtherOutcomes DEF Init, VerdictsAreGrounded, Grounded
<1> QED
  BY <1>2, <1>3, <1>4, <1>5 DEF BootInv

\* A step of the pool or of its users does not touch the boot.
LEMMA BootStands ==
  ASSUME BootInv, UNCHANGED <<roleVars, catalogVars>>, asks[Boot] = "holds" => asks'[Boot] = "holds"
  PROVE  BootInv'
<1>1. UNCHANGED <<given, options, step, identity, next, broken, outcome,
                  catalog, changes, met, unmet>>
  BY DEF roleVars, catalogVars
<1>2. Expectations' = Expectations /\ RoleReasons' = RoleReasons /\ MetBy(catalog)' = MetBy(catalog)
  BY <1>1, ExpectationsStand
<1>3. BootTypeOK'
  BY <1>1, <1>2 DEF BootInv, BootTypeOK
<1>4. ConnectsAsNamed'
  BY <1>1 DEF BootInv, ConnectsAsNamed, Asked
<1>5. BootOk'
  BY <1>1 DEF BootInv, BootOk
<1>6. CheckedSoFar'
  BY <1>1, <1>2 DEF BootInv, CheckedSoFar
<1>7. VerdictsAreGrounded'
  BY <1>1, <1>2 DEF BootInv, VerdictsAreGrounded
<1> QED
  BY <1>3, <1>4, <1>5, <1>6, <1>7 DEF BootInv

\* The boot comes to its end, or on the way to it, with an outcome that is grounded.
LEMMA BootEnds ==
  ASSUME BootInv, UNCHANGED <<catalogVars, options>>, given' = NothingGiven,
         step' \in {"closing", "passed", "thrown"},
         outcome' \in {"none", "passed"} \cup RoleReasons \cup UrlReasons,
         broken' \in BOOLEAN, next' \in 1..(Len(options.expectedGrants) + 1),
         Grounded(outcome')
  PROVE  BootInv'
<1>1. UNCHANGED <<options, catalog, changes, met, unmet>>
  BY DEF catalogVars
<1>2. Expectations' = Expectations /\ RoleReasons' = RoleReasons
  BY <1>1, ExpectationsStand
<1>3. BootTypeOK'
  BY <1>1, <1>2, NothingIsNoUrl DEF BootInv, BootTypeOK
<1>4. ConnectsAsNamed'
  BY NothingIsNoUrl DEF ConnectsAsNamed
<1>5. BootOk' /\ CheckedSoFar'
  BY DEF BootOk, CheckedSoFar, Checking
<1>6. VerdictsAreGrounded'
  BY <1>1, <1>2 DEF VerdictsAreGrounded, Grounded
<1> QED
  BY <1>3, <1>4, <1>5, <1>6 DEF BootInv

\* The check goes on: what it has made sure of is for each step to say.
LEMMA BootGoesOn ==
  ASSUME BootInv, UNCHANGED <<catalogVars, options, outcome, broken>>, given' = NothingGiven,
         step \in {"connect"} \cup Checking, step' \in Checking, asks'[Boot] = "holds",
         next' \in 1..(Len(options.expectedGrants) + 1),
         step' = "grants" => next' \in DOMAIN options.expectedGrants,
         step' # "grants" => next' = 1,
         step' \in {"owns", "memberships", "grants"} =>
           /\ identity' = [effective |-> catalog.effective, login |-> catalog.login]
           /\ About({"ROLE_MISMATCH"} \cup AttributeReasons) \subseteq met,
         step' \in {"memberships", "grants"} => About({"ROLE_OWNS_OBJECTS"}) \subseteq met,
         step' = "grants" =>
           /\ About({"ROLE_MEMBERSHIP", "SESSION_ROLE_DIFFERS"}) \subseteq met
           /\ \A i \in 1..(next' - 1) : <<"GRANT_MISSING", i>> \in met
  PROVE  BootInv'
<1>1. UNCHANGED <<options, catalog, changes, met, unmet, outcome, broken>>
  BY DEF catalogVars
<1>2. Expectations' = Expectations /\ RoleReasons' = RoleReasons /\ MetBy(catalog)' = MetBy(catalog)
  BY <1>1, ExpectationsStand
<1>3. BootTypeOK'
  BY <1>1, <1>2, NothingIsNoUrl DEF BootInv, BootTypeOK, Checking
<1>4. ConnectsAsNamed'
  BY NothingIsNoUrl, <1>1 DEF BootInv, ConnectsAsNamed, BootOk
<1>5. BootOk'
  BY <1>1 DEF BootInv, BootOk, Checking
<1>6. CheckedSoFar'
  <2>1. catalog \in Catalogs /\ MetBy(catalog) \subseteq met
        /\ Expectations \ MetBy(catalog) \subseteq unmet
    BY DEF BootInv, CheckedSoFar
  <2> QED
    BY <1>1, <1>2, <2>1 DEF CheckedSoFar, AttributeReasons
<1>7. VerdictsAreGrounded'
  BY <1>1, <1>2 DEF BootInv, VerdictsAreGrounded
<1> QED
  BY <1>3, <1>4, <1>5, <1>6, <1>7 DEF BootInv

\* The check is over: its client goes back, or is destroyed.
LEMMA LeaveOk ==
  ASSUME PoolOk, BootInv, step \in Checking, NEW reason \in {"passed"} \cup RoleReasons,
         NEW b \in BOOLEAN, Leave(reason, b), Stay,
         next' \in 1..(Len(options.expectedGrants) + 1), Grounded(reason)
  PROVE  PoolOk' /\ BootInv'
<1>1. PICK c \in Held(Boot) : ReleaseClient(Boot, c, b)
  BY DEF Leave
<1>2. c \in Clients
  BY DEF Held
<1>3. PoolOk'
  BY <1>1, <1>2, ReleasePool, RoleCheckAssumption
<1>4. step' \in {"closing", "passed", "thrown"} /\ outcome' = reason /\ broken' = b
  BY DEF Leave
<1>5. UNCHANGED <<catalogVars, options>> /\ given' = NothingGiven
  BY DEF Stay
<1>6. BootInv'
  BY <1>4, <1>5, BootEnds
<1> QED
  BY <1>3, <1>6

\* Nothing of the pool changes.
LEMMA PoolStands ==
  ASSUME PoolOk, UNCHANGED poolVars
  PROVE  PoolOk' /\ asks' = asks
<1>1. UNCHANGED <<work, race, open, ends, holder, asks, ending, failures>>
  BY DEF poolVars
<1>2. Known' = Known /\ Idle' = Idle /\ \A u : Held(u)' = Held(u)
  BY <1>1 DEF Known, Idle, Held
<1> QED
  BY <1>1, <1>2 DEF PoolOk, PoolTypeOK, HandedOutIsChecked, ClientsOk

\* What is known while the check runs.
LEMMA WhileChecking ==
  ASSUME BootInv, step \in {"connect"} \cup Checking
  PROVE  /\ options \in Options /\ options.expectedGrants \in Seq(Grant)
         /\ next \in 1..(Len(options.expectedGrants) + 1)
         /\ broken \in BOOLEAN /\ outcome = "none" /\ Plannable(options)
         /\ catalog \in Catalogs /\ met \subseteq Expectations
         /\ \A e \in Expectations : IF Met(catalog, e) THEN e \in met ELSE e \in unmet
<1>1. options \in Options /\ options.expectedGrants \in Seq(Grant)
  BY RoleCheckAssumption DEF BootInv, BootTypeOK
<1>2. /\ next \in 1..(Len(options.expectedGrants) + 1)
      /\ broken \in BOOLEAN /\ outcome = "none" /\ Plannable(options) /\ met \subseteq Expectations
  BY DEF BootInv, BootTypeOK, BootOk
<1>3. catalog \in Catalogs /\ MetBy(catalog) \subseteq met
      /\ Expectations \ MetBy(catalog) \subseteq unmet
  BY DEF BootInv, CheckedSoFar
<1> QED
  BY <1>1, <1>2, <1>3 DEF MetBy

\* An expectation the catalog does not meet is a ground to fail.
LEMMA UnmetIsGround ==
  ASSUME BootInv, step \in Checking, NEW reason, NEW i, <<reason, i>> \in Expectations,
         ~Met(catalog, <<reason, i>>)
  PROVE  Grounded(reason) /\ reason \in RoleReasons
<1>1. <<reason, i>> \in unmet /\ <<reason, i>>[1] = reason
  BY WhileChecking
<1>2. reason # "passed"
  <2>1. reason \in SingleReasons \cup {"GRANT_MISSING"}
    BY <1>1, ExpectationsAre
  <2> QED
    BY <2>1, AttributeNames DEF SingleReasons
<1>3. reason \in RoleReasons
  BY <1>1 DEF RoleReasons
<1> QED
  BY <1>1, <1>2, <1>3 DEF Grounded

\* Each of them is expected.
LEMMA SingleExpected ==
  ASSUME NEW reason \in SingleReasons
  PROVE  <<reason, 0>> \in Expectations
BY ExpectationsAre DEF About

\* A query that fails destroys the client; no expectation is blamed.
LEMMA QueryFailsOk ==
  ASSUME PoolOk, BootInv, QueryFails
  PROVE  PoolOk' /\ BootInv'
<1>1. /\ step \in Checking /\ Leave("CHECK_FAILED", TRUE) /\ Stay
      /\ next' \in 1..(Len(options.expectedGrants) + 1)
  BY DEF QueryFails, Checking, BootInv, BootTypeOK
<1>2. "CHECK_FAILED" \in RoleReasons /\ Grounded("CHECK_FAILED")
  BY OtherOutcomes DEF RoleReasons
<1> QED
  BY <1>1, <1>2, LeaveOk

\* The identity row: the role is the expected one, and has none of the attributes.
LEMMA ReadIdentityOk ==
  ASSUME PoolOk, BootInv, ReadIdentity
  PROVE  PoolOk' /\ BootInv'
<1> DEFINE reason == IdentityReason(catalog)
<1>1. /\ step = "identity" /\ step \in Checking /\ Judge(reason, "owns") /\ Stay
      /\ identity' = [effective |-> catalog.effective, login |-> catalog.login] /\ next' = next
  BY DEF ReadIdentity, Checking
<1>2. next = 1 /\ next \in 1..(Len(options.expectedGrants) + 1) /\ broken \in BOOLEAN
      /\ asks[Boot] = "holds"
  BY <1>1, WhileChecking DEF BootInv, BootOk
<1>3. CASE reason = "none"
  <2>1. step' = "owns" /\ UNCHANGED <<poolVars, outcome, broken>>
    BY <1>1, <1>3 DEF Judge
  <2>2. /\ Met(catalog, <<"ROLE_MISMATCH", 0>>)
        /\ \A a \in AttributeReasons : Met(catalog, <<a, 0>>)
    <3>1. catalog.effective = options.expectedRole /\ AttributeReason(catalog) = "none"
      BY <1>3 DEF IdentityReason
    <3> QED
      BY <3>1, MetIs, AttributeIsAsked
  <2>3. About({"ROLE_MISMATCH"} \cup AttributeReasons) \subseteq met
    <3>1. \A a \in {"ROLE_MISMATCH"} \cup AttributeReasons : a \in SingleReasons
      BY DEF SingleReasons
    <3>2. \A a \in {"ROLE_MISMATCH"} \cup AttributeReasons : <<a, 0>> \in met
      BY <1>1, <2>2, <3>1, SingleExpected, WhileChecking
    <3> QED
      BY <3>2 DEF About
  <2>4. PoolOk' /\ asks' = asks
    BY <2>1, PoolStands
  <2> HIDE DEF reason
  <2>5. BootInv'
    BY <1>1, <1>2, <2>1, <2>3, <2>4, BootGoesOn DEF Stay, Checking
  <2> QED
    BY <2>4, <2>5
<1>4. CASE reason # "none"
  <2>1. Leave(reason, broken)
    BY <1>1, <1>4 DEF Judge
  <2>2. Grounded(reason) /\ reason \in RoleReasons
    <3>1. CASE catalog.effective # options.expectedRole
      <4>1. reason = "ROLE_MISMATCH" /\ "ROLE_MISMATCH" \in SingleReasons
        BY <3>1 DEF IdentityReason, SingleReasons
      <4>2. ~Met(catalog, <<"ROLE_MISMATCH", 0>>)
        BY <3>1, MetIs
      <4> QED
        BY <1>1, <4>1, <4>2, SingleExpected, UnmetIsGround
    <3>2. CASE catalog.effective = options.expectedRole
      <4>1. reason = AttributeReason(catalog)
        BY <3>2 DEF IdentityReason
      <4>2. reason \in AttributeReasons /\ Attribute(reason) \cap catalog.flags # {}
        BY <1>4, <4>1, AttributeIsAsked
      <4>3. reason \in SingleReasons /\ ~Met(catalog, <<reason, 0>>)
        BY <4>2, MetIs DEF SingleReasons
      <4> HIDE DEF reason
      <4> QED
        BY <1>1, <4>3, SingleExpected, UnmetIsGround
    <3> QED
      BY <3>1, <3>2
  <2> HIDE DEF reason
  <2> QED
    BY <1>1, <1>2, <2>1, <2>2, LeaveOk
<1> QED
  BY <1>3, <1>4

\* The effective role owns nothing.
LEMMA OwnsObjectsOk ==
  ASSUME PoolOk, BootInv, OwnsObjects
  PROVE  PoolOk' /\ BootInv'
<1>1. /\ step = "owns" /\ step \in Checking /\ Stay /\ identity' = identity /\ next' = next
      /\ Judge(IF catalog.owns THEN "ROLE_OWNS_OBJECTS" ELSE "none", "memberships")
  BY DEF OwnsObjects, Checking
<1>2. /\ next = 1 /\ next \in 1..(Len(options.expectedGrants) + 1) /\ broken \in BOOLEAN
      /\ asks[Boot] = "holds"
      /\ identity = [effective |-> catalog.effective, login |-> catalog.login]
      /\ About({"ROLE_MISMATCH"} \cup AttributeReasons) \subseteq met
  BY <1>1, WhileChecking DEF BootInv, BootOk, CheckedSoFar, AttributeReasons
<1>3. "ROLE_OWNS_OBJECTS" \in SingleReasons
  BY DEF SingleReasons
<1>4. CASE ~catalog.owns
  <2>1. step' = "memberships" /\ UNCHANGED <<poolVars, outcome, broken>>
    BY <1>1, <1>4 DEF Judge
  <2>2. About({"ROLE_OWNS_OBJECTS"}) \subseteq met
    <3>1. Met(catalog, <<"ROLE_OWNS_OBJECTS", 0>>)
      BY <1>4, MetIs
    <3>2. <<"ROLE_OWNS_OBJECTS", 0>> \in met
      BY <1>1, <1>3, <3>1, SingleExpected, WhileChecking
    <3> QED
      BY <3>2 DEF About
  <2>3. PoolOk' /\ asks' = asks
    BY <2>1, PoolStands
  <2>4. BootInv'
    BY <1>1, <1>2, <2>1, <2>2, <2>3, BootGoesOn DEF Stay, Checking
  <2> QED
    BY <2>3, <2>4
<1>5. CASE catalog.owns
  <2>1. Leave("ROLE_OWNS_OBJECTS", broken)
    BY <1>1, <1>5 DEF Judge
  <2>2. ~Met(catalog, <<"ROLE_OWNS_OBJECTS", 0>>)
    BY <1>5, MetIs
  <2>3. Grounded("ROLE_OWNS_OBJECTS") /\ "ROLE_OWNS_OBJECTS" \in RoleReasons
    BY <1>1, <1>3, <2>2, SingleExpected, UnmetIsGround
  <2> QED
    BY <1>1, <1>2, <2>1, <2>3, LeaveOk
<1> QED
  BY <1>4, <1>5

\* The outcome passed: every expectation was met at some moment.
LEMMA AllMet ==
  ASSUME About(SingleReasons) \subseteq met,
         \A i \in DOMAIN options.expectedGrants : <<"GRANT_MISSING", i>> \in met
  PROVE  Grounded("passed")
<1>1. Expectations \subseteq met
  BY ExpectationsAre
<1>2. "passed" \notin SingleReasons \cup {"GRANT_MISSING"}
  BY AttributeNames DEF SingleReasons
<1> QED
  BY <1>1, <1>2, ExpectationsAre DEF Grounded

\* Every chain of memberships ends at a role that is allowed.
LEMMA MembershipsOk ==
  ASSUME PoolOk, BootInv, Memberships
  PROVE  PoolOk' /\ BootInv'
<1> DEFINE outside == MemberOf(catalog) \ options.allowedMemberships # {}
           reason == IF outside THEN "ROLE_MEMBERSHIP"
                     ELSE IF identity.login # identity.effective THEN "SESSION_ROLE_DIFFERS"
                     ELSE IF options.expectedGrants = <<>> THEN "passed" ELSE "none"
<1>1. /\ step = "memberships" /\ step \in Checking /\ Stay /\ identity' = identity /\ next' = next
      /\ Judge(reason, "grants")
  BY DEF Memberships, Checking
<1>2. /\ next = 1 /\ next \in 1..(Len(options.expectedGrants) + 1) /\ broken \in BOOLEAN
      /\ asks[Boot] = "holds"
      /\ identity = [effective |-> catalog.effective, login |-> catalog.login]
      /\ About({"ROLE_MISMATCH"} \cup AttributeReasons) \subseteq met
      /\ About({"ROLE_OWNS_OBJECTS"}) \subseteq met
      /\ options.expectedGrants \in Seq(Grant) /\ catalog \in Catalogs
  BY <1>1, WhileChecking DEF BootInv, BootOk, CheckedSoFar, AttributeReasons
<1>3. "ROLE_MEMBERSHIP" \in SingleReasons /\ "SESSION_ROLE_DIFFERS" \in SingleReasons
  BY DEF SingleReasons
<1>4. /\ Met(catalog, <<"ROLE_MEMBERSHIP", 0>>) <=> ~outside
      /\ Met(catalog, <<"SESSION_ROLE_DIFFERS", 0>>) <=> identity.login = identity.effective
  <2>1. MemberOf(catalog) = {r \in Roles : Reachable(catalog, r)}
    BY <1>2, MemberIsReachable
  <2> QED
    BY <1>2, <2>1, MetIs
<1>5. ASSUME reason \notin {"ROLE_MEMBERSHIP", "SESSION_ROLE_DIFFERS"}
      PROVE  About({"ROLE_MEMBERSHIP", "SESSION_ROLE_DIFFERS"}) \subseteq met
  <2>1. Met(catalog, <<"ROLE_MEMBERSHIP", 0>>) /\ Met(catalog, <<"SESSION_ROLE_DIFFERS", 0>>)
    BY <1>4, <1>5
  <2>2. <<"ROLE_MEMBERSHIP", 0>> \in met /\ <<"SESSION_ROLE_DIFFERS", 0>> \in met
    BY <1>1, <1>3, <2>1, SingleExpected, WhileChecking
  <2> QED
    BY <2>2 DEF About
<1>6. CASE reason = "none"
  <2>1. step' = "grants" /\ UNCHANGED <<poolVars, outcome, broken>>
    BY <1>1, <1>6 DEF Judge
  <2>2. options.expectedGrants # <<>>
    BY <1>6
  <2>3. 1 \in DOMAIN options.expectedGrants
    BY <1>2, <2>2
  <2>4. PoolOk' /\ asks' = asks
    BY <2>1, PoolStands
  <2>5. \A i \in 1..(next' - 1) : <<"GRANT_MISSING", i>> \in met
    BY <1>1, <1>2
  <2>6. BootInv'
    <3>1. About({"ROLE_MEMBERSHIP", "SESSION_ROLE_DIFFERS"}) \subseteq met
      BY <1>5, <1>6
    <3> HIDE DEF reason, outside
    <3> QED
      BY <1>1, <1>2, <2>1, <2>3, <2>4, <2>5, <3>1, BootGoesOn DEF Stay, Checking
  <2> QED
    BY <2>4, <2>6
<1>7. CASE reason # "none"
  <2>1. Leave(reason, broken)
    BY <1>1, <1>7 DEF Judge
  <2>2. Grounded(reason) /\ reason \in {"passed"} \cup RoleReasons
    <3>1. CASE reason = "ROLE_MEMBERSHIP"
      <4>1. ~Met(catalog, <<"ROLE_MEMBERSHIP", 0>>)
        BY <1>4, <3>1
      <4> HIDE DEF reason
      <4> QED
        BY <1>1, <1>3, <3>1, <4>1, SingleExpected, UnmetIsGround
    <3>2. CASE reason = "SESSION_ROLE_DIFFERS"
      <4>1. ~Met(catalog, <<"SESSION_ROLE_DIFFERS", 0>>)
        BY <1>4, <3>2
      <4> HIDE DEF reason
      <4> QED
        BY <1>1, <1>3, <3>2, <4>1, SingleExpected, UnmetIsGround
    <3>3. CASE reason = "passed"
      <4>1. options.expectedGrants = <<>>
        BY <3>3
      <4>2. DOMAIN options.expectedGrants = {}
        BY <4>1
      <4>3. About({"ROLE_MEMBERSHIP", "SESSION_ROLE_DIFFERS"}) \subseteq met
        BY <1>5, <3>3
      <4>4. About(SingleReasons) \subseteq met
        BY <1>2, <4>3 DEF About, SingleReasons
      <4> HIDE DEF reason
      <4> QED
        BY <3>3, <4>2, <4>4, AllMet
    <3> QED
      BY <1>7, <3>1, <3>2, <3>3
  <2> HIDE DEF reason
  <2> QED
    BY <1>1, <1>2, <2>1, <2>2, LeaveOk
<1> QED
  BY <1>6, <1>7

\* One grant after the other.
LEMMA GrantsOk ==
  ASSUME PoolOk, BootInv, Grants
  PROVE  PoolOk' /\ BootInv'
<1> DEFINE grants == options.expectedGrants
           reason == IF MissingGrant(catalog, grants[next]) THEN "GRANT_MISSING"
                     ELSE IF next = Len(grants) THEN "passed" ELSE "none"
<1>1. /\ step = "grants" /\ step \in Checking /\ Stay /\ identity' = identity /\ next' = next + 1
      /\ Judge(reason, "grants")
  BY DEF Grants, Checking
<1>2. /\ next \in DOMAIN grants /\ broken \in BOOLEAN /\ asks[Boot] = "holds"
      /\ identity = [effective |-> catalog.effective, login |-> catalog.login]
      /\ About({"ROLE_MISMATCH"} \cup AttributeReasons) \subseteq met
      /\ About({"ROLE_OWNS_OBJECTS"}) \subseteq met
      /\ About({"ROLE_MEMBERSHIP", "SESSION_ROLE_DIFFERS"}) \subseteq met
      /\ \A i \in 1..(next - 1) : <<"GRANT_MISSING", i>> \in met
      /\ grants \in Seq(Grant) /\ Plannable(options)
  BY <1>1, WhileChecking DEF BootInv, BootOk, CheckedSoFar, AttributeReasons
<1>3. next \in 1..Len(grants) /\ Len(grants) \in Nat /\ DOMAIN grants = 1..Len(grants)
      /\ grants[next] \in Grant
  BY <1>2
<1>4. next' \in 1..(Len(grants) + 1) /\ <<"GRANT_MISSING", next>> \in Expectations
  BY <1>1, <1>2, <1>3, ExpectationsAre
<1>5. Met(catalog, <<"GRANT_MISSING", next>>) <=> ~MissingGrant(catalog, grants[next])
  <2>1. RoleCheckOf(grants[next]) # "none"
    BY <1>2 DEF Plannable
  <2>2. MissingGrant(catalog, grants[next]) <=> ~GrantHolds(catalog, grants[next])
    BY <1>3, <2>1, GrantIsAsked
  <2> QED
    BY <2>2, MetIs
<1>6. CASE MissingGrant(catalog, grants[next])
  <2>1. Leave("GRANT_MISSING", broken)
    BY <1>1, <1>6 DEF Judge
  <2>2. Grounded("GRANT_MISSING") /\ "GRANT_MISSING" \in RoleReasons
    BY <1>1, <1>4, <1>5, <1>6, UnmetIsGround
  <2> QED
    BY <1>1, <1>2, <1>4, <2>1, <2>2, LeaveOk
<1>7. CASE ~MissingGrant(catalog, grants[next])
  <2>1. <<"GRANT_MISSING", next>> \in met
    BY <1>1, <1>4, <1>5, <1>7, WhileChecking
  <2>2. \A i \in 1..next : <<"GRANT_MISSING", i>> \in met
    <3> TAKE i \in 1..next
    <3>1. i = next \/ i \in 1..(next - 1)
      BY <1>3
    <3> QED
      BY <1>2, <2>1, <3>1
  <2>3. CASE next = Len(grants)
    <3>1. Leave("passed", broken)
      BY <1>1, <1>7, <2>3 DEF Judge
    <3>2. About(SingleReasons) \subseteq met
      BY <1>2 DEF About, SingleReasons
    <3>3. Grounded("passed")
      BY <1>3, <2>2, <2>3, <3>2, AllMet
    <3> QED
      BY <1>1, <1>2, <1>4, <3>1, <3>3, LeaveOk
  <2>4. CASE next # Len(grants)
    <3>1. reason = "none"
      BY <1>7, <2>4
    <3>2. step' = "grants" /\ UNCHANGED <<poolVars, outcome, broken>>
      BY <1>1, <3>1 DEF Judge
    <3>3. next' \in DOMAIN grants /\ next' - 1 = next
      BY <1>1, <1>3, <2>4
    <3>4. PoolOk' /\ asks' = asks
      BY <3>2, PoolStands
    <3>5. \A i \in 1..(next' - 1) : <<"GRANT_MISSING", i>> \in met
      BY <2>2, <3>3
    <3> HIDE DEF reason
    <3>6. BootInv'
      BY <1>1, <1>2, <1>4, <3>2, <3>3, <3>4, <3>5, BootGoesOn DEF Stay, Checking
    <3> QED
      BY <3>4, <3>6
  <2> QED
    BY <2>3, <2>4
<1> QED
  BY <1>6, <1>7

\* The URL and the options of the pool.
LEMMA WireOk ==
  ASSUME PoolOk, BootInv, Wire
  PROVE  PoolOk' /\ BootInv'
<1>1. PoolOk' /\ UNCHANGED <<options, catalog, changes, met, unmet, identity, next, broken>>
  BY PoolStands DEF Wire, catalogVars
<1>2. step = "wire" /\ next = 1 /\ outcome = "none"
  BY DEF Wire, BootInv, BootOk
<1>3. PICK u \in Urls, plain \in {"allowed", "refused", "unchecked"}, o \in PoolOptions :
        LET asked == Asked(plain)
            reason == IF plain # "unchecked" /\ databaseUrlReason(u, asked) # "none"
                        THEN databaseUrlReason(u, asked)
                      ELSE IF ~assertPoolOptions(o) THEN "TypeError"
                      ELSE IF ~poolUrlValid(u) THEN "URL_INVALID" ELSE "none"
        IN /\ outcome' = reason
           /\ step' = IF reason = "none" THEN "plan" ELSE "thrown"
           /\ given' = [url |-> IF reason = "none" THEN u ELSE NoUrl, plain |-> plain]
  BY DEF Wire
<1> DEFINE asked == Asked(plain)
           textReason == databaseUrlReason(u, asked)
           reason == IF plain # "unchecked" /\ textReason # "none" THEN textReason
                     ELSE IF ~assertPoolOptions(o) THEN "TypeError"
                     ELSE IF ~poolUrlValid(u) THEN "URL_INVALID" ELSE "none"
<1>4. /\ outcome' = reason
      /\ step' = IF reason = "none" THEN "plan" ELSE "thrown"
      /\ given' = [url |-> IF reason = "none" THEN u ELSE NoUrl, plain |-> plain]
  BY <1>3
<1>5. textReason \in (UrlReasons \cup {"none"}) \ {"URL_INVALID"}
  BY UrlReasonsAre
<1>6. reason \in UrlReasons \cup {"none"}
  <2> HIDE DEF textReason
  <2> QED
    BY <1>5 DEF UrlReasons
<1>7. Asked(plain)' = Asked(plain) /\ Expectations' = Expectations /\ RoleReasons' = RoleReasons
  BY <1>1, ExpectationsStand DEF Asked
<1>8. u.port \in Nat /\ IsQuery(u.query)
  <2>1. u.port \in Nat /\ u.query \in Seq(STRING \X STRING)
    BY RoleCheckAssumption
  <2>2. u.query \in [1..Len(u.query) -> STRING \X STRING] /\ Len(u.query) \in Nat
    BY <2>1
  <2> QED
    BY <2>1, <2>2 DEF IsQuery
<1>9. textReason = "none" => poolUrlValid(u) /\ SettingsAsExpected(u, asked)
  BY <1>8, AcceptedUrlIsSound
<1>10. ConnectsAsNamed'
  <2>1. CASE reason = "none"
    <3>1. given'.url = u /\ given'.plain = plain /\ outcome' = "none"
      BY <1>4, <2>1
    <3>2. poolUrlValid(u) /\ (plain # "unchecked" => textReason = "none")
      <4> HIDE DEF textReason
      <4> QED
        BY <2>1
    <3>3. SettingsOfPool(u)
      BY <3>2, PoolSettingsStand
    <3> HIDE DEF textReason, reason
    <3> QED
      BY <1>7, <1>9, <3>1, <3>2, <3>3 DEF ConnectsAsNamed
  <2>2. CASE reason # "none"
    <3>1. given'.url = NoUrl /\ given'.plain = plain /\ outcome' = reason
      BY <1>4, <2>2
    <3>2. reason = "URL_INVALID" => plain = "unchecked"
      <4> HIDE DEF textReason
      <4> QED
        BY <1>5, <1>9
    <3> HIDE DEF textReason, reason
    <3> QED
      BY <3>1, <3>2 DEF ConnectsAsNamed
  <2> QED
    BY <2>1, <2>2
<1> HIDE DEF reason, textReason, asked
<1>11. /\ given'.plain \in {"allowed", "refused", "unchecked"}
       /\ given'.url # NoUrl => step' = "plan"
       /\ step' \in {"plan", "thrown"} /\ (step' = "plan" => outcome' = "none")
  BY <1>4
<1>12. BootTypeOK'
  BY <1>1, <1>4, <1>6, <1>7, <1>11 DEF BootInv, BootTypeOK
<1>13. BootOk' /\ CheckedSoFar'
  BY <1>1, <1>2, <1>11 DEF BootOk, CheckedSoFar, Checking
<1>14. VerdictsAreGrounded'
  <2>1. Grounded(reason)
    BY <1>6, OtherOutcomes
  <2> QED
    BY <1>1, <1>4, <1>7, <2>1 DEF VerdictsAreGrounded, Grounded
<1> QED
  BY <1>1, <1>10, <1>12, <1>13, <1>14 DEF BootInv

\* rolePlan, and the caller that asks for a client.
LEMMA PlanOk ==
  ASSUME PoolOk, BootInv, Plan
  PROVE  PoolOk' /\ BootInv'
<1>1. /\ step = "plan" /\ given' = NothingGiven /\ UNCHANGED <<options, changes>>
      /\ next = 1 /\ outcome = "none" /\ next \in 1..(Len(options.expectedGrants) + 1)
      /\ broken \in BOOLEAN
  BY DEF Plan, BootInv, BootOk, BootTypeOK
<1>2. CASE Plannable(options)
  <2>1. /\ Ask(Boot) /\ step' = "connect" /\ catalog' \in Catalogs
        /\ met' = MetBy(catalog') /\ unmet' = Expectations \ met'
        /\ UNCHANGED <<identity, next, broken, outcome>>
    BY <1>2 DEF Plan
  <2>2. PoolOk'
    BY <2>1, AskPool, RoleCheckAssumption
  <2>3. /\ Expectations' = Expectations /\ RoleReasons' = RoleReasons
        /\ MetBy(catalog)' = MetBy(catalog')
    BY <1>1, ExpectationsStand
  <2>4. met' \subseteq Expectations
    BY <2>1 DEF MetBy
  <2>5. BootTypeOK'
    BY <1>1, <2>1, <2>3, <2>4, NothingIsNoUrl DEF BootInv, BootTypeOK
  <2>6. ConnectsAsNamed'
    BY <1>1, NothingIsNoUrl DEF ConnectsAsNamed
  <2>7. BootOk'
    BY <1>1, <1>2, <2>1 DEF BootOk, Checking, Plannable
  <2>8. CheckedSoFar'
    BY <2>1, <2>3 DEF CheckedSoFar
  <2>9. VerdictsAreGrounded'
    <3>1. "none" \notin SingleReasons \cup {"GRANT_MISSING"}
      BY AttributeNames DEF SingleReasons
    <3>2. "none" \notin {e[1] : e \in Expectations}
      BY <3>1, ExpectationsAre
    <3> QED
      BY <1>1, <2>1, <2>3, <3>2 DEF VerdictsAreGrounded
  <2> QED
    BY <2>2, <2>5, <2>6, <2>7, <2>8, <2>9 DEF BootInv
<1>3. CASE ~Plannable(options)
  <2>1. FailEarly("INVALID_EXPECTATION") /\ UNCHANGED <<poolVars, catalog, met, unmet>>
    BY <1>3 DEF Plan
  <2>2. PoolOk' /\ UNCHANGED <<catalogVars, options>>
    BY <1>1, <2>1, PoolStands DEF catalogVars
  <2>3. Grounded("INVALID_EXPECTATION") /\ "INVALID_EXPECTATION" \in RoleReasons
    BY OtherOutcomes DEF RoleReasons
  <2> QED
    BY <1>1, <2>1, <2>2, <2>3, BootEnds DEF FailEarly
<1> QED
  BY <1>2, <1>3

\* The client arrives.
LEMMA CheckoutOk ==
  ASSUME PoolOk, BootInv, Checkout
  PROVE  PoolOk' /\ BootInv'
<1>1. /\ step = "connect" /\ asks[Boot] = "holds" /\ step' = "identity" /\ next = 1
      /\ UNCHANGED <<poolVars, identity, next, broken, outcome>> /\ Stay
      /\ next \in 1..(Len(options.expectedGrants) + 1)
  BY DEF Checkout, BootInv, BootOk, BootTypeOK
<1>2. PoolOk' /\ asks' = asks
  BY <1>1, PoolStands
<1>3. BootInv'
  BY <1>1, <1>2, BootGoesOn DEF Stay, Checking
<1> QED
  BY <1>2, <1>3

\* Or it does not.
LEMMA CheckoutFailsOk ==
  ASSUME PoolOk, BootInv, CheckoutFails
  PROVE  PoolOk' /\ BootInv'
<1>1. /\ FailEarly("CHECK_FAILED") /\ UNCHANGED poolVars /\ Stay
      /\ broken \in BOOLEAN /\ next \in 1..(Len(options.expectedGrants) + 1)
  BY DEF CheckoutFails, BootInv, BootTypeOK
<1>2. PoolOk'
  BY <1>1, PoolStands
<1>3. Grounded("CHECK_FAILED") /\ "CHECK_FAILED" \in RoleReasons
  BY OtherOutcomes DEF RoleReasons
<1>4. BootInv'
  BY <1>1, <1>3, BootEnds DEF FailEarly, Stay
<1> QED
  BY <1>2, <1>4

\* The connection of the check is lost.
LEMMA ClientErrorOk ==
  ASSUME PoolOk, BootInv, ClientError
  PROVE  PoolOk' /\ BootInv'
<1>1. /\ step \in Checking /\ broken' = TRUE /\ open' = open \ Held(Boot)
      /\ UNCHANGED <<work, race, ends, holder, asks, ending, failures>>
      /\ UNCHANGED <<step, identity, next, outcome>> /\ Stay
  BY DEF ClientError, Checking
<1>2. PoolOk'
  <2>1. open' \subseteq Clients /\ ending' \in BOOLEAN
        /\ work' \in [Clients -> {"none", "connect", "zone", "done", "failed"}]
    BY <1>1 DEF PoolOk, PoolTypeOK
  <2> QED
    BY <1>1, <2>1, WorkGoesOn
<1>3. UNCHANGED <<options, catalog, changes, met, unmet>> /\ given' = NothingGiven
  BY <1>1 DEF Stay, catalogVars
<1>4. Expectations' = Expectations /\ RoleReasons' = RoleReasons /\ MetBy(catalog)' = MetBy(catalog)
  BY <1>3, ExpectationsStand
<1>5. BootTypeOK'
  BY <1>1, <1>3, <1>4, NothingIsNoUrl DEF BootInv, BootTypeOK
<1>6. ConnectsAsNamed'
  BY <1>3, NothingIsNoUrl DEF ConnectsAsNamed
<1>7. BootOk'
  BY <1>1, <1>3 DEF BootInv, BootOk
<1>8. CheckedSoFar'
  BY <1>1, <1>3, <1>4 DEF BootInv, CheckedSoFar
<1>9. VerdictsAreGrounded'
  BY <1>1, <1>3, <1>4 DEF BootInv, VerdictsAreGrounded
<1> QED
  BY <1>2, <1>5, <1>6, <1>7, <1>8, <1>9 DEF BootInv

\* The catch of assertRole: the outcome it throws is the one it was called with.
LEMMA ClosingOk ==
  ASSUME PoolOk, BootInv, ClosePool \/ Throw
  PROVE  PoolOk' /\ BootInv'
<1>1. /\ step' \in {"closing", "passed", "thrown"} /\ UNCHANGED <<identity, next, broken, outcome>>
      /\ UNCHANGED <<catalogVars, options>> /\ given' = NothingGiven
  BY DEF ClosePool, Throw, Stay
<1>2. PoolOk'
  BY EndingPool, PoolStands DEF ClosePool, Throw
<1>3. /\ outcome \in {"none", "passed"} \cup RoleReasons \cup UrlReasons /\ broken \in BOOLEAN
      /\ next \in 1..(Len(options.expectedGrants) + 1) /\ Grounded(outcome)
  BY DEF BootInv, BootTypeOK, VerdictsAreGrounded, Grounded
<1>4. BootInv'
  BY <1>1, <1>3, BootEnds
<1> QED
  BY <1>2, <1>4

\* A user of the pool touches no client but its own.
LEMMA UseOk ==
  ASSUME PoolOk, BootInv, NEW u \in users, Use(u)
  PROVE  PoolOk' /\ BootInv'
<1>1. u \in Callers /\ u # Boot /\ UNCHANGED <<roleVars, catalogVars>> /\ Boot \in Callers
  BY RoleCheckAssumption DEF users, Use
<1>2. PoolOk' /\ (asks[Boot] = "holds" => asks'[Boot] = "holds")
  <2>1. CASE Ask(u)
    BY <1>1, <2>1, AskPool DEF OthersStand
  <2>2. ASSUME NEW c \in Clients, NEW destroy \in BOOLEAN, ReleaseClient(u, c, destroy)
        PROVE  PoolOk' /\ (asks[Boot] = "holds" => asks'[Boot] = "holds")
    <3>1. PoolOk' /\ \A v \in Callers \ {u} : asks'[v] = asks[v]
      BY <1>1, <2>2, ReleasePool
    <3> QED
      BY <1>1, <3>1
  <2> QED
    BY <2>1, <2>2 DEF Use
<1> QED
  BY <1>1, <1>2, BootStands

\* The pool goes its way, and the boot keeps the client it holds.
LEMMA PoolingOk ==
  ASSUME PoolOk, BootInv, Pooling
  PROVE  PoolOk' /\ BootInv'
<1>1. UNCHANGED <<roleVars, catalogVars>> /\ Boot \in Callers
  BY RoleCheckAssumption DEF Pooling
<1>2. PoolOk' /\ OthersStand
  BY StepPool, TakeIdlePool, CreatePool DEF Pooling, Take
<1> QED
  BY <1>1, <1>2, BootStands DEF OthersStand

\* The catalog changes under the check: what it has seen met stays seen.
LEMMA AlterOk ==
  ASSUME PoolOk, BootInv, Alter
  PROVE  PoolOk' /\ BootInv'
<1>1. /\ step \in Checking /\ UNCHANGED <<poolVars, roleVars>>
      /\ changes' = changes + 1 /\ changes < MaxChanges
  BY DEF Alter, Checking
<1>2. PICK k \in Catalogs :
        /\ k.effective = catalog.effective /\ k.login = catalog.login
        /\ catalog' = k /\ met' = met \cup MetBy(k)
        /\ unmet' = unmet \cup (Expectations \ MetBy(k))
  BY DEF Alter
<1>3. UNCHANGED <<given, options, step, identity, next, broken, outcome>>
  BY <1>1 DEF roleVars
<1>4. /\ Expectations' = Expectations /\ RoleReasons' = RoleReasons
      /\ MetBy(catalog)' = MetBy(k)
  BY <1>2, <1>3, ExpectationsStand
<1>5. PoolOk' /\ asks' = asks
  BY <1>1, PoolStands
<1>6. BootTypeOK'
  <2>1. changes' \in 0..MaxChanges
    BY <1>1, RoleCheckAssumption DEF BootInv, BootTypeOK
  <2>2. met' \subseteq Expectations /\ unmet' \subseteq Expectations
    BY <1>2 DEF BootInv, BootTypeOK, MetBy
  <2> QED
    BY <1>3, <1>4, <2>1, <2>2 DEF BootInv, BootTypeOK
<1>7. ConnectsAsNamed'
  BY <1>3 DEF BootInv, ConnectsAsNamed, Asked
<1>8. BootOk'
  BY <1>3, <1>5 DEF BootInv, BootOk
<1>9. CheckedSoFar'
  BY <1>2, <1>3, <1>4 DEF BootInv, CheckedSoFar
<1>10. VerdictsAreGrounded'
  BY <1>2, <1>3, <1>4 DEF BootInv, VerdictsAreGrounded
<1> QED
  BY <1>5, <1>6, <1>7, <1>8, <1>9, <1>10 DEF BootInv

\* Every step keeps both invariants.
LEMMA StepOk ==
  ASSUME PoolOk, BootInv, [Next]_vars
  PROVE  PoolOk' /\ BootInv'
<1>1. CASE Wire
  BY <1>1, WireOk
<1>2. CASE Plan \/ Checkout \/ CheckoutFails
  BY <1>2, PlanOk, CheckoutOk, CheckoutFailsOk
<1>3. CASE ReadIdentity \/ OwnsObjects \/ Memberships \/ Grants \/ QueryFails \/ ClientError
  BY <1>3, ReadIdentityOk, OwnsObjectsOk, MembershipsOk, GrantsOk, QueryFailsOk, ClientErrorOk
<1>4. CASE ClosePool \/ Throw
  BY <1>4, ClosingOk
<1>5. CASE \E u \in users : Use(u)
  BY <1>5, UseOk
<1>6. CASE Pooling
  BY <1>6, PoolingOk
<1>7. CASE Alter
  BY <1>7, AlterOk
<1>8. CASE UNCHANGED vars
  <2>1. UNCHANGED <<poolVars, roleVars, catalogVars>>
    BY <1>8 DEF vars
  <2>2. PoolOk' /\ asks' = asks
    BY <2>1, PoolStands
  <2> QED
    BY <2>1, <2>2, BootStands
<1> QED
  BY <1>1, <1>2, <1>3, <1>4, <1>5, <1>6, <1>7, <1>8 DEF Next

\* They hold in every state.
LEMMA SpecOk == Spec => [](PoolOk /\ BootInv)
<1>1. Init => PoolOk /\ BootInv
  BY InitPool, InitBoot DEF Init
<1>2. PoolOk /\ BootInv /\ [Next]_vars => (PoolOk /\ BootInv)'
  BY StepOk
<1> QED
  BY <1>1, <1>2, PTL DEF Spec

\* The variables hold what they are said to; every client in the pool or in a
\* caller's hands has answered that its session runs in UTC before its deadline,
\* a refused one is closed and counted once (CheckedClient of createPool); the
\* pool connects as the text of its URL reads; and the check has made sure of
\* what it has come past.  For any clients, callers, roles, catalogs, grants and
\* URLs, and however often the catalog changes.
THEOREM RoleCheckIInv == Spec => []IInv
<1>1. PoolOk /\ BootInv => IInv
  <2> SUFFICES ASSUME PoolOk, BootInv PROVE IInv
    OBVIOUS
  <2>1. step \in Checking => Held(Boot) # {}
    BY RoleCheckAssumption DEF PoolOk, BootInv, BootOk, ClientsOk
  <2>2. TypeOK
    BY <2>1 DEF PoolOk, BootInv, BootTypeOK, TypeOK, Checking
  <2> QED
    BY <2>2 DEF PoolOk, BootInv, IInv
<1> QED
  BY <1>1, SpecOk, PTL

\* assertRole passes only when each expectation was met at some moment of the
\* check, the memberships through chains of any length, and a failure it names
\* is one that some moment did not meet.
THEOREM RoleCheckVerdictsAreGrounded == Spec => []VerdictsAreGrounded
<1>1. PoolOk /\ BootInv => VerdictsAreGrounded
  BY DEF BootInv
<1> QED
  BY <1>1, SpecOk, PTL

----------------------------------------------------------------------------
(* The throttle and the mails                                              *)

\* Sets of keys are finite.
LEMMA KeySets ==
  ASSUME NEW S \in SUBSET Keys
  PROVE  IsFiniteSet(S) /\ Cardinality(S) \in Nat
BY FS_Subset, FS_CardinalityType, ThrottleAssumption

\* The map has a first entry when it has one: among the sets of the entries up
\* to each one, take a smallest.
LEMMA OldestIsFirst ==
  ASSUME place \in [Keys -> Nat], NEW S \in SUBSET Keys, S # {}
  PROVE  Oldest(S) \in S /\ \A x \in S : place[Oldest(S)] <= place[x]
<1> DEFINE UpTo(x) == {y \in S : place[y] <= place[x]}
           T == {UpTo(x) : x \in S}
<1>1. T \subseteq SUBSET Keys /\ T # {}
  OBVIOUS
<1>2. IsWellFoundedOn(StrictSubsetOrdering(Keys), SUBSET Keys)
  BY FS_StrictSubsetOrderingWellFounded, FS_FiniteSubsetsOfFinite, ThrottleAssumption
<1>3. PICK V \in T : \A U \in T : ~(<<U, V>> \in StrictSubsetOrdering(Keys))
  <2> HIDE DEF T
  <2> QED
    BY <1>1, <1>2, WFMin
<1>4. PICK k \in S : V = UpTo(k)
  OBVIOUS
<1>5. ASSUME NEW x \in S, place[x] < place[k] PROVE FALSE
  <2>1. UpTo(x) \subseteq UpTo(k) /\ k \in UpTo(k) /\ k \notin UpTo(x)
    BY <1>5
  <2>2. <<UpTo(x), UpTo(k)>> \in StrictSubsetOrdering(Keys)
    BY <2>1 DEF StrictSubsetOrdering
  <2> QED
    BY <1>3, <1>4, <2>2
<1>6. \A x \in S : place[k] <= place[x]
  BY <1>5
<1> QED
  BY <1>6 DEF Oldest

\* The map is empty at first.
LEMMA InitThrottle == ThrottleInit => ThrottleInv
<1> SUFFICES ASSUME ThrottleInit PROVE ThrottleInv
  OBVIOUS
<1>1. tracked = {}
  BY DEF ThrottleInit, tracked
<1>2. ThrottleTypeOK
  BY ThrottleAssumption DEF ThrottleInit, ThrottleTypeOK
<1>3. MapInv
  BY <1>1 DEF ThrottleInit, MapInv
<1>4. SizeInv
  BY <1>1, FS_EmptySet, ThrottleAssumption DEF SizeInv
<1>5. EvictedInv
  BY DEF ThrottleInit, EvictedInv
<1> QED
  BY <1>2, <1>3, <1>4, <1>5 DEF ThrottleInv

\* What the clean-up keeps: fewer entries than maxKeys (none, when maxKeys is
\* 0), and it drops an entry only when its window is over or when the others
\* that are left, each younger, are maxKeys with it.
LEMMA CleanUp ==
  ASSUME ThrottleInv, NEW k \in Keys
  PROVE  LET S == tracked \ {k}
             U == Unexpired(S)
         IN /\ Kept(k) \subseteq U /\ U \subseteq S
            /\ Cardinality(Kept(k)) < maxKeys \/ (maxKeys = 0 /\ Kept(k) = {})
            /\ \A x \in S \ U : Expired(x)
            /\ \A x \in U \ Kept(k) : /\ Cardinality(U) >= maxKeys
                                      /\ \A y \in U : place[x] <= place[y]
<1> DEFINE S == tracked \ {k}
           U == Unexpired(S)
<1>1. tracked \subseteq Keys /\ S \subseteq Keys /\ U \subseteq S
  BY DEF tracked, Unexpired
<1>2. \A x \in S \ U : Expired(x)
  BY DEF Unexpired
<1>3. /\ IsFiniteSet(tracked) /\ IsFiniteSet(S) /\ IsFiniteSet(U)
      /\ Cardinality(tracked) \in Nat /\ Cardinality(S) \in Nat /\ Cardinality(U) \in Nat
      /\ Cardinality(U) <= Cardinality(S) /\ Cardinality(S) <= Cardinality(tracked)
  <2>1. IsFiniteSet(tracked) /\ IsFiniteSet(S) /\ IsFiniteSet(U)
    BY <1>1, KeySets
  <2> QED
    BY <1>1, <2>1, KeySets, FS_Subset
<1>4. Kept(k) = IF Cardinality(U) >= maxKeys /\ U # {} THEN U \ {Oldest(U)} ELSE U
  BY DEF Kept, WithRoom
<1>5. CASE Cardinality(U) >= maxKeys /\ U # {}
  <2> DEFINE o == Oldest(U)
  <2>1. o \in U /\ \A y \in U : place[o] <= place[y]
    BY <1>1, <1>5, OldestIsFirst DEF ThrottleInv, ThrottleTypeOK
  <2>2. Kept(k) = U \ {o}
    BY <1>4, <1>5
  <2>3. Cardinality(Kept(k)) = Cardinality(U) - 1
    <3> HIDE DEF U, o
    <3>1. Cardinality(U \ {o}) = Cardinality(U) - 1
      BY <1>3, <2>1, FS_RemoveElement
    <3> QED
      BY <2>2, <3>1
  <2>4. Cardinality(U) <= (IF maxKeys = 0 THEN 1 ELSE maxKeys)
    BY <1>3, ThrottleAssumption DEF ThrottleInv, SizeInv
  <2>5. Cardinality(Kept(k)) < maxKeys \/ (maxKeys = 0 /\ Kept(k) = {})
    <3>1. CASE maxKeys = 0
      <4>1. IsFiniteSet(Kept(k))
        BY <1>1, <2>2, KeySets
      <4>2. Cardinality(Kept(k)) \in Nat
        BY <4>1, FS_CardinalityType
      <4>3. Cardinality(Kept(k)) = 0
        BY <1>3, <2>3, <2>4, <3>1, <4>2
      <4> QED
        BY <3>1, <4>1, <4>3, FS_EmptySet
    <3>2. CASE maxKeys # 0
      BY <1>3, <2>3, <2>4, <3>2, ThrottleAssumption
    <3> QED
      BY <3>1, <3>2
  <2> QED
    BY <1>1, <1>2, <1>5, <2>1, <2>2, <2>5
<1>6. CASE ~(Cardinality(U) >= maxKeys /\ U # {})
  <2>1. Kept(k) = U
    BY <1>4, <1>6
  <2>2. Cardinality(U) < maxKeys \/ (maxKeys = 0 /\ U = {})
    BY <1>3, <1>6, FS_EmptySet, ThrottleAssumption
  <2> QED
    BY <1>1, <1>2, <2>1, <2>2
<1> QED
  BY <1>5, <1>6

\* A send keeps the invariant.
LEMMA SendIInv ==
  ASSUME ThrottleInv, NEW k \in Keys, Send(k) PROVE ThrottleInv'
<1> DEFINE S == tracked \ {k}
           U == Unexpired(S)
           K == Kept(k)
<1>1. /\ K \subseteq U /\ U \subseteq S /\ S \subseteq Keys
      /\ Cardinality(K) < maxKeys \/ (maxKeys = 0 /\ K = {})
      /\ \A x \in S \ U : Expired(x)
      /\ \A x \in U \ K : Cardinality(U) >= maxKeys /\ \A y \in U : place[x] <= place[y]
  BY CleanUp DEF tracked
<1>2. tracked' = K \cup {k}
  BY <1>1, ThrottleAssumption DEF Send, tracked, ThrottleInv, ThrottleTypeOK
<1>3. ThrottleTypeOK'
  BY DEF Send, Results, ThrottleInv, ThrottleTypeOK
<1>4. MapInv'
  <2>1. \A x \in Keys : last'[x] # Never => last'[x] <= now'
    BY DEF Send, ThrottleInv, ThrottleTypeOK, MapInv
  <2>3. \A x \in K : /\ x # k /\ x \in Keys /\ x \in tracked
                     /\ place'[x] = place[x] /\ place[x] \in 1..stamp
                     /\ sentAt'[x] = sentAt[x] /\ last'[x] = last[x] /\ sentAt[x] = last[x]
    <3> SUFFICES ASSUME NEW x \in K
                 PROVE  /\ x # k /\ x \in Keys /\ x \in tracked
                        /\ place'[x] = place[x] /\ place[x] \in 1..stamp
                        /\ sentAt'[x] = sentAt[x] /\ last'[x] = last[x] /\ sentAt[x] = last[x]
      OBVIOUS
    <3>1. x # k /\ x \in Keys /\ x \in tracked
      BY <1>1
    <3>2. place[x] \in 1..stamp /\ sentAt[x] = last[x]
      BY <3>1 DEF ThrottleInv, MapInv
    <3>3. place'[x] = place[x] /\ sentAt'[x] = sentAt[x]
      BY <3>1 DEF Send
    <3>4. last'[x] = last[x]
      BY <3>1 DEF Send, ThrottleInv, ThrottleTypeOK
    <3> QED
      BY <3>1, <3>2, <3>3, <3>4
  <2>4. /\ place'[k] = stamp + 1 /\ stamp \in Nat /\ stamp' = stamp + 1
        /\ sentAt'[k] = now /\ last'[k] = now
    BY DEF Send, ThrottleInv, ThrottleTypeOK
  <2>2. \A x \in tracked' : sentAt'[x] = last'[x] /\ place'[x] \in 1..stamp'
    <3> HIDE DEF K
    <3> QED
      BY <1>2, <2>3, <2>4
  <2>5. \A x, y \in tracked' : place'[x] = place'[y] => x = y
    BY <1>1, <1>2, <2>3, <2>4 DEF ThrottleInv, MapInv, ThrottleTypeOK
  <2>6. \A x, y \in tracked' : place'[x] < place'[y] => y \in since'[x]
    <3> SUFFICES ASSUME NEW x \in tracked', NEW y \in tracked', place'[x] < place'[y]
                 PROVE  y \in since'[x]
      OBVIOUS
    <3>1. x \in K /\ x \in Keys
      BY <1>1, <1>2, <2>3, <2>4 DEF ThrottleInv, ThrottleTypeOK
    <3>2. since'[x] = since[x] \cup {k}
      BY <2>3, <3>1 DEF Send
    <3>3. y \in K => y \in since[x]
      BY <2>3, <3>1 DEF ThrottleInv, MapInv
    <3> QED
      BY <1>2, <3>2, <3>3
  <2>7. \A x \in Keys : x \notin since'[x]
    BY DEF Send, ThrottleInv, MapInv
  <2> QED
    BY <2>1, <2>2, <2>5, <2>6, <2>7 DEF MapInv
<1>5. SizeInv'
  <2>1. IsFiniteSet(K) /\ Cardinality(K) \in Nat /\ k \notin K
    BY <1>1, KeySets
  <2>2. Cardinality(tracked') = Cardinality(K) + 1
    BY <1>2, <2>1, FS_AddElement
  <2>3. maxKeys = 0 => Cardinality(K) = 0
    BY <1>1, <2>1, FS_EmptySet, ThrottleAssumption
  <2> QED
    BY <1>1, <2>1, <2>2, <2>3, ThrottleAssumption DEF SizeInv
<1>6. EvictedInv'
  <2> SUFFICES ASSUME NEW x \in Keys, x \notin tracked', last'[x] # Never
               PROVE  now' - last'[x] >= windowMs \/ Cardinality(since'[x]) >= maxKeys
    BY DEF EvictedInv
  <2>1. /\ x # k /\ x \notin K /\ last'[x] = last[x] /\ now' = now
        /\ since'[x] = since[x] \cup {k} /\ since[x] \subseteq Keys
    BY <1>2 DEF Send, ThrottleInv, ThrottleTypeOK
  <2>2. CASE x \notin tracked
    <3>1. IsFiniteSet(since'[x]) /\ since[x] \in SUBSET since'[x]
      BY <2>1, KeySets
    <3>2. Cardinality(since[x]) <= Cardinality(since'[x])
      BY <3>1, FS_Subset
    <3>3. Cardinality(since[x]) \in Nat /\ Cardinality(since'[x]) \in Nat
      BY <2>1, KeySets
    <3> QED
      BY <2>1, <2>2, <3>2, <3>3, ThrottleAssumption DEF ThrottleInv, EvictedInv
  <2>3. CASE x \in tracked /\ x \notin U
    BY <1>1, <2>1, <2>3 DEF Expired, ThrottleInv, MapInv
  <2>4. CASE x \in U
    <3>1. Cardinality(U) >= maxKeys /\ \A y \in U : place[x] <= place[y]
      BY <1>1, <2>1, <2>4
    <3>2. \A y \in U \ {x} : y \in since[x]
      <4> SUFFICES ASSUME NEW y \in U, y # x PROVE y \in since[x]
        OBVIOUS
      <4>1. x \in tracked /\ y \in tracked /\ x \in Keys /\ y \in Keys
        BY <1>1, <2>4
      <4>2. place[x] <= place[y] /\ place[x] # place[y] /\ place[x] \in Nat /\ place[y] \in Nat
        BY <3>1, <4>1 DEF ThrottleInv, ThrottleTypeOK, MapInv
      <4> QED
        BY <4>1, <4>2 DEF ThrottleInv, MapInv
    <3>3. k \notin U \ {x} /\ (U \ {x}) \cup {k} \in SUBSET since'[x]
      BY <1>1, <2>1, <3>2
    <3>4. IsFiniteSet(U) /\ Cardinality(U) \in Nat /\ IsFiniteSet(since'[x])
          /\ Cardinality(since'[x]) \in Nat
      BY <1>1, <2>1, KeySets
    <3>5. IsFiniteSet(U \ {x}) /\ Cardinality(U \ {x}) = Cardinality(U) - 1
      BY <2>4, <3>4, FS_RemoveElement
    <3>6. Cardinality((U \ {x}) \cup {k}) = Cardinality(U)
      <4> HIDE DEF U
      <4>1. Cardinality((U \ {x}) \cup {k}) = Cardinality(U \ {x}) + 1
        BY <3>3, <3>5, FS_AddElement
      <4> QED
        BY <3>4, <3>5, <4>1
    <3>7. Cardinality((U \ {x}) \cup {k}) <= Cardinality(since'[x])
      BY <3>3, <3>4, FS_Subset
    <3> QED
      BY <3>1, <3>4, <3>6, <3>7, ThrottleAssumption
  <2> QED
    BY <2>1, <2>2, <2>3, <2>4
<1> QED
  BY <1>3, <1>4, <1>5, <1>6 DEF ThrottleInv

\* Every step keeps it.
LEMMA NextThrottle == ThrottleInv /\ [ThrottleNext]_throttleVars => ThrottleInv'
<1> SUFFICES ASSUME ThrottleInv, [ThrottleNext]_throttleVars PROVE ThrottleInv'
  OBVIOUS
<1>1. ASSUME NEW k \in Keys, Send(k) PROVE ThrottleInv'
  BY <1>1, SendIInv
<1>2. CASE UNCHANGED <<now, sentAt, place, stamp, last, since>> /\ answer' \in {"none", "dropped", "ok", "rejected", "thrown"}
  BY <1>2 DEF ThrottleInv, ThrottleTypeOK, MapInv, SizeInv, EvictedInv, tracked, Expired
<1>3. ASSUME NEW k \in Keys, Drop(k) PROVE ThrottleInv'
  BY <1>2, <1>3 DEF Drop
<1>4. CASE Welcome
  BY <1>2, <1>4 DEF Welcome, Results
<1>5. CASE Tick
  <2>1. now' \in Nat /\ now' > now /\ tracked' = tracked
    BY <1>5 DEF Tick, ThrottleInv, ThrottleTypeOK, tracked
  <2>2. MapInv'
    BY <1>5, <2>1 DEF Tick, ThrottleInv, ThrottleTypeOK, MapInv
  <2>3. EvictedInv'
    BY <1>5, <2>1, ThrottleAssumption DEF Tick, ThrottleInv, ThrottleTypeOK, EvictedInv
  <2> QED
    BY <1>5, <2>1, <2>2, <2>3 DEF Tick, ThrottleInv, ThrottleTypeOK, SizeInv
<1>6. CASE UNCHANGED throttleVars
  BY <1>2, <1>6 DEF throttleVars, ThrottleInv, ThrottleTypeOK
<1> QED
  BY <1>1, <1>3, <1>4, <1>5, <1>6 DEF ThrottleNext

\* createMailThrottle: the map is bounded and agrees with the sends, and what
\* it forgets inside a window was pushed out by maxKeys other keys.
THEOREM ThrottleIInv == ThrottleSpec => []ThrottleInv
BY InitThrottle, NextThrottle, PTL DEF ThrottleSpec

\* A key is free when it was never sent, when its window is over, or after
\* maxKeys others.
LEMMA FreeIsDue ==
  ASSUME ThrottleInv, NEW k \in Keys, ~Blocked(k)
  PROVE  Abstract!Due(k) \/ Abstract!Flooded(k)
<1>1. CASE k \in tracked
  BY <1>1 DEF Blocked, Expired, tracked, ThrottleInv, MapInv, Abstract!Due
<1>2. CASE k \notin tracked
  BY <1>2 DEF ThrottleInv, EvictedInv, Abstract!Due, Abstract!Flooded, Abstract!Cardinality, Cardinality
<1> QED
  BY <1>1, <1>2

\* A blocked key was sent inside the window.
LEMMA BlockedIsNotDue ==
  ASSUME ThrottleInv, NEW k \in Keys, Blocked(k)
  PROVE  ~Abstract!Due(k)
BY DEF Blocked, Expired, tracked, ThrottleInv, MapInv, Abstract!Due

\* Each step of the throttle is one of Debounce, or leaves what it sees alone.
LEMMA NextImplements ==
  ThrottleInv /\ [ThrottleNext]_throttleVars => [Abstract!Next]_<<now, last, since, answer>>
<1> SUFFICES ASSUME ThrottleInv, [ThrottleNext]_throttleVars
             PROVE  [Abstract!Next]_<<now, last, since, answer>>
  OBVIOUS
<1>1. ASSUME NEW k \in Keys, Send(k) PROVE Abstract!Next
  <2>1. Abstract!Send(k)
    BY <1>1, FreeIsDue DEF Send, Results, Abstract!Send, Abstract!Results
  <2> QED
    BY <2>1 DEF Abstract!Next
<1>2. ASSUME NEW k \in Keys, Drop(k) PROVE Abstract!Next
  <2>1. Abstract!Drop(k)
    BY <1>2, BlockedIsNotDue DEF Drop, Abstract!Drop
  <2> QED
    BY <2>1 DEF Abstract!Next
<1>3. CASE Welcome
  BY <1>3 DEF Welcome, Results, Abstract!Welcome, Abstract!Results, Abstract!Next
<1>4. CASE Tick
  BY <1>4 DEF Tick, ThrottleInv, ThrottleTypeOK, Abstract!Tick, Abstract!Next
<1>5. CASE UNCHANGED throttleVars
  BY <1>5 DEF throttleVars
<1> QED
  BY <1>1, <1>2, <1>3, <1>4, <1>5 DEF ThrottleNext

\* The throttle implements Debounce: a notification goes out again inside its
\* window only after a flood of maxKeys other keys, and is dropped only inside
\* its window.
THEOREM ThrottleKeepsItsPromise == ThrottleSpec => KeepsItsPromise
<1>1. ThrottleInit => Abstract!Init
  BY DEF ThrottleInit, Abstract!Init
<1> QED
  BY <1>1, NextImplements, ThrottleIInv, PTL DEF ThrottleSpec, KeepsItsPromise, Abstract!Spec

----------------------------------------------------------------------------
(* The mails on top of it.                                                 *)

\* Every step of the mails is a step of the throttle, or leaves it alone.
LEMMA MailsStep == [MailsNext]_mailVars => [ThrottleNext]_throttleVars
<1> SUFFICES ASSUME [MailsNext]_mailVars PROVE [ThrottleNext]_throttleVars
  OBVIOUS
<1>1. ASSUME NEW k \in Keys, NEW times \in 1 .. MaxTimes, Notify(k, times)
      PROVE  ThrottleNext
  BY <1>1 DEF Notify, ThrottleNext
<1>2. ASSUME NEW k \in Keys, Mute(k)
      PROVE  ThrottleNext
  BY <1>2 DEF Mute, ThrottleNext
<1>3. ASSUME NEW to \in Addresses, SendAtOnce(to)
      PROVE  ThrottleNext
  BY <1>3 DEF SendAtOnce, ThrottleNext
<1>4. CASE Tick /\ UNCHANGED <<appDomain, mail>>
  BY <1>4 DEF ThrottleNext
<1>5. CASE UNCHANGED mailVars
  BY <1>5 DEF mailVars, throttleVars
<1> QED
  BY <1>1, <1>2, <1>3, <1>4, <1>5 DEF MailsNext

\* SocketLabsLib behind throttleMailer implements the throttle alone.
THEOREM MailsImplementThrottle == MailsSpec => ThrottleSpec
<1>1. MailsInit => ThrottleInit
  BY DEF MailsInit
<1> QED
  BY <1>1, MailsStep, PTL DEF MailsSpec, ThrottleSpec

\* So the map of the throttle stays bounded and in order whatever is mailed.
THEOREM MailsIInv == MailsSpec => []ThrottleInv
BY MailsImplementThrottle, ThrottleIInv, PTL

\* And a notification is sent twice within its window only after a flood.
THEOREM MailsKeepThePromise == MailsSpec => KeepsItsPromise
BY MailsImplementThrottle, ThrottleKeepsItsPromise, PTL

----------------------------------------------------------------------------
(* The links.                                                              *)

\* Strings; the prover has to be told that the literals are.
Chars == STRING \cup {"/", "%20", "change", "index.php", "?", "#", "&", "+",
                       "q=reset", "hash=", "email="}

LEMMA StringsAreChars == \A s \in Seq(STRING) : s \in Seq(Chars)
BY SeqMonotonic DEF Chars

\* A set of numbers has a least one.
LEMMA LeastNumber ==
  ASSUME NEW T \in SUBSET Nat, T # {}
  PROVE  \E x \in T : \A y \in T : x <= y
<1>0. \A y \in T : y \in Nat
  OBVIOUS
<1>1. PICK n \in T : TRUE
  OBVIOUS
<1> DEFINE UpTo(x) == {y \in T : y <= x}
           Low == {y \in T : y <= n}
           U == {UpTo(x) : x \in Low}
<1>2. IsFiniteSet(0 .. n)
  BY <1>1, FS_Interval
<1>3. IsWellFoundedOn(StrictSubsetOrdering(0 .. n), SUBSET (0 .. n))
  BY <1>2, FS_StrictSubsetOrderingWellFounded, FS_FiniteSubsetsOfFinite
<1>4. ASSUME NEW x \in Low PROVE UpTo(x) \in SUBSET (0 .. n)
  <2>1. \A y \in UpTo(x) : y \in 0 .. n
    BY <1>0, <1>1
  <2> QED
    BY <2>1
<1>5. n \in Low
  BY <1>1
<1>6. U \subseteq SUBSET (0 .. n) /\ U # {}
  <2> HIDE DEF UpTo, Low
  <2> QED
    BY <1>4, <1>5
<1>7. PICK V \in U : \A W \in U : ~(<<W, V>> \in StrictSubsetOrdering(0 .. n))
  <2> HIDE DEF U, UpTo, Low
  <2> QED
    BY <1>3, <1>6, WFMin
<1>8. PICK x \in Low : V = UpTo(x)
  <2> HIDE DEF UpTo, Low
  <2> QED
    BY <1>7
<1>9. ASSUME NEW y \in T, y < x PROVE FALSE
  <2>1. y \in Low /\ UpTo(y) \subseteq UpTo(x)
    <3>1. x \in Nat /\ y \in Nat /\ n \in Nat /\ x <= n
      BY <1>0, <1>1, <1>8
    <3>2. \A z \in T : z <= y => z <= x
      BY <1>0, <1>9, <3>1
    <3>3. y <= n
      BY <1>9, <3>1
    <3> QED
      BY <1>9, <3>2, <3>3
  <2>2. x \in UpTo(x) /\ x \notin UpTo(y)
    BY <1>0, <1>8, <1>9
  <2>3. UpTo(y) \in SUBSET (0 .. n) /\ UpTo(x) \in SUBSET (0 .. n)
    BY <1>4, <1>8, <2>1
  <2>4. UpTo(y) \in U
    <3> HIDE DEF UpTo, Low
    <3> QED
      BY <2>1
  <2>5. <<UpTo(y), V>> \in StrictSubsetOrdering(0 .. n)
    <3> HIDE DEF U, UpTo, Low
    <3> QED
      BY <1>8, <2>1, <2>2, <2>3 DEF StrictSubsetOrdering
  <2> QED
    <3> HIDE DEF U, UpTo, Low
    <3> QED
      BY <1>7, <2>4, <2>5
<1>10. \A y \in T : x <= y
  BY <1>0, <1>8, <1>9
<1> QED
  BY <1>8, <1>10

\* The head of s up to the first of some characters, or all of s.
LEMMA HeadUpTo ==
  ASSUME NEW s \in Seq(Chars), NEW C
  PROVE  \E n \in 0 .. Len(s) :
           /\ \A i \in 1 .. n : s[i] \notin C
           /\ n < Len(s) => s[n + 1] \in C
<1> DEFINE T == {i \in 1 .. Len(s) : s[i] \in C}
<1>1. CASE T = {}
  BY <1>1
<1>2. CASE T # {}
  <2>0. T \in SUBSET Nat
    OBVIOUS
  <2>1. PICK x \in T : \A y \in T : x <= y
    <3> HIDE DEF T
    <3> QED
      BY <1>2, <2>0, LeastNumber
  <2>2. x - 1 \in 0 .. Len(s) /\ x = (x - 1) + 1 /\ s[x] \in C
    BY <2>1
  <2>3. \A i \in 1 .. x - 1 : s[i] \notin C
    BY <2>1
  <2> QED
    BY <2>2, <2>3
<1> QED
  BY <1>1, <1>2

\* Before cuts a sequence before the first of the characters.
LEMMA BeforeIs ==
  ASSUME NEW s \in Seq(Chars), NEW C
  PROVE  \E n \in 0 .. Len(s) :
           /\ Before(s, C) = SubSeq(s, 1, n)
           /\ \A i \in 1 .. n : s[i] \notin C
           /\ n < Len(s) => s[n + 1] \in C
<1> DEFINE P(n) == /\ \A i \in 1 .. n : s[i] \notin C
                   /\ n < Len(s) => s[n + 1] \in C
           m == CHOOSE n \in 0 .. Len(s) : P(n)
<1>1. \E n \in 0 .. Len(s) : P(n)
  BY HeadUpTo
<1>2. m \in 0 .. Len(s) /\ P(m)
  <2> HIDE DEF P
  <2> QED
    BY <1>1
<1>3. Before(s, C) = SubSeq(s, 1, m)
  BY DEF Before
<1> HIDE DEF m
<1> QED
  BY <1>2, <1>3

\* Opened cuts a link before its query and its fragment.
LEMMA OpenedIs ==
  ASSUME NEW link \in Seq(Chars)
  PROVE  \E n \in 0 .. Len(link) :
           /\ Opened(link) = SubSeq(link, 1, n)
           /\ \A i \in 1 .. n : link[i] \notin {"?", "#"}
           /\ n < Len(link) => link[n + 1] \in {"?", "#"}
BY BeforeIs DEF Opened

\* LinkPath takes the slashes at the head of a path for one.
LEMMA LinkPathIsPage ==
  ASSUME NEW p \in Paths
  PROVE  LinkPath(p.written) = p.page
<1> DEFINE q == Tail(p.page)
<1>1. /\ p.page \in Seq(Chars) /\ p.page # <<>> /\ p.page[1] = "/"
      /\ Len(p.page) > 1 => p.page[2] # "/"
  BY LinksAssumption, StringsAreChars
<1>2. q \in Seq(Chars) /\ p.page = <<"/">> \o q /\ (Len(q) > 0 => q[1] # "/")
  <2>1. /\ q \in Seq(Chars) /\ Len(q) = Len(p.page) - 1 /\ Len(p.page) \in Nat \ {0}
        /\ \A i \in 1 .. Len(q) : q[i] = p.page[i + 1]
    BY <1>1, HeadTailProperties, EmptySeq
  <2> HIDE DEF q
  <2>2. <<"/">> \in Seq(Chars) /\ Len(<<"/">>) = 1 /\ <<"/">>[1] = "/"
    BY DEF Chars
  <2>3. /\ <<"/">> \o q \in Seq(Chars) /\ Len(<<"/">> \o q) = 1 + Len(q)
        /\ \A i \in 1 .. 1 + Len(q) : (<<"/">> \o q)[i] = IF i <= 1 THEN <<"/">>[i] ELSE q[i - 1]
    BY <2>1, <2>2, ConcatProperties
  <2>4. \A i \in 1 .. Len(p.page) : p.page[i] = (<<"/">> \o q)[i]
    BY <1>1, <2>1, <2>2, <2>3
  <2>5. p.page = <<"/">> \o q
    BY <1>1, <2>1, <2>3, <2>4, SeqEqual
  <2> QED
    BY <1>1, <2>1, <2>5
<1> HIDE DEF q
<1>3. PICK n \in Nat : p.written = [i \in 1 .. n |-> "/"] \o q
  <2>1. PICK n \in 0 .. Len(p.written) : p.written = [i \in 1 .. n |-> "/"] \o Tail(p.page)
    BY LinksAssumption
  <2>2. n \in Nat
    OBVIOUS
  <2> QED
    BY <2>1, <2>2 DEF q
<1> DEFINE w == p.written
           z == [i \in 1 .. n |-> "/"]
<1>4. z \in Seq(Chars) /\ Len(z) = n
  <2>1. z \in [1 .. n -> Chars]
    BY DEF Chars
  <2>2. z \in Seq(Chars)
    BY <2>1, SeqDef
  <2>3. DOMAIN z = 1 .. n
    OBVIOUS
  <2> HIDE DEF z
  <2> QED
    BY <2>2, <2>3, LenProperties
<1>5. /\ w \in Seq(Chars) /\ Len(w) = n + Len(q) /\ Len(q) \in Nat
      /\ \A i \in 1 .. n : w[i] = "/"
      /\ \A i \in 1 .. Len(q) : w[n + i] = q[i]
  <2>1. /\ z \o q \in Seq(Chars) /\ Len(z \o q) = Len(z) + Len(q)
        /\ \A i \in 1 .. Len(z) + Len(q) : (z \o q)[i] = IF i <= Len(z) THEN z[i] ELSE q[i - Len(z)]
    BY <1>2, <1>4, ConcatProperties
  <2>2. Len(q) \in Nat
    BY <1>2, LenProperties
  <2>3. \A i \in 1 .. n : (z \o q)[i] = "/"
    BY <1>4, <2>1, <2>2
  <2>4. \A i \in 1 .. Len(q) : (z \o q)[n + i] = q[i]
    BY <1>4, <2>1, <2>2
  <2> HIDE DEF z
  <2> QED
    BY <1>3, <1>4, <2>1, <2>2, <2>3, <2>4 DEF z
<1> HIDE DEF w, z
<1>6. Leading(w) = n
  <2> DEFINE P(k) == /\ \A i \in 1 .. k : w[i] = "/"
                     /\ k < Len(w) => w[k + 1] # "/"
  <2>1. n \in 0 .. Len(w) /\ P(n)
    BY <1>2, <1>5
  <2>2. ASSUME NEW k \in 0 .. Len(w), P(k) PROVE k = n
    <3>1. ~(k < n)
      BY <1>5, <2>2
    <3>2. ~(n < k)
      BY <1>5, <2>1, <2>2
    <3> QED
      BY <1>5, <3>1, <3>2
  <2>3. Leading(w) = CHOOSE k \in 0 .. Len(w) : P(k)
    BY DEF Leading
  <2> HIDE DEF P
  <2> QED
    BY <2>1, <2>2, <2>3
<1>7. SubSeq(w, n + 1, Len(w)) = q
  <2>1. \A i \in n + 1 .. Len(w) : w[i] \in Chars
    BY <1>5, ElementOfSeq
  <2>2. /\ SubSeq(w, n + 1, Len(w)) \in Seq(Chars)
        /\ Len(SubSeq(w, n + 1, Len(w))) = IF n + 1 <= Len(w) THEN Len(w) - (n + 1) + 1 ELSE 0
        /\ \A i \in 1 .. Len(w) - (n + 1) + 1 : SubSeq(w, n + 1, Len(w))[i] = w[(n + 1) + i - 1]
    BY <1>5, <2>1, SubSeqProperties
  <2>3. Len(SubSeq(w, n + 1, Len(w))) = Len(q)
    BY <1>5, <2>2
  <2>4. \A i \in 1 .. Len(q) : SubSeq(w, n + 1, Len(w))[i] = q[i]
    <3> SUFFICES ASSUME NEW i \in 1 .. Len(q) PROVE SubSeq(w, n + 1, Len(w))[i] = q[i]
      OBVIOUS
    <3>1. i \in 1 .. Len(w) - (n + 1) + 1 /\ (n + 1) + i - 1 = n + i
      BY <1>5
    <3> QED
      BY <1>5, <2>2, <3>1
  <2> QED
    BY <1>2, <2>2, <2>3, <2>4, SeqEqual
<1> QED
  BY <1>2, <1>6, <1>7 DEF LinkPath, w

\* A link, part by part.
Joined(head, e, t) == (head \o e) \o t

LEMMA LinkParts ==
  ASSUME NEW head \in Seq(Chars), NEW e \in Seq(Chars), NEW t \in Seq(Chars), Len(t) = 2
  PROVE  LET link == Joined(head, e, t)
         IN /\ link \in Seq(Chars) /\ Len(link) = Len(head) + Len(e) + 2
            /\ \A i \in 1 .. Len(head) : link[i] = head[i]
            /\ \A i \in 1 .. Len(e) : link[Len(head) + i] = e[i]
            /\ \A k \in 1 .. 2 : link[Len(head) + Len(e) + k] = t[k]
<1> DEFINE f == head \o e
           link == f \o t
<1>1. Len(head) \in Nat /\ Len(e) \in Nat
  BY LenProperties
<1>2. /\ f \in Seq(Chars) /\ Len(f) = Len(head) + Len(e)
      /\ \A i \in 1 .. Len(head) + Len(e) : f[i] = IF i <= Len(head) THEN head[i] ELSE e[i - Len(head)]
  BY ConcatProperties
<1> HIDE DEF f
<1>4. /\ f \o t \in Seq(Chars) /\ Len(f \o t) = Len(f) + Len(t)
      /\ \A i \in 1 .. Len(f) + Len(t) : (f \o t)[i] = IF i <= Len(f) THEN f[i] ELSE t[i - Len(f)]
  <2>1. f \in Seq(Chars) /\ t \in Seq(Chars)
    BY <1>2
  <2> QED
    BY <2>1, ConcatProperties
<1>5. link = f \o t
  OBVIOUS
<1> HIDE DEF link
<1>6. \A i \in 1 .. Len(head) : link[i] = head[i]
  <2> SUFFICES ASSUME NEW i \in 1 .. Len(head) PROVE link[i] = head[i]
    OBVIOUS
  <2>1. i \in 1 .. Len(head) + Len(e) /\ i <= Len(head)
    BY <1>1
  <2>2. f[i] = head[i]
    BY <1>2, <2>1
  <2>3. i \in 1 .. Len(f) + Len(t) /\ i <= Len(f)
    BY <1>1, <1>2, <2>1
  <2> QED
    BY <1>4, <1>5, <2>2, <2>3
<1>7. \A i \in 1 .. Len(e) : link[Len(head) + i] = e[i]
  <2> SUFFICES ASSUME NEW i \in 1 .. Len(e) PROVE link[Len(head) + i] = e[i]
    OBVIOUS
  <2>1. /\ Len(head) + i \in 1 .. Len(head) + Len(e) /\ ~(Len(head) + i <= Len(head))
        /\ (Len(head) + i) - Len(head) = i
    BY <1>1
  <2>2. f[Len(head) + i] = e[i]
    BY <1>2, <2>1
  <2>3. Len(head) + i \in 1 .. Len(f) + Len(t) /\ Len(head) + i <= Len(f)
    BY <1>1, <1>2, <2>1
  <2> QED
    BY <1>4, <1>5, <2>2, <2>3
<1>8. \A k \in 1 .. 2 : link[Len(head) + Len(e) + k] = t[k]
  <2> SUFFICES ASSUME NEW k \in 1 .. 2 PROVE link[Len(head) + Len(e) + k] = t[k]
    OBVIOUS
  <2>1. /\ Len(head) + Len(e) + k \in 1 .. Len(f) + Len(t)
        /\ ~(Len(head) + Len(e) + k <= Len(f))
        /\ (Len(head) + Len(e) + k) - Len(f) = k
    BY <1>1, <1>2
  <2> QED
    BY <1>4, <1>5, <2>1
<1>9. /\ link \in Seq(Chars) /\ Len(link) = Len(head) + Len(e) + 2
      /\ \A i \in 1 .. Len(head) : link[i] = head[i]
      /\ \A i \in 1 .. Len(e) : link[Len(head) + i] = e[i]
      /\ \A k \in 1 .. 2 : link[Len(head) + Len(e) + k] = t[k]
  BY <1>1, <1>2, <1>4, <1>5, <1>6, <1>7, <1>8
<1>10. link = Joined(head, e, t)
  BY DEF link, f, Joined
<1> QED
  BY <1>9, <1>10

\* encodeURI keeps the separators and the length, and decodeURI takes it back.
LEMMA EncodedParts ==
  ASSUME NEW s \in Seq(Chars)
  PROVE  /\ encodeURI(s) \in Seq(Chars) /\ Len(encodeURI(s)) = Len(s)
         /\ \A i \in 1 .. Len(s) :
              /\ encodeURI(s)[i] = IF s[i] = " " THEN "%20" ELSE s[i]
              /\ \A c \in Separators \cup {"&", "+"} : encodeURI(s)[i] = c <=> s[i] = c
<1> DEFINE e == encodeURI(s)
<1>1. DOMAIN s = 1 .. Len(s) /\ Len(s) \in Nat /\ s \in [1 .. Len(s) -> Chars]
  BY LenProperties
<1>2. e = [i \in 1 .. Len(s) |-> IF s[i] = " " THEN "%20" ELSE s[i]]
  BY <1>1 DEF encodeURI
<1>3. e \in [1 .. Len(s) -> Chars]
  BY <1>1, <1>2 DEF Chars
<1>4. e \in Seq(Chars)
  BY <1>1, <1>3, SeqDef
<1>5. DOMAIN e = 1 .. Len(s)
  BY <1>2
<1>6. Len(e) = Len(s)
  <2> HIDE DEF e
  <2> QED
    BY <1>1, <1>4, <1>5, LenProperties
<1>7. \A i \in 1 .. Len(s) : e[i] = IF s[i] = " " THEN "%20" ELSE s[i]
  BY <1>2
<1> HIDE DEF e
<1>8. \A i \in 1 .. Len(s) : \A c \in Separators \cup {"&", "+"} : e[i] = c <=> s[i] = c
  BY <1>7 DEF Separators
<1> QED
  BY <1>4, <1>6, <1>7, <1>8 DEF e

\* A link of the mails: its head, the address, and the hash.
LinkOf(head, to) == Joined(head, encodeURI(to), <<"/", Hash>>)

LEMMA MailedLinkParts ==
  ASSUME NEW head \in Seq(Chars), NEW to \in Seq(Chars)
  PROVE  LET link == LinkOf(head, to)
         IN /\ link \in Seq(Chars) /\ Len(link) = Len(head) + Len(to) + 2
            /\ \A i \in 1 .. Len(head) : link[i] = head[i]
            /\ \A i \in 1 .. Len(to) : link[Len(head) + i] = encodeURI(to)[i]
            /\ link[Len(head) + Len(to) + 1] = "/" /\ link[Len(head) + Len(to) + 2] = Hash
<1> DEFINE e == encodeURI(to)
           t == <<"/", Hash>>
           link == Joined(head, e, t)
<1>1. t \in Seq(Chars) /\ Len(t) = 2 /\ t[1] = "/" /\ t[2] = Hash
  BY LinksAssumption DEF Chars
<1>2. e \in Seq(Chars) /\ Len(e) = Len(to)
  BY EncodedParts
<1> HIDE DEF e, t
<1>3. /\ link \in Seq(Chars) /\ Len(link) = Len(head) + Len(e) + 2
      /\ \A i \in 1 .. Len(head) : link[i] = head[i]
      /\ \A i \in 1 .. Len(e) : link[Len(head) + i] = e[i]
      /\ \A k \in 1 .. 2 : link[Len(head) + Len(e) + k] = t[k]
  <2>1. t \in Seq(Chars) /\ Len(t) = 2 /\ e \in Seq(Chars)
    BY <1>1, <1>2
  <2> QED
    BY <2>1, LinkParts, ZenonT(60)
<1> HIDE DEF link
<1>4. /\ link \in Seq(Chars) /\ Len(link) = Len(head) + Len(to) + 2
      /\ \A i \in 1 .. Len(head) : link[i] = head[i]
      /\ \A i \in 1 .. Len(to) : link[Len(head) + i] = e[i]
      /\ link[Len(head) + Len(to) + 1] = "/" /\ link[Len(head) + Len(to) + 2] = Hash
  BY <1>1, <1>2, <1>3
<1> QED
  BY <1>4 DEF link, e, t, LinkOf

\* A piece of a sequence.
LEMMA Piece ==
  ASSUME NEW s \in Seq(Chars), NEW m \in 1 .. Len(s) + 1, NEW n \in 0 .. Len(s), m <= n + 1
  PROVE  /\ SubSeq(s, m, n) \in Seq(Chars) /\ Len(SubSeq(s, m, n)) = n - m + 1
         /\ \A i \in 1 .. n - m + 1 : SubSeq(s, m, n)[i] = s[m + i - 1]
         /\ DOMAIN SubSeq(s, m, n) = 1 .. n - m + 1
<1>1. \A i \in m .. n : s[i] \in Chars
  BY LenProperties
<1>2. /\ SubSeq(s, m, n) \in Seq(Chars)
      /\ Len(SubSeq(s, m, n)) = IF m <= n THEN n - m + 1 ELSE 0
      /\ \A i \in 1 .. n - m + 1 : SubSeq(s, m, n)[i] = s[m + i - 1]
  BY <1>1, SubSeqProperties
<1>3. Len(SubSeq(s, m, n)) = n - m + 1
  BY <1>2
<1> QED
  BY <1>2, <1>3, LenProperties

\* The head of a sequence.
LEMMA HeadPiece ==
  ASSUME NEW s \in Seq(Chars), NEW n \in 0 .. Len(s)
  PROVE  /\ SubSeq(s, 1, n) \in Seq(Chars) /\ Len(SubSeq(s, 1, n)) = n
         /\ \A i \in 1 .. n : SubSeq(s, 1, n)[i] = s[i]
         /\ DOMAIN SubSeq(s, 1, n) = 1 .. n
<1>1. 1 \in 1 .. Len(s) + 1 /\ 1 <= n + 1 /\ n - 1 + 1 = n /\ \A i \in 1 .. n : 1 + i - 1 = i
  BY LenProperties
<1>2. /\ SubSeq(s, 1, n) \in Seq(Chars) /\ Len(SubSeq(s, 1, n)) = n - 1 + 1
      /\ \A i \in 1 .. n - 1 + 1 : SubSeq(s, 1, n)[i] = s[1 + i - 1]
      /\ DOMAIN SubSeq(s, 1, n) = 1 .. n - 1 + 1
  BY <1>1, Piece
<1> QED
  BY <1>1, <1>2

\* The page of the head reads the address and the hash back, unless the address
\* has a separator in it.
LEMMA ReadsBack ==
  ASSUME NEW base, NEW page, NEW head \in Seq(Chars), head = <<base>> \o page \o <<"/">>,
         \A i \in 1 .. Len(head) : head[i] \notin {"?", "#"},
         NEW to \in Seq(Chars), to # <<>>, \A i \in 1 .. Len(to) : to[i] # "%20",
         NEW link, link = LinkOf(head, to)
  PROVE  <<to, <<Hash>>>> \in Params(link, base, page)
           <=> \A i \in 1 .. Len(to) : to[i] \notin Separators
<1> DEFINE L == Len(head)
           N == Len(to)
           e == encodeURI(to)
           opened == Opened(link)
           rest == SubSeq(opened, L + 1, Len(opened))
<1>1. Hash \in Chars /\ Hash \notin Separators
  BY LinksAssumption DEF Chars
<1>2. N \in Nat /\ N >= 1 /\ DOMAIN to = 1 .. N /\ L \in Nat
  BY LenProperties, EmptySeq
<1>3. /\ e \in Seq(Chars) /\ Len(e) = N
      /\ \A i \in 1 .. N : /\ e[i] = IF to[i] = " " THEN "%20" ELSE to[i]
                           /\ \A c \in Separators : e[i] = c <=> to[i] = c
  BY EncodedParts
<1>4. /\ link \in Seq(Chars) /\ Len(link) = L + N + 2 /\ L \in Nat
      /\ \A i \in 1 .. L : link[i] = head[i]
      /\ \A i \in 1 .. N : link[L + i] = e[i]
      /\ link[L + N + 1] = "/" /\ link[L + N + 2] = Hash
  <2> HIDE DEF e, L, N
  <2>1. link = LinkOf(head, to) /\ e = encodeURI(to) /\ L = Len(head) /\ N = Len(to)
    BY DEF e, L, N
  <2>2. LET x == LinkOf(head, to)
        IN /\ x \in Seq(Chars) /\ Len(x) = Len(head) + Len(to) + 2
           /\ \A i \in 1 .. Len(head) : x[i] = head[i]
           /\ \A i \in 1 .. Len(to) : x[Len(head) + i] = encodeURI(to)[i]
           /\ x[Len(head) + Len(to) + 1] = "/" /\ x[Len(head) + Len(to) + 2] = Hash
    BY MailedLinkParts
  <2> QED
    BY <1>2, <2>1, <2>2
<1> HIDE DEF e
<1>5. PICK n \in 0 .. L + N + 2 :
        /\ opened = SubSeq(link, 1, n)
        /\ \A i \in 1 .. n : link[i] \notin {"?", "#"}
        /\ n < L + N + 2 => link[n + 1] \in {"?", "#"}
  <2>1. link \in Seq(Chars) /\ Len(link) = L + N + 2
    BY <1>4
  <2>2. \E n \in 0 .. Len(link) :
          /\ opened = SubSeq(link, 1, n)
          /\ \A i \in 1 .. n : link[i] \notin {"?", "#"}
          /\ n < Len(link) => link[n + 1] \in {"?", "#"}
    BY <2>1, OpenedIs
  <2> HIDE DEF opened, L, N
  <2> QED
    BY <2>1, <2>2
<1> HIDE DEF opened, L
<1>0. N = Len(to) /\ L = Len(head)
  BY DEF L
<1> HIDE DEF N
<1>6. /\ opened \in Seq(Chars) /\ Len(opened) = n
      /\ \A i \in 1 .. n : opened[i] = link[i]
  <2>1. link \in Seq(Chars) /\ n \in 0 .. Len(link)
    BY <1>4
  <2>2. /\ SubSeq(link, 1, n) \in Seq(Chars) /\ Len(SubSeq(link, 1, n)) = n
        /\ \A i \in 1 .. n : SubSeq(link, 1, n)[i] = link[i]
    BY <2>1, HeadPiece
  <2>3. opened = SubSeq(link, 1, n)
    BY <1>5
  <2> QED
    BY <2>2, <2>3
<1>7. <<to, <<Hash>>>> \in Params(link, base, page) <=>
        /\ ~(Len(opened) <= L)
        /\ SubSeq(opened, 1, L) = head
        /\ \E i \in DOMAIN rest :
             /\ {j \in DOMAIN rest : rest[j] = "/"} = {i}
             /\ i > 1 /\ i < Len(rest)
             /\ to = decodeURI(SubSeq(rest, 1, i - 1))
             /\ <<Hash>> = SubSeq(rest, i + 1, Len(rest))
  <2> DEFINE cuts == {j \in DOMAIN rest : rest[j] = "/"}
             read == {<<decodeURI(SubSeq(rest, 1, i - 1)), SubSeq(rest, i + 1, Len(rest))>>
                        : i \in {j \in cuts : cuts = {j} /\ j > 1 /\ j < Len(rest)}}
  <2>1. Params(link, base, page) =
          IF Len(opened) <= L \/ SubSeq(opened, 1, L) # head THEN {} ELSE read
    BY DEF Params, opened, L
  <2> HIDE DEF rest
  <2>2. <<to, <<Hash>>>> \in read <=>
          \E i \in DOMAIN rest :
             /\ cuts = {i}
             /\ i > 1 /\ i < Len(rest)
             /\ to = decodeURI(SubSeq(rest, 1, i - 1))
             /\ <<Hash>> = SubSeq(rest, i + 1, Len(rest))
    OBVIOUS
  <2> HIDE DEF read
  <2> QED
    BY <2>1, <2>2
<1>8. ASSUME n > L
      PROVE  /\ rest \in Seq(Chars) /\ Len(rest) = n - L /\ DOMAIN rest = 1 .. n - L
             /\ \A i \in 1 .. n - L : rest[i] = link[L + i]
  <2>1. L + 1 \in 1 .. Len(opened) + 1 /\ n \in 0 .. Len(opened) /\ L + 1 <= n + 1
    BY <1>2, <1>4, <1>6, <1>8
  <2>2. /\ SubSeq(opened, L + 1, n) \in Seq(Chars)
        /\ Len(SubSeq(opened, L + 1, n)) = n - (L + 1) + 1
        /\ \A i \in 1 .. n - (L + 1) + 1 : SubSeq(opened, L + 1, n)[i] = opened[L + 1 + i - 1]
        /\ DOMAIN SubSeq(opened, L + 1, n) = 1 .. n - (L + 1) + 1
    <3>1. opened \in Seq(Chars)
      BY <1>6
    <3> QED
      BY <2>1, <3>1, Piece, SMTT(30)
  <2>3. n - (L + 1) + 1 = n - L
    BY <1>4
  <2>4. \A i \in 1 .. n - L : L + 1 + i - 1 = L + i /\ L + i \in 1 .. n
    BY <1>4
  <2>5. rest = SubSeq(opened, L + 1, n)
    BY <1>6
  <2> HIDE DEF rest
  <2>6. /\ rest \in Seq(Chars) /\ Len(rest) = n - L /\ DOMAIN rest = 1 .. n - L
        /\ \A i \in 1 .. n - L : rest[i] = opened[L + 1 + i - 1]
    BY <2>2, <2>3, <2>5
  <2> QED
    BY <1>6, <2>4, <2>6, ZenonT(60)
<1> HIDE DEF rest
<1>9. ASSUME \A i \in 1 .. N : to[i] \notin Separators
      PROVE  <<to, <<Hash>>>> \in Params(link, base, page)
  <2>1. n = L + N + 2
    <3> SUFFICES ASSUME n < L + N + 2 PROVE FALSE
      BY <1>2
    <3>1. link[n + 1] \in {"?", "#"}
      BY <1>5
    <3>2. CASE n + 1 <= L
      <4>1. n + 1 \in 1 .. L
        BY <1>2, <3>2
      <4>2. link[n + 1] = head[n + 1]
        BY <1>4, <4>1
      <4>3. head[n + 1] \notin {"?", "#"}
        BY <1>0, <4>1
      <4> QED
        BY <3>1, <4>2, <4>3
    <3>3. CASE n + 1 > L /\ n + 1 <= L + N
      <4>1. (n + 1) - L \in 1 .. N /\ L + ((n + 1) - L) = n + 1
        BY <1>2, <1>4, <3>3
      <4>2. link[n + 1] = e[(n + 1) - L]
        BY <1>4, <4>1
      <4>3. {"?", "#"} \subseteq Separators
        BY DEF Separators
      <4> QED
        BY <1>3, <1>9, <3>1, <4>1, <4>2, <4>3
    <3>4. CASE n + 1 = L + N + 1
      BY <1>4, <3>1, <3>4
    <3>5. CASE n + 1 = L + N + 2
      BY <1>1, <1>4, <3>1, <3>5 DEF Separators
    <3>6. n \in Nat /\ L \in Nat /\ N \in Nat
      BY <1>2
    <3> QED
      BY <3>2, <3>3, <3>4, <3>5, <3>6
  <2>2. /\ rest \in Seq(Chars) /\ Len(rest) = N + 2 /\ DOMAIN rest = 1 .. N + 2
        /\ \A i \in 1 .. N + 2 : rest[i] = link[L + i]
    <3>1. n > L /\ n - L = N + 2
      BY <1>2, <1>4, <2>1
    <3> QED
      BY <1>8, <3>1
  <2>3. \A i \in 1 .. N : rest[i] = e[i] /\ rest[i] # "/"
    <3>1. \A i \in 1 .. N : rest[i] = e[i]
      <4>1. \A i \in 1 .. N : i \in 1 .. N + 2
        BY <1>2
      <4> QED
        BY <1>4, <2>2, <4>1
    <3>2. "/" \in Separators
      BY DEF Separators
    <3> SUFFICES ASSUME NEW i \in 1 .. N PROVE rest[i] = e[i] /\ rest[i] # "/"
      OBVIOUS
    <3>3. e[i] = "/" <=> to[i] = "/"
      BY <1>3, <3>2
    <3> QED
      BY <1>9, <3>1, <3>2, <3>3
  <2>4. rest[N + 1] = "/" /\ rest[N + 2] = Hash /\ Hash # "/"
    <3>1. N + 1 \in 1 .. N + 2 /\ N + 2 \in 1 .. N + 2 /\ L + (N + 1) = L + N + 1 /\ L + (N + 2) = L + N + 2
      BY <1>2, <1>4
    <3> QED
      <4>1. rest[N + 1] = link[L + (N + 1)] /\ rest[N + 2] = link[L + (N + 2)]
        BY <2>2, <3>1
      <4>2. Hash # "/"
        BY <1>1 DEF Separators
      <4> QED
        BY <1>4, <3>1, <4>1, <4>2
  <2>5. {j \in DOMAIN rest : rest[j] = "/"} = {N + 1}
    <3>1. \A j \in 1 .. N + 2 : j \in 1 .. N \/ j = N + 1 \/ j = N + 2
      BY <1>2
    <3>2. N + 1 \in 1 .. N + 2
      BY <1>2
    <3> QED
      BY <2>2, <2>3, <2>4, <3>1, <3>2
  <2>6. to = decodeURI(SubSeq(rest, 1, N))
    <3> DEFINE q == SubSeq(rest, 1, N)
    <3>1. 1 \in 1 .. Len(rest) + 1 /\ N \in 0 .. Len(rest) /\ 1 <= N + 1 /\ N - 1 + 1 = N
      BY <1>2, <2>2
    <3>2. /\ DOMAIN q = 1 .. N - 1 + 1
          /\ \A i \in 1 .. N - 1 + 1 : q[i] = rest[1 + i - 1]
      BY <2>2, <3>1, Piece
    <3>3. \A i \in 1 .. N : 1 + i - 1 = i
      BY <1>2
    <3>4. DOMAIN q = 1 .. N /\ \A i \in 1 .. N : q[i] = e[i]
      BY <2>3, <3>1, <3>2, <3>3
    <3> HIDE DEF q
    <3>5. decodeURI(q) = [i \in 1 .. N |-> IF q[i] = "%20" THEN " " ELSE q[i]]
      BY <3>4 DEF decodeURI
    <3>6. \A i \in 1 .. N : (IF q[i] = "%20" THEN " " ELSE q[i]) = to[i]
      <4> SUFFICES ASSUME NEW i \in 1 .. N PROVE (IF q[i] = "%20" THEN " " ELSE q[i]) = to[i]
        OBVIOUS
      <4>1. to[i] # "%20"
        BY <1>0
      <4>2. q[i] = IF to[i] = " " THEN "%20" ELSE to[i]
        BY <1>3, <3>4
      <4> QED
        BY <4>1, <4>2
    <3>7. to = [i \in 1 .. N |-> to[i]]
      BY <1>2, LenProperties
    <3> QED
      BY <3>5, <3>6, <3>7 DEF q
  <2>7. <<Hash>> = SubSeq(rest, N + 2, N + 2)
    <3>1. N + 2 \in 1 .. Len(rest) + 1 /\ N + 2 \in 0 .. Len(rest) /\ N + 2 <= N + 2 + 1
          /\ N + 2 - (N + 2) + 1 = 1 /\ N + 2 + 1 - 1 = N + 2
      BY <1>2, <2>2
    <3>2. /\ SubSeq(rest, N + 2, N + 2) \in Seq(Chars) /\ Len(SubSeq(rest, N + 2, N + 2)) = 1
          /\ SubSeq(rest, N + 2, N + 2)[1] = Hash
      BY <2>2, <2>4, <3>1, Piece
    <3>3. <<Hash>> \in Seq(Chars) /\ Len(<<Hash>>) = 1 /\ <<Hash>>[1] = Hash
      BY <1>1
    <3> QED
      BY <3>2, <3>3, SeqEqual
  <2>8. SubSeq(opened, 1, L) = head
    <3>1. opened \in Seq(Chars) /\ L \in 0 .. Len(opened)
      BY <1>2, <1>6, <2>1
    <3>2. /\ SubSeq(opened, 1, L) \in Seq(Chars) /\ Len(SubSeq(opened, 1, L)) = L
          /\ \A i \in 1 .. L : SubSeq(opened, 1, L)[i] = opened[i]
      BY <3>1, HeadPiece
    <3>3. \A i \in 1 .. L : i \in 1 .. n
      BY <1>2, <2>1
    <3>4. \A i \in 1 .. L : SubSeq(opened, 1, L)[i] = head[i]
      BY <1>4, <1>6, <3>2, <3>3
    <3>5. Len(head) = L
      BY <1>0
    <3> QED
      BY <3>2, <3>4, <3>5, SeqEqual
  <2>9. N + 1 > 1 /\ N + 1 < Len(rest) /\ (N + 1) - 1 = N /\ (N + 1) + 1 = N + 2 /\ N + 1 \in DOMAIN rest
        /\ ~(Len(opened) <= L)
    BY <1>2, <1>4, <1>6, <2>1, <2>2
  <2> QED
    BY <1>7, <2>2, <2>5, <2>6, <2>7, <2>8, <2>9
<1>10. ASSUME <<to, <<Hash>>>> \in Params(link, base, page)
       PROVE  \A i \in 1 .. N : to[i] \notin Separators
  <2>1. n > L
    BY <1>4, <1>6, <1>7, <1>10
  <2>2. /\ rest \in Seq(Chars) /\ Len(rest) = n - L /\ DOMAIN rest = 1 .. n - L
        /\ \A i \in 1 .. n - L : rest[i] = link[L + i]
    BY <1>8, <2>1
  <2>3. PICK k \in 1 .. n - L :
          /\ {j \in DOMAIN rest : rest[j] = "/"} = {k}
          /\ k > 1 /\ k < n - L
          /\ to = decodeURI(SubSeq(rest, 1, k - 1))
          /\ <<Hash>> = SubSeq(rest, k + 1, n - L)
    BY <1>7, <1>10, <2>2
  <2>4. k = N + 1
    <3> DEFINE q == SubSeq(rest, 1, k - 1)
    <3>1. 1 \in 1 .. Len(rest) + 1 /\ k - 1 \in 0 .. Len(rest) /\ 1 <= k - 1 + 1
          /\ k - 1 - 1 + 1 = k - 1
      BY <1>4, <2>2, <2>3
    <3>2. DOMAIN q = 1 .. k - 1
      BY <2>2, <3>1, Piece
    <3> HIDE DEF q
    <3>3. DOMAIN decodeURI(q) = 1 .. k - 1
      BY <3>2 DEF decodeURI
    <3>4. 1 .. N = 1 .. k - 1
      BY <1>2, <2>3, <3>3 DEF q
    <3>5. N \in 1 .. N /\ k - 1 \in 1 .. k - 1
      BY <1>2, <2>3
    <3> QED
      BY <1>2, <3>4, <3>5
  <2>5. n = L + N + 2
    <3>1. k + 1 \in 1 .. Len(rest) + 1 /\ n - L \in 0 .. Len(rest) /\ k + 1 <= n - L + 1
      BY <1>4, <2>2, <2>3
    <3>2. Len(SubSeq(rest, k + 1, n - L)) = n - L - (k + 1) + 1
      <4>1. rest \in Seq(Chars)
        BY <2>2
      <4> QED
        BY <3>1, <4>1, Piece
    <3>3. Len(<<Hash>>) = 1
      OBVIOUS
    <3>4. n - L - (k + 1) + 1 = 1
      BY <2>3, <3>2, <3>3
    <3> QED
      BY <1>2, <1>4, <2>4, <3>4
  <2> SUFFICES ASSUME NEW i \in 1 .. N PROVE to[i] \notin Separators
    OBVIOUS
  <2>6. L + i \in 1 .. n /\ i \in 1 .. n - L /\ i # k
    BY <1>2, <1>4, <2>4, <2>5
  <2>7. e[i] \notin {"?", "#"}
    BY <1>4, <1>5, <2>6
  <2>8. e[i] # "/"
    <3>1. rest[i] = e[i]
      BY <1>4, <2>2, <2>6
    <3>2. i \in DOMAIN rest /\ i \notin {j \in DOMAIN rest : rest[j] = "/"}
      BY <2>2, <2>3, <2>6
    <3> QED
      BY <3>1, <3>2
  <2> QED
    BY <1>3, <2>7, <2>8 DEF Separators
<1> QED
  BY <1>0, <1>9, <1>10

\* The head of a link: base, page and a slash.
HeadOf(base, page) == <<base>> \o page \o <<"/">>

LEMMA HeadParts ==
  ASSUME NEW base \in STRING \ Separators, NEW page \in Seq(Chars),
         \A i \in 1 .. Len(page) : page[i] \notin {"?", "#"}
  PROVE  LET head == HeadOf(base, page)
         IN /\ head \in Seq(Chars) /\ Len(head) = Len(page) + 2
            /\ head[1] = base /\ \A i \in 1 .. Len(page) : head[1 + i] = page[i]
            /\ \A i \in 1 .. Len(head) : head[i] \notin {"?", "#"}
<1> DEFINE one == <<base>>
           last1 == <<"/">>
           f == one \o page
           head == f \o last1
<1>1. one \in Seq(Chars) /\ Len(one) = 1 /\ one[1] = base
  BY DEF Chars
<1>2. last1 \in Seq(Chars) /\ Len(last1) = 1 /\ last1[1] = "/"
  BY DEF Chars
<1>3. Len(page) \in Nat
  BY LenProperties
<1> HIDE DEF one, last1
<1>4. /\ f \in Seq(Chars) /\ Len(f) = 1 + Len(page)
      /\ \A i \in 1 .. 1 + Len(page) : f[i] = IF i <= 1 THEN one[i] ELSE page[i - 1]
  <2>1. one \in Seq(Chars)
    BY <1>1
  <2>2. /\ f \in Seq(Chars) /\ Len(f) = Len(one) + Len(page)
        /\ \A i \in 1 .. Len(one) + Len(page) : f[i] = IF i <= Len(one) THEN one[i] ELSE page[i - Len(one)]
    BY <2>1, ConcatProperties
  <2>3. Len(one) = 1
    BY <1>1
  <2> HIDE DEF f
  <2> QED
    BY <2>2, <2>3
<1> HIDE DEF f
<1>5. /\ head \in Seq(Chars) /\ Len(head) = Len(f) + 1
      /\ \A i \in 1 .. Len(f) + 1 : head[i] = IF i <= Len(f) THEN f[i] ELSE last1[i - Len(f)]
  <2>1. f \in Seq(Chars) /\ last1 \in Seq(Chars)
    BY <1>2, <1>4
  <2>2. /\ head \in Seq(Chars) /\ Len(head) = Len(f) + Len(last1)
        /\ \A i \in 1 .. Len(f) + Len(last1) : head[i] = IF i <= Len(f) THEN f[i] ELSE last1[i - Len(f)]
    BY <2>1, ConcatProperties
  <2>3. Len(last1) = 1
    BY <1>2
  <2> HIDE DEF head
  <2> QED
    BY <2>2, <2>3
<1> HIDE DEF head
<1>6. head[1] = base
  BY <1>1, <1>3, <1>4, <1>5
<1>7. \A i \in 1 .. Len(page) : head[1 + i] = page[i]
  BY <1>3, <1>4, <1>5
<1>8. head[Len(page) + 2] = "/"
  <2>1. Len(page) + 2 \in 1 .. Len(f) + 1 /\ ~(Len(page) + 2 <= Len(f)) /\ Len(page) + 2 - Len(f) = 1
    BY <1>3, <1>4
  <2> QED
    BY <1>2, <1>5, <2>1
<1>9. \A i \in 1 .. Len(page) + 2 : head[i] \notin {"?", "#"}
  <2> SUFFICES ASSUME NEW i \in 1 .. Len(page) + 2 PROVE head[i] \notin {"?", "#"}
    OBVIOUS
  <2>1. CASE i = 1
    BY <1>6, <2>1 DEF Separators
  <2>2. CASE i > 1 /\ i < Len(page) + 2
    <3>1. i - 1 \in 1 .. Len(page) /\ 1 + (i - 1) = i
      BY <1>3, <2>2
    <3> QED
      BY <1>7, <3>1
  <2>3. CASE i = Len(page) + 2
    BY <1>8, <2>3
  <2> QED
    BY <1>3, <2>1, <2>2, <2>3
<1>10. Len(head) = Len(page) + 2
  BY <1>3, <1>4, <1>5
<1>11. head = HeadOf(base, page)
  BY DEF head, f, one, last1, HeadOf
<1> QED
  BY <1>5, <1>6, <1>7, <1>9, <1>10, <1>11

\* The text of a base without slashes, query and fragment is its name.
LEMMA TextIsName ==
  ASSUME NEW b, b.query = <<>>, b.slashes = 0, b.name \in Chars
  PROVE  Text(b) = <<b.name>>
<1> DEFINE none == [i \in 1 .. 0 |-> "/"]
           one == <<b.name>>
<1>1. none \in [1 .. 0 -> Chars]
  BY DEF Chars
<1>2. none \in Seq(Chars) /\ Len(none) = 0
  <2>1. none \in Seq(Chars)
    BY <1>1, SeqDef
  <2>2. DOMAIN none = 1 .. 0
    OBVIOUS
  <2> HIDE DEF none
  <2>3. DOMAIN none = 1 .. Len(none) /\ Len(none) \in Nat
    BY <2>1, LenProperties
  <2> QED
    BY <2>1, <2>2, <2>3
<1>3. none = <<>>
  <2> HIDE DEF none
  <2> QED
    BY <1>2, EmptySeq
<1>4. one \in Seq(Chars)
  OBVIOUS
<1>5. Text(b) = (one \o <<>>) \o none
  BY DEF Text
<1> HIDE DEF one, none
<1>6. one \o <<>> = one
  BY <1>4, ConcatEmptySeq
<1> QED
  BY <1>3, <1>5, <1>6 DEF one

\* LinksLeadBack, of one mail: what is asked of its base, and that its link is read
\* exactly when nothing breaks it.
Unbroken(m) ==
  /\ \A i \in DOMAIN m.to : m.to[i] \notin Breaking(m.kind)
  /\ m.base.query = <<>>
  /\ m.kind # "link" => m.base.slashes = 0

LeadsBack(m) ==
  m.link # <<>> =>
    /\ isHttpLinkBase(m.base)
    /\ (<<m.to, <<Hash>>>> \in Read(m)) = Unbroken(m)

LEMMA Judged ==
  ASSUME NEW m, isHttpLinkBase(m.base), <<m.to, <<Hash>>>> \in Read(m) <=> Unbroken(m)
  PROVE  LeadsBack(m)
<1> DEFINE reads == <<m.to, <<Hash>>>> \in Read(m)
           fits == Unbroken(m)
<1>1. reads \in BOOLEAN
  OBVIOUS
<1>2. fits \in BOOLEAN
  BY DEF Unbroken
<1>3. reads <=> fits
  OBVIOUS
<1> HIDE DEF reads, fits
<1>4. reads = fits
  BY <1>1, <1>2, <1>3
<1> QED
  BY <1>4 DEF LeadsBack, reads, fits

\* What LinksAssumption says of an address, in terms of Chars.
LEMMA AddressParts ==
  ASSUME NEW to \in Addresses
  PROVE  /\ to \in Seq(Chars) /\ to # <<>> /\ DOMAIN to = 1 .. Len(to)
         /\ \A i \in 1 .. Len(to) : to[i] # "%20"
<1>1. to \in Seq(Chars) /\ to # <<>> /\ \A i \in DOMAIN to : to[i] # "%20"
  BY LinksAssumption, StringsAreChars
<1>2. DOMAIN to = 1 .. Len(to)
  BY <1>1, LenProperties
<1> QED
  BY <1>1, <1>2

\* A link whose head is the base's name and the page.
LEMMA HeadIsRead ==
  ASSUME NEW base \in STRING \ Separators,
         NEW page \in Seq(Chars), \A i \in 1 .. Len(page) : page[i] \notin {"?", "#"},
         NEW to \in Addresses
  PROVE  <<to, <<Hash>>>> \in Params(LinkOf(HeadOf(base, page), to), base, page)
           <=> \A i \in DOMAIN to : to[i] \notin Separators
<1> DEFINE head == HeadOf(base, page)
           link == LinkOf(head, to)
<1>2. /\ to \in Seq(Chars) /\ to # <<>> /\ DOMAIN to = 1 .. Len(to)
      /\ \A i \in 1 .. Len(to) : to[i] # "%20"
  BY AddressParts
<1>3. head \in Seq(Chars) /\ \A i \in 1 .. Len(head) : head[i] \notin {"?", "#"}
  BY HeadParts
<1>4. head = <<base>> \o page \o <<"/">>
  BY DEF HeadOf
<1> HIDE DEF head
<1>5. link = LinkOf(head, to)
  OBVIOUS
<1> HIDE DEF link
<1>6. <<to, <<Hash>>>> \in Params(link, base, page)
        <=> \A i \in 1 .. Len(to) : to[i] \notin Separators
  BY <1>2, <1>3, <1>4, <1>5, ReadsBack
<1> QED
  BY <1>2, <1>6 DEF link, head

\* Two sequences, one after the other.
LEMMA Two ==
  ASSUME NEW s \in Seq(Chars), NEW t \in Seq(Chars)
  PROVE  /\ s \o t \in Seq(Chars) /\ Len(s \o t) = Len(s) + Len(t)
         /\ Len(s) \in Nat /\ Len(t) \in Nat
         /\ \A i \in 1 .. Len(s) : (s \o t)[i] = s[i]
         /\ \A i \in 1 .. Len(t) : (s \o t)[Len(s) + i] = t[i]
<1> DEFINE f == s \o t
<1>1. Len(s) \in Nat /\ Len(t) \in Nat
  BY LenProperties
<1>2. /\ f \in Seq(Chars) /\ Len(f) = Len(s) + Len(t)
      /\ \A i \in 1 .. Len(s) + Len(t) : f[i] = IF i <= Len(s) THEN s[i] ELSE t[i - Len(s)]
  BY ConcatProperties
<1> HIDE DEF f
<1>3. \A i \in 1 .. Len(s) : f[i] = s[i]
  BY <1>1, <1>2
<1>4. \A i \in 1 .. Len(t) : f[Len(s) + i] = t[i]
  <2> SUFFICES ASSUME NEW i \in 1 .. Len(t) PROVE f[Len(s) + i] = t[i]
    OBVIOUS
  <2>1. /\ Len(s) + i \in 1 .. Len(s) + Len(t) /\ ~(Len(s) + i <= Len(s))
        /\ (Len(s) + i) - Len(s) = i
    BY <1>1
  <2> QED
    BY <1>2, <2>1
<1> QED
  BY <1>1, <1>2, <1>3, <1>4 DEF f

\* The slashes that end a base.
LEMMA SlashesAre ==
  ASSUME NEW n \in Nat
  PROVE  LET z == [i \in 1 .. n |-> "/"]
         IN z \in Seq(Chars) /\ Len(z) = n /\ \A i \in 1 .. n : z[i] = "/"
<1> DEFINE z == [i \in 1 .. n |-> "/"]
<1>1. z \in [1 .. n -> Chars]
  BY DEF Chars
<1>2. z \in Seq(Chars)
  BY <1>1, SeqDef
<1>3. DOMAIN z = 1 .. n /\ \A i \in 1 .. n : z[i] = "/"
  OBVIOUS
<1> HIDE DEF z
<1>4. DOMAIN z = 1 .. Len(z) /\ Len(z) \in Nat
  BY <1>2, LenProperties
<1>5. Len(z) = n
  BY <1>3, <1>4
<1> QED
  BY <1>2, <1>3, <1>5 DEF z

\* A text that comes to a query or a fragment after slashes alone.
Cut(s, n) ==
  /\ n >= 1 /\ n < Len(s) /\ s[n + 1] \in {"?", "#"}
  /\ \A i \in 2 .. n : s[i] = "/"

\* So does a base that has a query or a fragment, whatever slashes end it.
CutText(b, n) == <<b.name>> \o b.query \o [i \in 1 .. n |-> "/"]

LEMMA CutBase ==
  ASSUME NEW b \in Bases, b.query # <<>>, NEW slashes \in Nat
  PROVE  CutText(b, slashes) \in Seq(Chars) /\ \E n \in Nat : Cut(CutText(b, slashes), n)
<1> DEFINE one == <<b.name>>
           q == b.query
           z == [i \in 1 .. slashes |-> "/"]
           k == Len(q)
           text == CutText(b, slashes)
<1>1. b.name \in Chars /\ q \in Seq(Chars)
  BY LinksAssumption, StringsAreChars DEF Chars
<1>2. /\ q # <<>> /\ q[k] \in {"?", "#"} /\ \A i \in 1 .. k - 1 : q[i] = "/"
  BY LinksAssumption
<1>3. k \in Nat /\ k >= 1
  BY <1>1, <1>2, LenProperties, EmptySeq
<1>4. one \in Seq(Chars) /\ Len(one) = 1
  BY <1>1
<1>5. z \in Seq(Chars)
  BY SlashesAre
<1>6. text = (one \o q) \o z
  BY DEF CutText
<1> HIDE DEF one, z, text, k
<1>7. /\ one \o q \in Seq(Chars) /\ Len(one \o q) = 1 + k
      /\ \A i \in 1 .. k : (one \o q)[1 + i] = q[i]
  <2>1. /\ one \o q \in Seq(Chars) /\ Len(one \o q) = Len(one) + Len(q)
        /\ \A i \in 1 .. Len(q) : (one \o q)[Len(one) + i] = q[i]
    BY <1>1, <1>4, Two
  <2> QED
    BY <1>4, <2>1 DEF k
<1> HIDE DEF q
<1>8. /\ text \in Seq(Chars) /\ Len(text) >= 1 + k
      /\ \A i \in 1 .. 1 + k : text[i] = (one \o q)[i]
  <2> DEFINE f == one \o q
  <2>1. f \in Seq(Chars) /\ Len(f) = 1 + k
    BY <1>7
  <2> HIDE DEF f
  <2>2. /\ f \o z \in Seq(Chars) /\ Len(f \o z) = Len(f) + Len(z) /\ Len(z) \in Nat
        /\ \A i \in 1 .. Len(f) : (f \o z)[i] = f[i]
    BY <1>5, <2>1, Two
  <2>3. text = f \o z
    BY <1>6 DEF f
  <2>4. /\ text \in Seq(Chars) /\ Len(text) >= 1 + k
        /\ \A i \in 1 .. 1 + k : text[i] = f[i]
    BY <1>3, <2>1, <2>2, <2>3
  <2> QED
    BY <2>4 DEF f
<1>9. text[k + 1] \in {"?", "#"}
  <2>1. k + 1 \in 1 .. 1 + k /\ k \in 1 .. k /\ k + 1 = 1 + k
    BY <1>3
  <2> QED
    BY <1>2, <1>7, <1>8, <2>1
<1>10. \A i \in 2 .. k : text[i] = "/"
  <2> SUFFICES ASSUME NEW i \in 2 .. k PROVE text[i] = "/"
    OBVIOUS
  <2>1. i \in 1 .. 1 + k /\ i - 1 \in 1 .. k /\ i - 1 \in 1 .. k - 1 /\ 1 + (i - 1) = i
    BY <1>3
  <2> QED
    BY <1>2, <1>7, <1>8, <2>1
<1>11. Len(text) \in Nat
  BY <1>8, LenProperties
<1>12. Cut(text, k)
  BY <1>3, <1>8, <1>9, <1>10, <1>11 DEF Cut
<1> QED
  BY <1>3, <1>8, <1>12 DEF text

LEMMA CutStays ==
  ASSUME NEW s \in Seq(Chars), NEW t \in Seq(Chars), NEW n \in Nat, Cut(s, n)
  PROVE  s \o t \in Seq(Chars) /\ Cut(s \o t, n)
<1>1. /\ s \o t \in Seq(Chars) /\ Len(s \o t) = Len(s) + Len(t)
      /\ Len(s) \in Nat /\ Len(t) \in Nat
      /\ \A i \in 1 .. Len(s) : (s \o t)[i] = s[i]
  BY Two
<1>2. n >= 1 /\ n < Len(s) /\ s[n + 1] \in {"?", "#"} /\ \A i \in 2 .. n : s[i] = "/"
  BY DEF Cut
<1>3. n + 1 \in 1 .. Len(s) /\ \A i \in 2 .. n : i \in 1 .. Len(s)
  BY <1>1, <1>2
<1>4. n < Len(s \o t)
  BY <1>1, <1>2
<1> QED
  BY <1>1, <1>2, <1>3, <1>4 DEF Cut

\* And every link that goes on from there.
LEMMA CutLink ==
  ASSUME NEW head \in Seq(Chars), NEW n \in Nat, Cut(head, n), NEW to \in Addresses
  PROVE  LinkOf(head, to) \in Seq(Chars) /\ Cut(LinkOf(head, to), n)
<1> DEFINE e == encodeURI(to)
           t == <<"/", Hash>>
           f == head \o e
<1>1. e \in Seq(Chars)
  BY AddressParts, EncodedParts
<1>2. t \in Seq(Chars)
  BY LinksAssumption DEF Chars
<1> HIDE DEF e, t
<1>3. f \in Seq(Chars) /\ Cut(f, n)
  BY <1>1, CutStays
<1> HIDE DEF f
<1>4. f \o t \in Seq(Chars) /\ Cut(f \o t, n)
  BY <1>2, <1>3, CutStays
<1> QED
  BY <1>4 DEF LinkOf, Joined, f, e, t

\* Before the cut there are slashes only, and no page reads an address in those.
LEMMA CutIsNotRead ==
  ASSUME NEW link \in Seq(Chars), NEW n \in Nat, Cut(link, n),
         NEW base \in STRING \ Separators,
         NEW page \in Seq(Chars), \A i \in 1 .. Len(page) : page[i] \notin {"?", "#"},
         NEW x
  PROVE  x \notin Params(link, base, page)
<1> DEFINE head == <<base>> \o page \o <<"/">>
           opened == Opened(link)
           L == Len(head)
           rest == SubSeq(opened, L + 1, Len(opened))
           cuts == {i \in DOMAIN rest : rest[i] = "/"}
<1>1. PICK m \in 0 .. Len(link) : /\ opened = SubSeq(link, 1, m)
                                  /\ \A i \in 1 .. m : link[i] \notin {"?", "#"}
  BY OpenedIs
<1>2. Len(opened) = m /\ opened \in Seq(Chars) /\ \A i \in 1 .. m : opened[i] = link[i]
  <2>1. /\ SubSeq(link, 1, m) \in Seq(Chars) /\ Len(SubSeq(link, 1, m)) = m
        /\ \A i \in 1 .. m : SubSeq(link, 1, m)[i] = link[i]
    BY HeadPiece
  <2> QED
    BY <1>1, <2>1
<1>3. m <= n
  <2> SUFFICES ASSUME m > n PROVE FALSE
    BY <1>1
  <2>1. n + 1 \in 1 .. m
    BY <1>1
  <2> QED
    BY <1>1, <2>1 DEF Cut
<1>4. L \in Nat /\ L >= 2
  <2>1. L = Len(page) + 2
    BY HeadParts DEF HeadOf
  <2>2. Len(page) \in Nat
    BY LenProperties
  <2> HIDE DEF L
  <2> QED
    BY <2>1, <2>2
<1> HIDE DEF head, opened, L
<1>5. ASSUME ~(Len(opened) <= L), NEW i \in cuts, cuts = {i}, i > 1
      PROVE  FALSE
  <2>1. L + 1 \in 1 .. Len(opened) + 1 /\ m \in 0 .. Len(opened) /\ L + 1 <= m + 1
    BY <1>2, <1>4, <1>5
  <2>2. /\ \A j \in 1 .. m - (L + 1) + 1 : SubSeq(opened, L + 1, m)[j] = opened[L + 1 + j - 1]
        /\ DOMAIN SubSeq(opened, L + 1, m) = 1 .. m - (L + 1) + 1
    <3>1. opened \in Seq(Chars)
      BY <1>2
    <3> QED
      BY <2>1, <3>1, Piece
  <2>3. rest = SubSeq(opened, L + 1, m)
    BY <1>2
  <2> HIDE DEF rest
  <2>4. 1 \in 1 .. m - (L + 1) + 1 /\ L + 1 + 1 - 1 = L + 1 /\ L + 1 \in 1 .. m /\ L + 1 \in 2 .. n
    BY <1>2, <1>3, <1>4, <1>5
  <2>5. link[L + 1] = "/"
    BY <2>4 DEF Cut
  <2>6. rest[1] = "/" /\ 1 \in DOMAIN rest
    <3>1. opened[L + 1] = "/"
      BY <1>2, <2>4, <2>5
    <3>2. rest[1] = opened[L + 1 + 1 - 1] /\ 1 \in DOMAIN rest
      BY <2>2, <2>3, <2>4
    <3> QED
      BY <2>4, <3>1, <3>2
  <2>7. 1 \in cuts
    BY <2>6
  <2> QED
    BY <1>5, <2>7
<1> HIDE DEF rest
<1>6. Params(link, base, page) =
        IF Len(opened) <= L \/ SubSeq(opened, 1, L) # head THEN {}
        ELSE {<<decodeURI(SubSeq(rest, 1, i - 1)), SubSeq(rest, i + 1, Len(rest))>>
                : i \in {j \in cuts : cuts = {j} /\ j > 1 /\ j < Len(rest)}}
  BY DEF Params, opened, head, L, rest
<1>7. ASSUME ~(Len(opened) <= L)
      PROVE  {j \in cuts : cuts = {j} /\ j > 1 /\ j < Len(rest)} = {}
  BY <1>5, <1>7
<1> HIDE DEF cuts
<1>8. Params(link, base, page) = {}
  BY <1>6, <1>7
<1> QED
  BY <1>8

\* verifyMessage and resetMessage.
LEMMA LinkMessageLeadsBack ==
  ASSUME NEW b \in Bases, NEW p \in Paths, NEW to \in Addresses, NEW m \in LinkMessage(to, b, p)
  PROVE  LeadsBack(m)
<1>1. PICK l \in confirmationLink(b, p.written, to) : m = Mail("link", to, b, p.page, l)
  BY DEF LinkMessage
<1>2. isHttpLinkBase(b) /\ httpLinkBase(b) = {b}
  BY <1>1 DEF confirmationLink, httpLinkBase, Thrown
<1> DEFINE c == stripTrailingSlashes(b)
           start == Text(c) \o LinkPath(p.written) \o <<"/">>
<1>3. l = LinkOf(start, to)
  BY <1>1, <1>2 DEF confirmationLink, LinkOf, Joined
<1>4. /\ b.name \in STRING \ Separators /\ c.name = b.name /\ c.slashes = 0 /\ c.query = b.query
  BY LinksAssumption DEF stripTrailingSlashes
<1>5. LinkPath(p.written) = p.page
  BY LinkPathIsPage
<1>6. p.page \in Seq(Chars) /\ \A i \in 1 .. Len(p.page) : p.page[i] \notin {"?", "#"}
  <2>1. p.page \in Seq(Chars) /\ \A i \in DOMAIN p.page : p.page[i] \notin {"?", "#"}
    BY LinksAssumption, StringsAreChars
  <2> QED
    BY <2>1, LenProperties
<1>7. /\ m.to = to /\ m.link = l /\ m.page = p.page /\ m.kind = "link" /\ m.base = b
  BY <1>1 DEF Mail
<1>8. Read(m) = Params(l, b.name, p.page)
  BY <1>7 DEF Read
<1>9. Unbroken(m) <=> (\A i \in DOMAIN to : to[i] \notin Separators) /\ b.query = <<>>
  BY <1>7 DEF Unbroken, Breaking
<1>10. <<to, <<Hash>>>> \in Params(l, b.name, p.page)
         <=> (\A i \in DOMAIN to : to[i] \notin Separators) /\ b.query = <<>>
  <2>1. CASE b.query = <<>>
    <3>1. Text(c) = <<b.name>>
      <4>1. b.name \in Chars /\ c.query = <<>>
        BY <1>4, <2>1 DEF Chars
      <4> HIDE DEF c
      <4> QED
        BY <1>4, <4>1, TextIsName
    <3>2. start = HeadOf(b.name, p.page)
      BY <1>5, <3>1 DEF HeadOf
    <3> HIDE DEF start
    <3>3. <<to, <<Hash>>>> \in Params(LinkOf(HeadOf(b.name, p.page), to), b.name, p.page)
            <=> \A i \in DOMAIN to : to[i] \notin Separators
      BY <1>4, <1>6, HeadIsRead
    <3> QED
      BY <1>3, <2>1, <3>2, <3>3
  <2>2. CASE b.query # <<>>
    <3> DEFINE text == Text(c)
               page == p.page
               slash == <<"/">>
    <3>1. text = CutText(b, 0)
      BY <1>4 DEF Text, CutText
    <3>2. text \in Seq(Chars) /\ \E n \in Nat : Cut(text, n)
      BY <2>2, <3>1, CutBase
    <3>3. start = (text \o page) \o slash
      BY <1>5
    <3>4. slash \in Seq(Chars) /\ page \in Seq(Chars)
      BY <1>6 DEF Chars
    <3> HIDE DEF start, text, page, slash, c
    <3>5. PICK n \in Nat : Cut(text, n)
      BY <3>2
    <3>6. text \o page \in Seq(Chars) /\ Cut(text \o page, n)
      BY <3>2, <3>4, <3>5, CutStays
    <3>7. start \in Seq(Chars) /\ Cut(start, n)
      BY <3>3, <3>4, <3>6, CutStays
    <3>8. l \in Seq(Chars) /\ Cut(l, n)
      BY <1>3, <3>7, CutLink
    <3>9. <<to, <<Hash>>>> \notin Params(l, b.name, p.page)
      BY <1>4, <1>6, <3>8, CutIsNotRead
    <3> QED
      BY <2>2, <3>9
  <2> QED
    BY <2>1, <2>2
<1>11. isHttpLinkBase(m.base) /\ (<<m.to, <<Hash>>>> \in Read(m) <=> Unbroken(m))
  <2> HIDE DEF start, c
  <2> QED
    BY <1>2, <1>7, <1>8, <1>9, <1>10
<1> QED
  BY <1>11, Judged

\* changeVerifyMessage, on a base without slashes at its end.
LEMMA ChangeHead ==
  ASSUME NEW b \in Bases, b.query = <<>>, b.slashes = 0
  PROVE  Text(b) \o <<"/", "change", "/">> = HeadOf(b.name, <<"/", "change">>)
<1> DEFINE one == <<b.name>>
           page == <<"/", "change">>
           slash == <<"/">>
           suffix == <<"/", "change", "/">>
<1>1. b.name \in Chars
  BY LinksAssumption DEF Chars
<1>2. Text(b) = one
  BY <1>1, TextIsName
<1>3. one \in Seq(Chars) /\ page \in Seq(Chars) /\ slash \in Seq(Chars) /\ suffix \in Seq(Chars)
  BY <1>1 DEF Chars
<1>4. page \o slash = suffix
  <2>1. /\ Len(page) = 2 /\ Len(slash) = 1 /\ Len(suffix) = 3
        /\ page[1] = "/" /\ page[2] = "change" /\ slash[1] = "/"
        /\ suffix[1] = "/" /\ suffix[2] = "change" /\ suffix[3] = "/"
    OBVIOUS
  <2> HIDE DEF page, slash, suffix
  <2>2. /\ page \o slash \in Seq(Chars) /\ Len(page \o slash) = Len(page) + Len(slash)
        /\ \A i \in 1 .. Len(page) + Len(slash) :
             (page \o slash)[i] = IF i <= Len(page) THEN page[i] ELSE slash[i - Len(page)]
    BY <1>3, ConcatProperties
  <2>3. (page \o slash)[1] = "/" /\ (page \o slash)[2] = "change" /\ (page \o slash)[3] = "/"
    BY <2>1, <2>2
  <2>4. Len(page \o slash) = 3
    BY <2>1, <2>2
  <2>5. \A i \in 1 .. 3 : (page \o slash)[i] = suffix[i]
    <3>1. \A i \in 1 .. 3 : i = 1 \/ i = 2 \/ i = 3
      OBVIOUS
    <3> QED
      BY <2>1, <2>3, <3>1
  <2> QED
    BY <1>3, <2>1, <2>2, <2>4, <2>5, SeqEqual
<1> HIDE DEF one, page, slash, suffix
<1>5. (one \o page) \o slash = one \o (page \o slash)
  BY <1>3, ConcatAssociative, SMTT(30)
<1>6. Text(b) \o suffix = (one \o page) \o slash
  BY <1>2, <1>4, <1>5
<1> QED
  BY <1>6 DEF one, page, slash, suffix, HeadOf

\* On a base with slashes: one of them stands where the name of the page should.
LEMMA SlashedHead ==
  ASSUME NEW b \in Bases, b.query = <<>>, b.slashes > 0,
         NEW suffix \in Seq(Chars), Len(suffix) >= 2, suffix[1] = "/"
  PROVE  LET head == Text(b) \o suffix
         IN head \in Seq(Chars) /\ Len(head) >= 3 /\ head[3] = "/"
<1> DEFINE one == <<b.name>>
           s == b.slashes
           z == [i \in 1 .. s |-> "/"]
           f == one \o z
           head == f \o suffix
<1>1. b.name \in Chars /\ s \in Nat /\ s >= 1
  BY LinksAssumption DEF Chars
<1>2. one \in Seq(Chars) /\ Len(one) = 1
  BY <1>1
<1>3. one \o <<>> = one
  BY <1>2, ConcatEmptySeq
<1>4. Text(b) = f
  BY <1>3 DEF Text
<1> HIDE DEF one, s
<1>5. z \in Seq(Chars) /\ Len(z) = s /\ \A i \in 1 .. s : z[i] = "/"
  BY <1>1, SlashesAre
<1> HIDE DEF z
<1>6. /\ f \in Seq(Chars) /\ Len(f) = Len(one) + Len(z)
      /\ \A i \in 1 .. Len(z) : f[Len(one) + i] = z[i]
  BY <1>2, <1>5, Two
<1> HIDE DEF f
<1>7. /\ head \in Seq(Chars) /\ Len(head) = Len(f) + Len(suffix)
      /\ \A i \in 1 .. Len(f) : head[i] = f[i]
      /\ \A i \in 1 .. Len(suffix) : head[Len(f) + i] = suffix[i]
  BY <1>6, Two
<1> HIDE DEF head
<1>8. Len(f) = 1 + s /\ \A i \in 1 .. s : f[1 + i] = "/"
  BY <1>1, <1>2, <1>5, <1>6
<1>9. Len(suffix) \in Nat
  BY LenProperties
<1>10. Len(head) >= 3
  BY <1>1, <1>7, <1>8, <1>9
<1>11. CASE s = 1
  <2>1. 1 \in 1 .. Len(suffix) /\ Len(f) + 1 = 3
    BY <1>8, <1>9, <1>11
  <2> QED
    BY <1>4, <1>7, <1>10, <2>1 DEF head
<1>12. CASE s > 1
  <2>1. 2 \in 1 .. s /\ 1 + 2 = 3 /\ 3 \in 1 .. Len(f)
    BY <1>1, <1>8, <1>12
  <2>2. head[3] = "/"
    BY <1>7, <1>8, <2>1
  <2> QED
    BY <1>4, <1>7, <1>10, <2>2 DEF head
<1> QED
  BY <1>1, <1>11, <1>12

\* A link with a slash for the name of the page is not read.
LEMMA OffIsNotRead ==
  ASSUME NEW link \in Seq(Chars), NEW base \in STRING \ Separators, link[3] = "/", NEW x
  PROVE  x \notin Params(link, base, <<"/", "change">>)
<1> DEFINE page == <<"/", "change">>
           head == HeadOf(base, page)
           opened == Opened(link)
<1>1. /\ page \in Seq(Chars) /\ Len(page) = 2 /\ page[2] = "change"
      /\ \A i \in 1 .. Len(page) : page[i] \notin {"?", "#"}
  BY DEF Chars
<1> HIDE DEF page
<1>2. head \in Seq(Chars) /\ Len(head) = 4 /\ head[3] = "change"
  <2>1. /\ head \in Seq(Chars) /\ Len(head) = Len(page) + 2
        /\ \A i \in 1 .. Len(page) : head[1 + i] = page[i]
    <3>1. page \in Seq(Chars) /\ \A i \in 1 .. Len(page) : page[i] \notin {"?", "#"}
      BY <1>1
    <3> QED
      BY <3>1, HeadParts
  <2>2. 2 \in 1 .. Len(page) /\ 1 + 2 = 3
    BY <1>1
  <2> QED
    BY <1>1, <2>1, <2>2
<1>3. PICK n \in 0 .. Len(link) : opened = SubSeq(link, 1, n)
  BY OpenedIs
<1>4. Len(opened) = n /\ opened \in Seq(Chars) /\ \A i \in 1 .. n : opened[i] = link[i]
  <2>1. /\ SubSeq(link, 1, n) \in Seq(Chars) /\ Len(SubSeq(link, 1, n)) = n
        /\ \A i \in 1 .. n : SubSeq(link, 1, n)[i] = link[i]
    BY HeadPiece
  <2> QED
    BY <1>3, <2>1
<1> HIDE DEF opened, head
<1>5. ASSUME ~(Len(opened) <= 4) PROVE SubSeq(opened, 1, 4) # head
  <2>1. 4 \in 0 .. Len(opened) /\ 3 \in 1 .. n /\ 3 \in 1 .. 4
    BY <1>4, <1>5, LenProperties
  <2>2. \A i \in 1 .. 4 : SubSeq(opened, 1, 4)[i] = opened[i]
    BY <1>4, <2>1, HeadPiece
  <2>3. SubSeq(opened, 1, 4)[3] = "/"
    BY <1>4, <2>1, <2>2
  <2> QED
    BY <1>2, <2>3
<1>6. Len(opened) <= Len(head) \/ SubSeq(opened, 1, Len(head)) # head
  BY <1>2, <1>5
<1>7. Params(link, base, page) = {}
  BY <1>6 DEF Params, opened, head, HeadOf
<1> QED
  BY <1>7 DEF page

LEMMA ChangeMessageLeadsBack ==
  ASSUME appDomain \in Bases, NEW to \in Addresses, NEW m \in changeVerifyMessage(to)
  PROVE  LeadsBack(m)
<1> DEFINE b == appDomain
           page == <<"/", "change">>
           suffix == <<"/", "change", "/">>
           text == Text(b)
           head == text \o suffix
           link == LinkOf(head, to)
<1>1. isHttpLinkBase(b) /\ m = Mail("change", to, b, page, link)
  BY DEF changeVerifyMessage, httpLinkBase, Thrown, LinkOf, Joined
<1>2. b.name \in STRING \ Separators /\ b.slashes \in Nat
  BY LinksAssumption
<1>3. m.to = to /\ m.link = link /\ m.page = page /\ m.kind = "change" /\ m.base = b
  BY <1>1 DEF Mail
<1>4. /\ page \in Seq(Chars) /\ \A i \in 1 .. Len(page) : page[i] \notin {"?", "#"}
      /\ suffix \in Seq(Chars) /\ Len(suffix) >= 2 /\ suffix[1] = "/"
  BY DEF Chars
<1>5. Read(m) = Params(link, b.name, page)
  BY <1>3 DEF Read
<1>6. Unbroken(m) <=> /\ \A i \in DOMAIN to : to[i] \notin Separators
                      /\ b.query = <<>> /\ b.slashes = 0
  BY <1>3 DEF Unbroken, Breaking
<1>7. <<to, <<Hash>>>> \in Params(link, b.name, page)
        <=> /\ \A i \in DOMAIN to : to[i] \notin Separators
            /\ b.query = <<>> /\ b.slashes = 0
  <2>1. CASE b.query = <<>> /\ b.slashes = 0
    <3>1. head = HeadOf(b.name, page)
      BY <2>1, ChangeHead
    <3> HIDE DEF head, page
    <3>2. <<to, <<Hash>>>> \in Params(LinkOf(HeadOf(b.name, page), to), b.name, page)
            <=> \A i \in DOMAIN to : to[i] \notin Separators
      BY <1>2, <1>4, HeadIsRead
    <3> QED
      BY <2>1, <3>1, <3>2
  <2>2. CASE b.query = <<>> /\ b.slashes > 0
    <3> HIDE DEF suffix
    <3>1. head \in Seq(Chars) /\ Len(head) >= 3 /\ head[3] = "/"
      BY <1>4, <2>2, SlashedHead
    <3>2. to \in Seq(Chars)
      BY AddressParts
    <3> HIDE DEF head
    <3>3. link \in Seq(Chars) /\ \A i \in 1 .. Len(head) : link[i] = head[i]
      BY <3>1, <3>2, MailedLinkParts
    <3>4. Len(head) \in Nat
      BY <3>1, LenProperties
    <3>5. link[3] = "/"
      BY <3>1, <3>3, <3>4
    <3> HIDE DEF link
    <3>6. <<to, <<Hash>>>> \notin Params(link, b.name, page)
      BY <1>2, <3>3, <3>5, OffIsNotRead
    <3> HIDE DEF page
    <3> QED
      BY <2>2, <3>6
  <2>3. CASE b.query # <<>>
    <3>1. text = CutText(b, b.slashes)
      BY DEF Text, CutText
    <3>2. text \in Seq(Chars) /\ \E n \in Nat : Cut(text, n)
      BY <1>2, <2>3, <3>1, CutBase
    <3> HIDE DEF text, suffix
    <3>3. PICK n \in Nat : Cut(text, n)
      BY <3>2
    <3>4. head \in Seq(Chars) /\ Cut(head, n)
      BY <1>4, <3>2, <3>3, CutStays
    <3> HIDE DEF head
    <3>5. link \in Seq(Chars) /\ Cut(link, n)
      BY <3>4, CutLink
    <3> HIDE DEF link, page
    <3>6. <<to, <<Hash>>>> \notin Params(link, b.name, page)
      BY <1>2, <1>4, <3>5, CutIsNotRead
    <3> QED
      BY <2>3, <3>6
  <2> QED
    BY <1>2, <2>1, <2>2, <2>3
<1>8. isHttpLinkBase(m.base) /\ (<<m.to, <<Hash>>>> \in Read(m) <=> Unbroken(m))
  <2> HIDE DEF link, page
  <2> QED
    BY <1>1, <1>3, <1>5, <1>6, <1>7
<1> QED
  BY <1>8, Judged

\* The page of a query.
QueryHead(base) == <<base>> \o ResetQuery

LEMMA QueryHeadParts ==
  ASSUME NEW base \in Chars
  PROVE  /\ ResetQuery \in Seq(Chars) /\ Len(ResetQuery) = 9
         /\ ResetQuery[1] = "/" /\ ResetQuery[2] = "index.php"
         /\ QueryHead(base) \in Seq(Chars) /\ Len(QueryHead(base)) = 10
         /\ QueryHead(base)[2] = "/" /\ QueryHead(base)[3] = "index.php"
<1>1. Hash \in Chars
  BY LinksAssumption DEF Chars
<1>2. /\ ResetQuery \in Seq(Chars) /\ Len(ResetQuery) = 9
      /\ ResetQuery[1] = "/" /\ ResetQuery[2] = "index.php"
  BY <1>1 DEF ResetQuery, Chars
<1> DEFINE one == <<base>>
           q == ResetQuery
<1>3. one \in Seq(Chars) /\ Len(one) = 1
  OBVIOUS
<1>4. q \in Seq(Chars) /\ Len(q) = 9 /\ q[1] = "/" /\ q[2] = "index.php"
  BY <1>2
<1> HIDE DEF one, q
<1>5. /\ one \o q \in Seq(Chars) /\ Len(one \o q) = Len(one) + Len(q)
      /\ \A i \in 1 .. Len(q) : (one \o q)[Len(one) + i] = q[i]
  BY <1>3, <1>4, Two
<1>6. 1 \in 1 .. Len(q) /\ 2 \in 1 .. Len(q) /\ Len(one) + 1 = 2 /\ Len(one) + 2 = 3
  BY <1>3, <1>4
<1>7. Len(one \o q) = 10 /\ (one \o q)[2] = "/" /\ (one \o q)[3] = "index.php"
  BY <1>3, <1>4, <1>5, <1>6
<1> QED
  BY <1>2, <1>5, <1>7 DEF one, q, QueryHead

\* The query reads the address and the hash back, unless the address has a
\* character that means something else there.
LEMMA QueryReadsBack ==
  ASSUME NEW base \in Chars, NEW to \in Addresses
  PROVE  <<to, <<Hash>>>> \in QueryParams(QueryHead(base) \o encodeURI(to), base)
           <=> \A i \in DOMAIN to : to[i] \notin {"&", "#", "+"}
<1> DEFINE head == QueryHead(base)
           e == encodeURI(to)
           link == head \o e
           N == Len(to)
           C == {"&", "#"}
           rest == SubSeq(link, Len(head) + 1, Len(link))
           value == Before(rest, C)
<1>1. head \in Seq(Chars) /\ Len(head) = 10
  BY QueryHeadParts
<1>2. /\ to \in Seq(Chars) /\ to # <<>> /\ DOMAIN to = 1 .. N
      /\ \A i \in 1 .. N : to[i] # "%20"
  BY AddressParts
<1>3. N \in Nat /\ N >= 1
  BY <1>2, LenProperties, EmptySeq
<1>4. /\ e \in Seq(Chars) /\ Len(e) = N
      /\ \A i \in 1 .. N : /\ e[i] = IF to[i] = " " THEN "%20" ELSE to[i]
                           /\ \A c \in C : e[i] = c <=> to[i] = c
  BY <1>2, EncodedParts DEF Separators
<1> HIDE DEF head, e, N
<1>5. /\ link \in Seq(Chars) /\ Len(link) = 10 + N
      /\ \A i \in 1 .. 10 : link[i] = head[i]
      /\ \A i \in 1 .. N : link[10 + i] = e[i]
  <2>1. /\ link \in Seq(Chars) /\ Len(link) = Len(head) + Len(e)
        /\ \A i \in 1 .. Len(head) : link[i] = head[i]
        /\ \A i \in 1 .. Len(e) : link[Len(head) + i] = e[i]
    BY <1>1, <1>4, Two
  <2> HIDE DEF link
  <2> QED
    BY <1>1, <1>4, <2>1
<1> HIDE DEF link
<1>6. SubSeq(link, 1, 10) = head
  <2>1. 10 \in 0 .. Len(link)
    BY <1>3, <1>5
  <2>2. /\ SubSeq(link, 1, 10) \in Seq(Chars) /\ Len(SubSeq(link, 1, 10)) = 10
        /\ \A i \in 1 .. 10 : SubSeq(link, 1, 10)[i] = link[i]
    BY <1>5, <2>1, HeadPiece
  <2>3. \A i \in 1 .. 10 : SubSeq(link, 1, 10)[i] = head[i]
    BY <1>5, <2>2
  <2> QED
    BY <1>1, <2>2, <2>3, SeqEqual
<1>7. rest = e
  <2> DEFINE r == SubSeq(link, 11, 10 + N)
  <2>1. rest = r
    BY <1>1, <1>5
  <2>2. /\ 11 \in 1 .. Len(link) + 1 /\ 10 + N \in 0 .. Len(link) /\ 11 <= (10 + N) + 1
        /\ (10 + N) - 11 + 1 = N
    BY <1>3, <1>5
  <2>3. /\ r \in Seq(Chars) /\ Len(r) = (10 + N) - 11 + 1
        /\ \A i \in 1 .. (10 + N) - 11 + 1 : r[i] = link[11 + i - 1]
    BY <1>5, <2>2, Piece
  <2> HIDE DEF r
  <2>4. \A i \in 1 .. N : 11 + i - 1 = 10 + i
    BY <1>3
  <2>5. Len(r) = N /\ \A i \in 1 .. N : r[i] = e[i]
    BY <1>5, <2>2, <2>3, <2>4
  <2> QED
    BY <1>4, <2>1, <2>3, <2>5, SeqEqual
<1>8. QueryParams(link, base) = {<<decodeQuery(value), <<Hash>>>>}
  <2>1. ~(Len(link) <= Len(head)) /\ SubSeq(link, 1, Len(head)) = head
    BY <1>1, <1>3, <1>5, <1>6
  <2>2. head = <<base>> \o ResetQuery
    BY DEF head, QueryHead
  <2> QED
    BY <2>1, <2>2 DEF QueryParams
<1>9. PICK n \in 0 .. N : /\ value = SubSeq(e, 1, n)
                          /\ \A i \in 1 .. n : e[i] \notin C
                          /\ n < N => e[n + 1] \in C
  <2> HIDE DEF rest, C
  <2>1. value = Before(e, C)
    BY <1>7
  <2> HIDE DEF value
  <2> QED
    BY <1>4, <2>1, BeforeIs
<1>10. DOMAIN value = 1 .. n /\ \A i \in 1 .. n : value[i] = e[i]
  <2>1. /\ \A i \in 1 .. n : SubSeq(e, 1, n)[i] = e[i]
        /\ DOMAIN SubSeq(e, 1, n) = 1 .. n
    BY <1>4, HeadPiece
  <2> QED
    BY <1>9, <2>1
<1> HIDE DEF rest, value
<1> DEFINE d == decodeQuery(value)
<1>11. d = [i \in 1 .. n |-> IF value[i] \in {"%20", "+"} THEN " " ELSE value[i]]
  BY <1>10 DEF decodeQuery
<1>12. DOMAIN d = 1 .. n /\ \A i \in 1 .. n : d[i] = IF e[i] \in {"%20", "+"} THEN " " ELSE e[i]
  BY <1>10, <1>11
<1> HIDE DEF d
<1>13. <<to, <<Hash>>>> \in QueryParams(link, base) <=> to = d
  BY <1>8 DEF d
<1>14. ASSUME to = d
       PROVE  \A i \in 1 .. N : to[i] \notin {"&", "#", "+"}
  <2>1. n = N
    <3>1. 1 .. n = 1 .. N
      BY <1>2, <1>12, <1>14
    <3>2. N \in 1 .. n
      BY <1>3, <3>1
    <3> QED
      BY <1>3, <1>9, <3>2
  <2> SUFFICES ASSUME NEW i \in 1 .. N PROVE to[i] \notin {"&", "#", "+"}
    OBVIOUS
  <2>2. to[i] # "&" /\ to[i] # "#"
    <3>1. e[i] \notin C
      BY <1>9, <2>1
    <3> QED
      BY <1>4, <3>1
  <2>3. to[i] # "+"
    <3> SUFFICES ASSUME to[i] = "+" PROVE FALSE
      OBVIOUS
    <3>1. e[i] = "+"
      BY <1>4
    <3>2. d[i] = " "
      BY <1>12, <2>1, <3>1
    <3> QED
      BY <1>14, <3>2
  <2> QED
    BY <2>2, <2>3
<1>15. ASSUME \A i \in 1 .. N : to[i] \notin {"&", "#", "+"}
       PROVE  to = d
  <2>1. n = N
    <3> SUFFICES ASSUME n < N PROVE FALSE
      BY <1>3, <1>9
    <3>1. n + 1 \in 1 .. N /\ e[n + 1] \in C
      BY <1>3, <1>9
    <3> QED
      BY <1>4, <1>15, <3>1
  <2>2. \A i \in 1 .. N : d[i] = to[i]
    <3> SUFFICES ASSUME NEW i \in 1 .. N PROVE d[i] = to[i]
      OBVIOUS
    <3>1. d[i] = IF e[i] \in {"%20", "+"} THEN " " ELSE e[i]
      BY <1>12, <2>1
    <3>2. e[i] = IF to[i] = " " THEN "%20" ELSE to[i]
      BY <1>4
    <3>3. to[i] # "%20" /\ to[i] # "+"
      BY <1>2, <1>15
    <3> QED
      BY <3>1, <3>2, <3>3
  <2>3. to = [i \in 1 .. N |-> to[i]]
    BY <1>2, LenProperties
  <2>4. d = [i \in 1 .. N |-> d[i]]
    BY <1>11, <1>12, <2>1
  <2> QED
    BY <2>2, <2>3, <2>4
<1>16. <<to, <<Hash>>>> \in QueryParams(link, base) <=> \A i \in DOMAIN to : to[i] \notin {"&", "#", "+"}
  BY <1>2, <1>13, <1>14, <1>15
<1> QED
  BY <1>16 DEF link, head, e

\* A link that does not begin as the query does.
LEMMA QueryOff ==
  ASSUME NEW link \in Seq(Chars), NEW base \in Chars,
         ~(link[2] = "/" /\ link[3] = "index.php"), NEW x
  PROVE  x \notin QueryParams(link, base)
<1> DEFINE head == QueryHead(base)
<1>1. head \in Seq(Chars) /\ Len(head) = 10 /\ head[2] = "/" /\ head[3] = "index.php"
  BY QueryHeadParts
<1>2. head = <<base>> \o ResetQuery
  BY DEF QueryHead
<1> HIDE DEF head
<1>3. ASSUME ~(Len(link) <= 10) PROVE SubSeq(link, 1, 10) # head
  <2>1. 10 \in 0 .. Len(link) /\ 2 \in 1 .. 10 /\ 3 \in 1 .. 10
    BY <1>3, LenProperties
  <2>2. \A i \in 1 .. 10 : SubSeq(link, 1, 10)[i] = link[i]
    BY <2>1, HeadPiece
  <2> QED
    BY <1>1, <2>1, <2>2
<1>4. Len(link) <= Len(head) \/ SubSeq(link, 1, Len(head)) # head
  BY <1>1, <1>3
<1>5. QueryParams(link, base) = {}
  BY <1>2, <1>4 DEF QueryParams
<1> QED
  BY <1>5

\* resetConfirmationHashMessage.
LEMMA LegacyMessageLeadsBack ==
  ASSUME appDomain \in Bases, NEW to \in Addresses, NEW m \in resetConfirmationHashMessage(to)
  PROVE  LeadsBack(m)
<1> DEFINE b == appDomain
           page == <<"/", "index.php">>
           text == Text(b)
           e == encodeURI(to)
           head == text \o ResetQuery
           link == head \o e
<1>1. isHttpLinkBase(b) /\ m = Mail("legacy", to, b, page, link)
  BY DEF resetConfirmationHashMessage, httpLinkBase, Thrown
<1>2. b.name \in Chars /\ b.slashes \in Nat
  BY LinksAssumption DEF Chars
<1>3. m.to = to /\ m.link = link /\ m.kind = "legacy" /\ m.base = b
  BY <1>1 DEF Mail
<1>4. e \in Seq(Chars)
  BY AddressParts, EncodedParts
<1>5. /\ ResetQuery \in Seq(Chars) /\ Len(ResetQuery) >= 2 /\ ResetQuery[1] = "/"
  BY <1>2, QueryHeadParts
<1>6. Read(m) = QueryParams(link, b.name)
  BY <1>3 DEF Read
<1>7. Unbroken(m) <=> /\ \A i \in DOMAIN to : to[i] \notin {"&", "#", "+"}
                      /\ b.query = <<>> /\ b.slashes = 0
  BY <1>3 DEF Unbroken, Breaking
<1>8. <<to, <<Hash>>>> \in QueryParams(link, b.name)
        <=> /\ \A i \in DOMAIN to : to[i] \notin {"&", "#", "+"}
            /\ b.query = <<>> /\ b.slashes = 0
  <2>1. CASE b.query = <<>> /\ b.slashes = 0
    <3>1. text = <<b.name>>
      BY <1>2, <2>1, TextIsName
    <3>2. link = QueryHead(b.name) \o e
      BY <3>1 DEF QueryHead
    <3> HIDE DEF link
    <3>3. <<to, <<Hash>>>> \in QueryParams(QueryHead(b.name) \o e, b.name)
            <=> \A i \in DOMAIN to : to[i] \notin {"&", "#", "+"}
      BY <1>2, QueryReadsBack
    <3> QED
      BY <2>1, <3>2, <3>3
  <2>2. CASE b.query = <<>> /\ b.slashes > 0
    <3>1. head \in Seq(Chars) /\ Len(head) >= 3 /\ head[3] = "/"
      BY <1>5, <2>2, SlashedHead
    <3> HIDE DEF head, e
    <3>2. /\ link \in Seq(Chars) /\ Len(head) \in Nat
          /\ \A i \in 1 .. Len(head) : link[i] = head[i]
      BY <1>4, <3>1, Two
    <3>3. link[3] # "index.php"
      BY <3>1, <3>2
    <3> HIDE DEF link
    <3>4. <<to, <<Hash>>>> \notin QueryParams(link, b.name)
      BY <1>2, <3>2, <3>3, QueryOff
    <3> QED
      BY <2>2, <3>4
  <2>3. CASE b.query # <<>>
    <3>1. text = CutText(b, b.slashes)
      BY DEF Text, CutText
    <3>2. text \in Seq(Chars) /\ \E n \in Nat : Cut(text, n)
      BY <1>2, <2>3, <3>1, CutBase
    <3> HIDE DEF text, e
    <3>3. PICK n \in Nat : Cut(text, n)
      BY <3>2
    <3>4. head \in Seq(Chars) /\ Cut(head, n)
      BY <1>5, <3>2, <3>3, CutStays
    <3> HIDE DEF head
    <3>5. link \in Seq(Chars) /\ Cut(link, n)
      BY <1>4, <3>4, CutStays
    <3> HIDE DEF link
    <3>6. ~(link[2] = "/" /\ link[3] = "index.php")
      <4>1. n = 1 \/ n = 2 \/ 3 \in 2 .. n
        BY <3>5 DEF Cut
      <4>2. CASE n = 1
        BY <3>5, <4>2 DEF Cut
      <4>3. CASE n = 2
        BY <3>5, <4>3 DEF Cut
      <4>4. CASE 3 \in 2 .. n
        BY <3>5, <4>4 DEF Cut
      <4> QED
        BY <4>1, <4>2, <4>3, <4>4
    <3>7. <<to, <<Hash>>>> \notin QueryParams(link, b.name)
      BY <1>2, <3>5, <3>6, QueryOff
    <3> QED
      BY <2>3, <3>7
  <2> QED
    BY <1>2, <2>1, <2>2, <2>3
<1>9. isHttpLinkBase(m.base) /\ (<<m.to, <<Hash>>>> \in Read(m) <=> Unbroken(m))
  <2> HIDE DEF link
  <2> QED
    BY <1>1, <1>3, <1>6, <1>7, <1>8
<1> QED
  BY <1>9, Judged

\* A mail without a link.
LEMMA PlainLeadsBack ==
  ASSUME NEW to, NEW m \in Plain(to)
  PROVE  LeadsBack(m)
BY DEF Plain, LeadsBack

\* What is sent is of the content.
LEMMA SentLeadsBack ==
  ASSUME NEW content, sendTemplate(content), \A m \in content : LeadsBack(m)
  PROVE  LinksLeadBack'
<1>1. CASE content = Thrown
  BY <1>1 DEF sendTemplate, LinksLeadBack
<1>2. CASE mail' \in content
  BY <1>2 DEF LinksLeadBack, LeadsBack, Unbroken
<1> QED
  BY <1>1, <1>2 DEF sendTemplate

LinksInv == appDomain \in Bases /\ LinksLeadBack

LEMMA NotifyLeadsBack ==
  ASSUME LinksInv, NEW k \in Keys, NEW times \in 1 .. MaxTimes, Notify(k, times)
  PROVE  LinksInv'
<1> DEFINE content == IF k[1] = "wrongHash" THEN wrongHashMessage(k[2], times) ELSE Notice(k[2])
<1>1. content \subseteq Plain(k[2])
  BY DEF wrongHashMessage, Notice, Thrown
<1>2. sendTemplate(content) /\ appDomain' = appDomain
  BY DEF Notify
<1> HIDE DEF content
<1>3. LinksLeadBack'
  BY <1>1, <1>2, PlainLeadsBack, SentLeadsBack
<1> QED
  BY <1>2, <1>3 DEF LinksInv

\* The contents of the methods that no throttle stands before.
LEMMA ContentLeadsBack ==
  ASSUME appDomain \in Bases, NEW to \in Addresses,
         NEW content \in AtOnce(to) \cup sendResetPwdConfirmationHash(to) \cup sendOTP(to)
  PROVE  \A m \in content : LeadsBack(m)
<1>1. CASE content \in sendEmailVerify(to) \cup sendEmailReset(to)
  <2>1. PICK b \in Bases, p \in Paths : content = LinkMessage(to, b, p)
    BY <1>1 DEF sendEmailVerify, sendEmailReset
  <2> QED
    BY <2>1, LinkMessageLeadsBack
<1>2. CASE content = changeVerifyMessage(to)
  BY <1>2, ChangeMessageLeadsBack
<1>3. CASE content = resetConfirmationHashMessage(to)
  BY <1>3, LegacyMessageLeadsBack
<1>4. CASE content = HomeMessage(to) \/ content = Plain(to) \/ content = DevNotice
  <2>1. \E who : content \subseteq Plain(who)
    BY <1>4 DEF HomeMessage, DevNotice
  <2> QED
    BY <2>1, PlainLeadsBack
<1> QED
  BY <1>1, <1>2, <1>3, <1>4
     DEF AtOnce, sendEmailChangeVerify, sendWelcome, sendSubscriptionEmail,
         sendResetPwdConfirmation, resetConfirmationMessage, sendResetPwdConfirmationHash,
         sendOTP, otpMessage, sendNotice, Notice, alertDevTeam

LEMMA AtOnceLeadsBack ==
  ASSUME LinksInv, NEW to \in Addresses, SendAtOnce(to)
  PROVE  LinksInv'
<1>1. appDomain \in Bases /\ appDomain' = appDomain
  BY DEF SendAtOnce, LinksInv
<1>2. PICK content \in AtOnce(to) \cup sendResetPwdConfirmationHash(to) \cup sendOTP(to) :
        sendTemplate(content)
  BY DEF SendAtOnce, orFalse
<1>3. \A m \in content : LeadsBack(m)
  BY <1>1, ContentLeadsBack
<1>4. LinksLeadBack'
  BY <1>2, <1>3, SentLeadsBack
<1> QED
  BY <1>1, <1>4 DEF LinksInv

\* Every link that is mailed with a hash stands on a plain http or https base and
\* leads back to its page with its address and hash, but for an address with a
\* character that breaks it there, for a base with a query or a fragment, and for
\* an APP_DOMAIN that ends in a slash, which only confirmationLink takes off.
THEOREM MailsLinksLeadBack == MailsSpec => []LinksLeadBack
<1>1. MailsInit => LinksInv
  BY DEF MailsInit, LinksInv, LinksLeadBack
<1>2. LinksInv /\ [MailsNext]_mailVars => LinksInv'
  <2> SUFFICES ASSUME LinksInv, [MailsNext]_mailVars PROVE LinksInv'
    OBVIOUS
  <2>1. ASSUME NEW k \in Keys, NEW times \in 1 .. MaxTimes, Notify(k, times) PROVE LinksInv'
    BY <2>1, NotifyLeadsBack
  <2>2. ASSUME NEW k \in Keys, Mute(k) PROVE LinksInv'
    BY <2>2 DEF Mute, LinksInv, LinksLeadBack
  <2>3. ASSUME NEW to \in Addresses, SendAtOnce(to) PROVE LinksInv'
    BY <2>3, AtOnceLeadsBack
  <2>4. CASE UNCHANGED <<appDomain, mail>>
    BY <2>4 DEF LinksInv, LinksLeadBack
  <2> QED
    BY <2>1, <2>2, <2>3, <2>4 DEF MailsNext, mailVars
<1>3. LinksInv => LinksLeadBack
  BY DEF LinksInv
<1> QED
  BY <1>1, <1>2, <1>3, PTL DEF MailsSpec

==============================================================================
