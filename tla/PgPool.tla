-------------------------------- MODULE PgPool --------------------------------
(***************************************************************************)
(* The clients of a pool of createPool: CheckedClient.connect runs         *)
(* connectAndCheck, a race between the deadline and the work (connect,     *)
(* then SHOW timezone).  The work is not stopped by the deadline: it may   *)
(* end, either way, when the client has been refused already.              *)
(*                                                                         *)
(* External, from how createPool and assertRole use pg: a pool creates at  *)
(* most Max clients, hands an idle one out again, forgets one that was     *)
(* refused, destroyed or lost, and pool.end() closes the idle ones and     *)
(* resolves when none is left.                                             *)
(***************************************************************************)
EXTENDS Integers, FiniteSets

CONSTANTS
  Clients,    \* the clients the pool may ever create: bounds how often it reconnects
  Callers,    \* those that call pool.connect()
  Pool,       \* the holder of an idle client
  Nobody,     \* the holder of a client the pool does not know (any more)
  Max,        \* options.max
  Zones       \* the session time zones the server may answer with

REQUIRED_SESSION_TIME_ZONE == "UTC"

\* assertPoolOptions: max is a whole number from 1.
ASSUME PoolAssumption ==
  /\ Max \in Nat \ {0}
  /\ Pool \notin Callers /\ Nobody \notin Callers /\ Pool # Nobody
  /\ IsFiniteSet(Clients)

VARIABLES
  work,      \* of connectAndCheck: "none", "connect", "zone", "done" or "failed"
  race,      \* "none", "pending", "ok", or the reason of the DbConnectError
  open,      \* the clients with a connection to the server
  ends,      \* those whose end() was called
  holder,    \* who holds a client
  asks,      \* of each caller: "none", "waiting", "connecting", "holds", "refused"
  ending,    \* pool.end() was called
  failures   \* db_pool_connect_failures_total

poolVars == <<work, race, open, ends, holder, asks, ending, failures>>

Refusals == {"CONNECT_FAILED", "TIMEZONE_NOT_UTC", "CONNECT_TIMEOUT"}

PoolTypeOK ==
  /\ work \in [Clients -> {"none", "connect", "zone", "done", "failed"}]
  /\ race \in [Clients -> {"none", "pending", "ok"} \cup Refusals]
  /\ open \subseteq Clients
  /\ ends \subseteq Clients
  /\ holder \in [Clients -> Callers \cup {Pool, Nobody}]
  /\ asks \in [Callers -> {"none", "waiting", "connecting", "holds", "refused"}]
  /\ ending \in BOOLEAN
  /\ failures \in Nat

PoolInit ==
  /\ work = [c \in Clients |-> "none"]
  /\ race = [c \in Clients |-> "none"]
  /\ open = {}
  /\ ends = {}
  /\ holder = [c \in Clients |-> Nobody]
  /\ asks = [u \in Callers |-> "none"]
  /\ ending = FALSE
  /\ failures = 0

Known == {c \in Clients : holder[c] # Nobody}
Idle == {c \in Clients : holder[c] = Pool}
Held(u) == {c \in Clients : holder[c] = u}

----------------------------------------------------------------------------
(* pool.connect()                                                          *)

\* pool.connect() rejects once pool.end() was called.
Ask(u) ==
  /\ asks[u] \in {"none", "refused"}
  /\ asks' = [asks EXCEPT ![u] = IF ending THEN "refused" ELSE "waiting"]
  /\ UNCHANGED <<work, race, open, ends, holder, ending, failures>>

TakeIdle(u, c) ==
  /\ asks[u] = "waiting" /\ ~ending
  /\ c \in Idle
  /\ holder' = [holder EXCEPT ![c] = u]
  /\ asks' = [asks EXCEPT ![u] = "holds"]
  /\ UNCHANGED <<work, race, open, ends, ending, failures>>

\* The pool makes a CheckedClient and calls its connect: the timer is set and
\* the work begins.
Create(u, c) ==
  /\ asks[u] = "waiting" /\ ~ending
  /\ Idle = {} /\ Cardinality(Known) < Max
  /\ race[c] = "none"
  /\ work' = [work EXCEPT ![c] = "connect"]
  /\ race' = [race EXCEPT ![c] = "pending"]
  /\ holder' = [holder EXCEPT ![c] = u]
  /\ asks' = [asks EXCEPT ![u] = "connecting"]
  /\ UNCHANGED <<open, ends, ending, failures>>

----------------------------------------------------------------------------
(* connectAndCheck                                                         *)

\* The race is won: done.then calls back with null, and the timer is cleared.
Accept(c) ==
  /\ race' = [race EXCEPT ![c] = "ok"]
  /\ asks' = [asks EXCEPT ![holder[c]] = "holds"]
  /\ UNCHANGED <<ends, holder, failures>>

\* The catch of connectAndCheck counts, calls client.end() without waiting for
\* it and throws; the callback gets the error and the pool forgets the client.
Refuse(c, reason) ==
  /\ race' = [race EXCEPT ![c] = reason]
  /\ failures' = failures + 1
  /\ ends' = ends \cup {c}
  /\ holder' = [holder EXCEPT ![c] = Nobody]
  /\ asks' = [asks EXCEPT ![holder[c]] = "refused"]

\* Promise.race: what the work answers after the deadline changes nothing.
Race(c, answer) ==
  IF race[c] # "pending" THEN UNCHANGED <<race, ends, holder, asks, failures>>
  ELSE IF answer = "ok" THEN Accept(c) ELSE Refuse(c, answer)

\* super.connect() resolves: SHOW timezone is sent.
Connected(c) ==
  /\ work[c] = "connect"
  /\ work' = [work EXCEPT ![c] = "zone"]
  /\ open' = open \cup {c}
  /\ UNCHANGED <<race, ends, holder, asks, ending, failures>>

\* Mutant: the timer is cleared as soon as the connection is made.
DeadlineToConnect(c) ==
  /\ race[c] = "pending" /\ work[c] = "connect"
  /\ Refuse(c, "CONNECT_TIMEOUT")
  /\ UNCHANGED <<work, open, ending>>

\* The deadline: reject(new DbConnectError('CONNECT_TIMEOUT')).
Deadline(c) ==
  /\ race[c] = "pending"
  /\ Refuse(c, "CONNECT_TIMEOUT")
  /\ UNCHANGED <<work, open, ending>>

\* connectErrorOf: a rejection that is not a DbConnectError is CONNECT_FAILED.
WorkFails(c) ==
  /\ work[c] \in {"connect", "zone"}
  /\ work' = [work EXCEPT ![c] = "failed"]
  /\ open' = open \ {c}
  /\ Race(c, "CONNECT_FAILED")
  /\ UNCHANGED ending

\* Mutant: the deadline does not end the race, so a late answer revives the client.
ZoneRevives(c, zone) ==
  /\ work[c] = "zone"
  /\ work' = [work EXCEPT ![c] = "done"]
  /\ IF zone = REQUIRED_SESSION_TIME_ZONE
       THEN /\ race' = [race EXCEPT ![c] = "ok"]
            /\ holder' = [holder EXCEPT ![c] = IF @ = Nobody THEN Pool ELSE @]
            /\ asks' = [u \in Callers |-> IF holder[c] = u THEN "holds" ELSE asks[u]]
            /\ UNCHANGED <<ends, failures>>
       ELSE Race(c, "TIMEZONE_NOT_UTC")
  /\ UNCHANGED <<open, ending>>

\* checkSessionZone.
ZoneAnswered(c, zone) ==
  /\ work[c] = "zone"
  /\ LET utc == zone = REQUIRED_SESSION_TIME_ZONE IN
       /\ work' = [work EXCEPT ![c] = IF utc THEN "done" ELSE "failed"]
       /\ Race(c, IF utc THEN "ok" ELSE "TIMEZONE_NOT_UTC")
  /\ UNCHANGED <<open, ending>>

\* end() does its work: the connection is closed, and what still waits for it fails.
EndDone(c) ==
  /\ c \in ends
  /\ c \in open \/ work[c] \in {"connect", "zone"}
  /\ open' = open \ {c}
  /\ work' = [work EXCEPT ![c] = IF @ \in {"connect", "zone"} THEN "failed" ELSE @]
  /\ UNCHANGED <<race, ends, holder, asks, ending, failures>>

----------------------------------------------------------------------------
(* Idle and returned clients                                               *)

\* The pool's 'error' event of createPool only counts and logs; pg forgets the client.
IdleError(c) ==
  /\ c \in Idle
  /\ open' = open \ {c}
  /\ ends' = ends \cup {c}
  /\ holder' = [holder EXCEPT ![c] = Nobody]
  /\ UNCHANGED <<work, race, asks, ending, failures>>

\* client.release(destroy): destroyed, or while the pool is ending, it is
\* closed; otherwise idle.
ReleaseClient(u, c, destroy) ==
  /\ holder[c] = u /\ asks[u] = "holds"
  /\ IF destroy \/ ending
       THEN /\ holder' = [holder EXCEPT ![c] = Nobody]
            /\ ends' = ends \cup {c}
       ELSE /\ holder' = [holder EXCEPT ![c] = Pool]
            /\ UNCHANGED ends
  /\ asks' = [asks EXCEPT ![u] = "none"]
  /\ UNCHANGED <<work, race, open, ending, failures>>

\* pool.end(): the idle clients are closed; it resolves when Known = {}.
EndPool ==
  /\ ending' = TRUE
  /\ ends' = ends \cup Idle
  /\ holder' = [c \in Clients |-> IF holder[c] = Pool THEN Nobody ELSE holder[c]]
  /\ UNCHANGED <<work, race, open, asks, failures>>

PoolStep ==
  \/ \E c \in Clients : Connected(c) \/ Deadline(c) \/ WorkFails(c) \/ EndDone(c) \/ IdleError(c)
  \/ \E c \in Clients, zone \in Zones : ZoneAnswered(c, zone)

----------------------------------------------------------------------------
(* Properties                                                              *)

\* A client is in the pool or in the hands of a caller only when its session
\* was seen to run in UTC before the deadline and it was never closed by
\* connectAndCheck, however late the answers of the work come in; a refused
\* one is closed, counted once, and never handed out again.
HandedOutIsChecked ==
  /\ \A c \in Known :
       \/ race[c] = "ok" /\ work[c] = "done" /\ c \notin ends
       \/ race[c] = "pending" /\ holder[c] # Pool /\ asks[holder[c]] = "connecting"
  /\ \A c \in Clients : race[c] \in Refusals => c \in ends /\ holder[c] = Nobody
  /\ failures = Cardinality({c \in Clients : race[c] \in Refusals})
  /\ Cardinality(Known) <= Max

\* What the proofs need: what is known of a client from where its race stands,
\* and that a caller holds the client it waits for or was given, and no other.
ClientsOk ==
  /\ \A c \in Clients :
       /\ race[c] = "none" => work[c] = "none" /\ holder[c] = Nobody /\ c \notin ends
       /\ race[c] = "pending" =>
            /\ work[c] \in {"connect", "zone"} /\ c \notin ends
            /\ holder[c] \in Callers /\ asks[holder[c]] = "connecting"
       /\ race[c] = "ok" => work[c] = "done"
  /\ \A c, d \in Clients : holder[c] = holder[d] /\ holder[c] \in Callers => c = d
  /\ \A u \in Callers :
       /\ asks[u] = "holds" => Held(u) # {}
       /\ asks[u] \in {"none", "waiting", "refused"} => Held(u) = {}
       /\ asks[u] = "connecting" => \A c \in Held(u) : race[c] = "pending"
==============================================================================
