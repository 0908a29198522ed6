------------------------------ MODULE RoleCheck ------------------------------
(***************************************************************************)
(* The boot of a service: it may check its database URL                    *)
(* (databaseUrlReason), makes its pool (createPool), and asks on one       *)
(* client of it (assertRole) whether its database role is the one it       *)
(* expects and holds no more than it should; then it serves, or the pool   *)
(* is closed.  The statements of ROLE_CATALOG_SQL are sent one after the   *)
(* other with no transaction around them, so the catalog may change        *)
(* between two of them.                                                    *)
(*                                                                         *)
(* External: the service, which calls the three; the catalog and its       *)
(* administrator; and the users of the pool, which start once the          *)
(* assertion has passed.                                                   *)
(***************************************************************************)
EXTENDS PgPool, DatabaseUrl

CONSTANTS
  Urls,             \* the URLs a service may be given
  NoUrl,
  PoolOptions,      \* the numbers and the name createPool may be given
  Boot,             \* the caller assertRole is; the others are the users
  Options,          \* the IAssertRoleOptions a service may give
  Roles,
  RoleNames,        \* the names isRoleName takes; a URL may name a role that is none
  Catalogs,         \* the catalogs a service may meet
  KindOf,           \* of an object: "schema", "function", "table", "sequence", "absent"
  IsQualified,      \* isQualifiedName of the object's name; FALSE: isRoleName
  Overloads,        \* the overloads of a function
  ColumnsOf,        \* the columns of a table or a sequence
  NoColumns,        \* a grant with no columns field
  MaxChanges        \* bound on what the administrator changes during the check

Grant == [object : DOMAIN KindOf, privilege : STRING, columns : {NoColumns} \cup SUBSET STRING]

\* A query is what URLSearchParams gives, and a plain name is looked up as a
\* schema, a name with a point as one of the others.
ASSUME RoleCheckAssumption ==
  /\ Boot \in Callers
  /\ NoUrl \notin Urls
  /\ \A u \in Urls : u.port \in Nat /\ u.query \in Seq(STRING \X STRING)
  /\ IsFiniteSet(Roles)
  /\ \A o \in Options : o.expectedGrants \in Seq(Grant)
  /\ \A k \in Catalogs : k.effective \in Roles /\ k.edges \subseteq Roles \X Roles
  /\ \A o \in DOMAIN KindOf :
       KindOf[o] \in IF IsQualified[o] THEN {"function", "table", "sequence", "absent"}
                                     ELSE {"schema", "absent"}
  /\ MaxChanges \in Nat

users == Callers \ {Boot}

VARIABLES
  given,     \* [url, plain]: the URL of the pool, and whether databaseUrlReason was
             \* asked, and with which allowPlainLoopback; forgotten once the boot goes on
  options,   \* the argument of assertRole
  catalog,   \* what the server's catalog says, since assertRole was called
  changes,
  step,      \* where the boot is
  identity,  \* the identity row it has read
  next,      \* the grant it is at
  broken,    \* state.broken of checkRoleOnClient
  outcome,   \* "none", "passed" or the reason of the RoleAssertionError
  met, unmet  \* history: the expectations that were met, and not met, at some moment

roleVars == <<given, options, step, identity, next, broken, outcome>>
catalogVars == <<catalog, changes, met, unmet>>
vars == <<poolVars, roleVars, catalogVars>>

----------------------------------------------------------------------------
(* The statements of ROLE_CATALOG_SQL.  A catalog is a record: effective,  *)
(* login (the roles of the session), flags (the attributes of the          *)
(* effective role), owns, edges (pairs of a member and a role) and privs   *)
(* (triples of an object, a privilege and the column or overload, or       *)
(* "all").                                                                 *)

ROLE_ATTRIBUTES == <<
  <<"superuser", "ROLE_SUPERUSER">>, <<"createrole", "ROLE_CREATEROLE">>,
  <<"createdb", "ROLE_CREATEDB">>, <<"bypassrls", "ROLE_BYPASSRLS">>,
  <<"replication", "ROLE_REPLICATION">> >>

\* Mutant: only the roles the effective role is a direct member of.
DirectMemberOf(k) == {r \in Roles : <<k.effective, r>> \in k.edges}

\* memberships: the least set the recursive query closes.
MemberOf(k) ==
  {r \in Roles : \A S \in SUBSET Roles :
     (\A e \in k.edges : e[1] = k.effective \/ e[1] \in S => e[2] \in S) => r \in S}

Row(held) == <<IF held THEN "true" ELSE "false">>

\* grant.schema, grant.function, grant.relation: the rows that come back.
\* to_regnamespace and an empty bool_and give NULL, an absent relation no row.
GrantRows(k, g) ==
  LET o == g.object
      has(x) == <<o, g.privilege, x>> \in k.privs
      kind == KindOf[o] IN
  IF ~IsQualified[o] THEN IF kind = "schema" THEN Row(has("all")) ELSE <<"null">>
  ELSE IF g.privilege = "EXECUTE"
    THEN IF kind = "function" THEN Row(\A f \in Overloads[o] : has(f)) ELSE <<"null">>
  ELSE IF kind \notin {"table", "sequence"} THEN <<>>
  ELSE Row(/\ has("all")
           /\ IF kind = "sequence" THEN g.privilege \in {"USAGE", "SELECT", "UPDATE"}
                                   ELSE g.privilege # "USAGE")

\* grant.columns: a row for each of the columns that exists, of a table or, as
\* pg_attribute lists them too, of a sequence.
ColumnHeld(k, g, col) ==
  /\ KindOf[g.object] \in {"table", "sequence"} /\ col \in ColumnsOf[g.object]
  /\ \E x \in {"all", col} : <<g.object, g.privilege, x>> \in k.privs

----------------------------------------------------------------------------
(* The plan and the checks                                                 *)

ROLE_PRIVILEGES == [
  schema |-> {"USAGE", "CREATE"},
  relation |-> {"SELECT", "INSERT", "UPDATE", "DELETE", "TRUNCATE", "REFERENCES", "TRIGGER", "USAGE"},
  column |-> {"SELECT", "INSERT", "UPDATE", "REFERENCES"}]

\* roleCheckOf: the kind of a grant, or "none" for one that is not usable.
RoleCheckOf(g) ==
  LET plain == g.columns = NoColumns IN
  IF ~IsQualified[g.object]
    THEN IF plain /\ g.privilege \in ROLE_PRIVILEGES.schema THEN "schema" ELSE "none"
  ELSE IF g.privilege = "EXECUTE" THEN IF plain THEN "function" ELSE "none"
  ELSE IF plain THEN IF g.privilege \in ROLE_PRIVILEGES.relation THEN "relation" ELSE "none"
  ELSE IF g.privilege \in ROLE_PRIVILEGES.column /\ g.columns # {} THEN "columns" ELSE "none"

\* rolePlan, of options that are typed: expectedGrants is an array, and
\* allowedMemberships one or left out, which is {}.
Plannable(o) ==
  /\ o.expectedRole \in RoleNames
  /\ o.allowedMemberships \subseteq RoleNames
  /\ \A i \in DOMAIN o.expectedGrants : RoleCheckOf(o.expectedGrants[i]) # "none"

\* missingObject: exactly one row, and held is true.
MissingObject(k, g) == GrantRows(k, g) # <<"true">>
\* missingColumn.
MissingColumn(k, g) == \E col \in g.columns : ~ColumnHeld(k, g, col)
MissingGrant(k, g) ==
  IF RoleCheckOf(g) = "columns" THEN MissingColumn(k, g) ELSE MissingObject(k, g)

\* The first attribute the row has, as the loop over ROLE_ATTRIBUTES finds it.
AttributeReason(k) ==
  LET bad == {i \in DOMAIN ROLE_ATTRIBUTES : ROLE_ATTRIBUTES[i][1] \in k.flags} IN
  IF bad = {} THEN "none" ELSE ROLE_ATTRIBUTES[CHOOSE i \in bad : \A j \in bad : i <= j][2]

IdentityReason(k) == IF k.effective # options.expectedRole THEN "ROLE_MISMATCH" ELSE AttributeReason(k)

----------------------------------------------------------------------------
(* What a service expects, said without the code's order or statements     *)

Reachable(k, r) ==
  \E n \in 1..Cardinality(Roles) : \E p \in [0..n -> Roles] :
    p[0] = k.effective /\ p[n] = r /\ \A i \in 1..n : <<p[i - 1], p[i]>> \in k.edges

GrantHolds(k, g) ==
  LET has(x) == <<g.object, g.privilege, x>> \in k.privs
      kind == KindOf[g.object] IN
  CASE kind = "absent" -> FALSE
    [] kind = "schema" -> has("all")
    [] kind = "function" -> g.privilege = "EXECUTE" /\ \A f \in Overloads[g.object] : has(f)
    [] kind \in {"table", "sequence"} /\ g.columns # NoColumns ->
         g.columns \subseteq {c \in ColumnsOf[g.object] : has(c) \/ has("all")}
    [] kind = "sequence" /\ g.columns = NoColumns ->
         has("all") /\ g.privilege \in {"USAGE", "SELECT", "UPDATE"}
    [] kind = "table" /\ g.columns = NoColumns ->
         has("all") /\ g.privilege \notin {"USAGE", "EXECUTE"}

Attribute(reason) == {ROLE_ATTRIBUTES[i][1] : i \in {j \in 1..5 : ROLE_ATTRIBUTES[j][2] = reason}}

\* An expectation is named by the reason its failure has, and a grant by its place.
Expectations ==
  {<<reason, 0>> : reason \in {"ROLE_MISMATCH", "ROLE_OWNS_OBJECTS", "ROLE_MEMBERSHIP",
                               "SESSION_ROLE_DIFFERS"} \cup {ROLE_ATTRIBUTES[i][2] : i \in 1..5}}
  \cup {<<"GRANT_MISSING", i>> : i \in DOMAIN options.expectedGrants}

Met(k, e) ==
  CASE e[1] = "ROLE_MISMATCH" -> k.effective = options.expectedRole
    [] e[1] = "ROLE_OWNS_OBJECTS" -> ~k.owns
    [] e[1] = "ROLE_MEMBERSHIP" -> {r \in Roles : Reachable(k, r)} \subseteq options.allowedMemberships
    [] e[1] = "SESSION_ROLE_DIFFERS" -> k.login = k.effective
    [] e[1] = "GRANT_MISSING" -> GrantHolds(k, options.expectedGrants[e[2]])
    [] OTHER -> Attribute(e[1]) \cap k.flags = {}

MetBy(k) == {e \in Expectations : Met(k, e)}

----------------------------------------------------------------------------
NothingGiven == [url |-> NoUrl, plain |-> "unchecked"]
NoRow == [effective |-> "none", login |-> "none"]

RoleReasons == {e[1] : e \in Expectations} \cup {"INVALID_EXPECTATION", "CHECK_FAILED"}
UrlReasons == {"url_syntax", "url_scheme", "url_user", "url_role", "url_host", "url_port",
               "url_database", "url_query", "url_tls", "URL_INVALID", "TypeError"}

TypeOK ==
  /\ PoolTypeOK
  /\ options \in Options
  /\ changes \in 0..MaxChanges
  /\ given.plain \in {"allowed", "refused", "unchecked"}
  /\ given.url # NoUrl => step = "plan"
  /\ step \in {"wire", "plan", "connect", "identity", "owns", "memberships", "grants",
               "closing", "passed", "thrown"}
  /\ next \in 1..(Len(options.expectedGrants) + 1)
  /\ broken \in BOOLEAN
  /\ outcome \in {"none", "passed"} \cup RoleReasons \cup UrlReasons
  /\ met \subseteq Expectations /\ unmet \subseteq Expectations
  /\ step \in {"identity", "owns", "memberships", "grants"} => Held(Boot) # {}

Init ==
  /\ PoolInit
  /\ options \in Options
  /\ catalog = NoRow
  /\ changes = 0
  /\ step = "wire"
  /\ given = NothingGiven
  /\ identity = NoRow
  /\ next = 1
  /\ broken = FALSE
  /\ outcome = "none"
  /\ met = {} /\ unmet = {}

\* The administrator changes one thing: the catalog is another one of Catalogs.
Alter ==
  /\ step \in {"identity", "owns", "memberships", "grants"}
  /\ changes < MaxChanges
  /\ changes' = changes + 1
  /\ \E k \in Catalogs :
       /\ k.effective = catalog.effective /\ k.login = catalog.login
       /\ Cardinality({f \in DOMAIN k : k[f] # catalog[f]}) = 1
       /\ catalog' = k
       /\ met' = met \cup MetBy(k)
       /\ unmet' = unmet \cup (Expectations \ MetBy(k))
  /\ UNCHANGED <<poolVars, roleVars>>

----------------------------------------------------------------------------
(* The URL and the pool                                                    *)

Asked(plain) == [expectedRole |-> options.expectedRole, allowPlainLoopback |-> plain = "allowed"]

\* databaseUrlReason and createPool: one tick of the service, and no socket yet.
Wire ==
  /\ step = "wire"
  /\ \E u \in Urls, plain \in {"allowed", "refused", "unchecked"}, o \in PoolOptions :
       LET asked == Asked(plain)
           reason == IF plain # "unchecked" /\ databaseUrlReason(u, asked) # "none"
                       THEN databaseUrlReason(u, asked)
                     ELSE IF ~assertPoolOptions(o) THEN "TypeError"
                     ELSE IF ~poolUrlValid(u) THEN "URL_INVALID" ELSE "none"
       IN /\ outcome' = reason
          /\ step' = IF reason = "none" THEN "plan" ELSE "thrown"
          /\ given' = [url |-> IF reason = "none" THEN u ELSE NoUrl, plain |-> plain]
  /\ UNCHANGED <<poolVars, catalogVars, options, identity, next, broken>>

----------------------------------------------------------------------------
(* assertRole                                                              *)

Stay == UNCHANGED <<catalogVars, options>> /\ given' = NothingGiven

\* Where a failure that is met before a client is held goes.
FailEarly(reason) ==
  /\ outcome' = reason
  /\ step' = "closing"
  /\ UNCHANGED <<identity, next, broken>>

\* rolePlan, and pool.connect().
Plan ==
  /\ step = "plan"
  /\ IF Plannable(options)
       THEN /\ Ask(Boot)
            /\ step' = "connect"
            /\ catalog' \in Catalogs
            /\ met' = MetBy(catalog') /\ unmet' = Expectations \ met'
            /\ UNCHANGED <<identity, next, broken, outcome>>
       ELSE FailEarly("INVALID_EXPECTATION") /\ UNCHANGED <<poolVars, catalog, met, unmet>>
  /\ given' = NothingGiven
  /\ UNCHANGED <<options, changes>>

\* The client arrives, and its 'error' event is listened to.
Checkout ==
  /\ step = "connect" /\ asks[Boot] = "holds"
  /\ step' = "identity"
  /\ UNCHANGED <<poolVars, identity, next, broken, outcome>>
  /\ Stay

CheckoutFails ==
  /\ step = "connect" /\ asks[Boot] = "refused"
  /\ FailEarly("CHECK_FAILED")
  /\ UNCHANGED poolVars
  /\ Stay

\* The finally of checkRoleOnClient: the client goes back, or is destroyed.
Leave(reason, isBroken) ==
  /\ outcome' = reason
  /\ broken' = isBroken
  /\ step' = IF reason = "passed" THEN "passed" ELSE "closing"
  /\ \E c \in Held(Boot) : ReleaseClient(Boot, c, isBroken)

Answered == Held(Boot) \subseteq open

\* One answer: the check goes on at s, or fails with a reason.
Judge(reason, s) ==
  IF reason = "none" THEN step' = s /\ UNCHANGED <<poolVars, outcome, broken>>
  ELSE Leave(reason, broken)

ReadIdentity ==
  /\ step = "identity" /\ Answered
  /\ identity' = [effective |-> catalog.effective, login |-> catalog.login]
  /\ Judge(IdentityReason(catalog), "owns")
  /\ UNCHANGED next /\ Stay

OwnsObjects ==
  /\ step = "owns" /\ Answered
  /\ Judge(IF catalog.owns THEN "ROLE_OWNS_OBJECTS" ELSE "none", "memberships")
  /\ UNCHANGED <<next, identity>> /\ Stay

\* membershipOutsider, then the login role of the row read first.
Memberships ==
  /\ step = "memberships" /\ Answered
  /\ Judge(IF MemberOf(catalog) \ options.allowedMemberships # {} THEN "ROLE_MEMBERSHIP"
           ELSE IF identity.login # identity.effective THEN "SESSION_ROLE_DIFFERS"
           ELSE IF options.expectedGrants = <<>> THEN "passed" ELSE "none", "grants")
  /\ UNCHANGED <<next, identity>> /\ Stay

Grants ==
  /\ step = "grants" /\ Answered
  /\ next' = next + 1
  /\ Judge(IF MissingGrant(catalog, options.expectedGrants[next]) THEN "GRANT_MISSING"
           ELSE IF next = Len(options.expectedGrants) THEN "passed" ELSE "none", "grants")
  /\ UNCHANGED identity /\ Stay

\* A catalog query rejects, or catalogRow, catalogFlag or catalogText throws on a
\* malformed answer: no assertion, so the client is destroyed.
QueryFails ==
  /\ step \in {"identity", "owns", "memberships", "grants"}
  /\ Leave("CHECK_FAILED", TRUE)
  /\ UNCHANGED <<next, identity>> /\ Stay

\* onError: the connection is gone, and only the listener knows it yet.
ClientError ==
  /\ step \in {"identity", "owns", "memberships", "grants"} /\ Answered
  /\ broken' = TRUE
  /\ open' = open \ Held(Boot)
  /\ UNCHANGED <<work, race, ends, holder, asks, ending, failures>>
  /\ UNCHANGED <<step, identity, next, outcome>> /\ Stay

\* The catch of assertRole: pool.end() before the error is thrown.
ClosePool ==
  /\ step = "closing" /\ ~ending
  /\ EndPool
  /\ UNCHANGED <<step, identity, next, broken, outcome>> /\ Stay

\* pool.end() resolves when no client is left, or rejects, which is swallowed.
Throw ==
  /\ step = "closing" /\ ending
  /\ step' = "thrown"
  /\ UNCHANGED <<poolVars, identity, next, broken, outcome>> /\ Stay

Take(u, c) == TakeIdle(u, c) \/ Create(u, c)

\* A user of the pool asks once the service has started, and gives back.
Use(u) ==
  /\ step = "passed"
  /\ \/ Ask(u)
     \/ \E c \in Clients, destroy \in BOOLEAN : ReleaseClient(u, c, destroy)
  /\ UNCHANGED <<roleVars, catalogVars>>

Pooling ==
  /\ PoolStep \/ \E u \in Callers, c \in Clients : Take(u, c)
  /\ UNCHANGED <<roleVars, catalogVars>>

Next ==
  \/ Wire
  \/ Plan \/ Checkout \/ CheckoutFails
  \/ ReadIdentity \/ OwnsObjects \/ Memberships \/ Grants \/ QueryFails \/ ClientError
  \/ ClosePool \/ Throw
  \/ \E u \in users : Use(u)
  \/ Pooling
  \/ Alter

Spec == Init /\ [][Next]_vars

\* One step of the check: the server answers, or the connection fails.
Query == ReadIdentity \/ OwnsObjects \/ Memberships \/ Grants \/ QueryFails

\* The event loop runs what is ready, timers included; a statement that was sent
\* is answered or fails, a connection that is ended goes away.  Nothing makes a
\* connection attempt answer: the deadline is there for that.
FairSpec ==
  /\ Spec
  /\ WF_vars(Wire \/ Plan \/ Checkout \/ CheckoutFails \/ ClosePool \/ Throw)
  /\ WF_vars(Query)
  /\ \A c \in Clients : WF_vars((Deadline(c) \/ EndDone(c) \/ Take(Boot, c)) /\ UNCHANGED <<roleVars, catalogVars>>)

----------------------------------------------------------------------------
(* Properties                                                              *)

\* However the catalog changes while the check runs: an assertion that passed
\* has seen every expectation met at some moment of it, memberships through
\* any chain of roles and every overload included, and one that failed names
\* an expectation that was not met at some moment.
VerdictsAreGrounded ==
  /\ outcome = "passed" => Expectations \subseteq met
  /\ outcome \in {e[1] : e \in Expectations} => \E e \in unmet : e[1] = outcome

\* Every boot ends: the service serves, or the error is thrown and, sooner or
\* later, no connection is left to the database, not even one whose client was
\* refused while it was still connecting.
BootSettles == <>(step = "passed") \/ <>[](step = "thrown" /\ open = {})

\* The driver of the pool connects as the text of the URL reads, whatever its
\* query: a parameter replaces no setting, and after databaseUrlReason the login
\* is the expected role, at a named database, with the server verified (or on
\* this host, where the service allows it).  createPool refuses no URL that
\* databaseUrlReason has accepted.
ConnectsAsNamed ==
  /\ given.url # NoUrl =>
       IF given.plain = "unchecked" THEN SettingsOfPool(given.url)
       ELSE SettingsAsExpected(given.url, Asked(given.plain))
  /\ outcome = "URL_INVALID" => given.plain = "unchecked"

----------------------------------------------------------------------------
(* What the proofs need.                                                   *)

Checking == {"identity", "owns", "memberships", "grants"}
About(reasons) == {<<reason, 0>> : reason \in reasons}

\* Where the boot is: it checks with a client in its hands, and reads no grant
\* beyond the last.
BootOk ==
  /\ step \in Checking => asks[Boot] = "holds"
  /\ step \in {"connect"} \cup Checking => Plannable(options)
  /\ step = "grants" => next \in DOMAIN options.expectedGrants
  /\ step \in {"wire", "plan", "connect", "identity", "owns", "memberships"} => next = 1
  /\ step \in {"wire", "plan", "connect"} \cup Checking => outcome = "none"

\* What the check has made sure of when it comes to a step, each at some moment.
CheckedSoFar ==
  /\ step \in {"connect"} \cup Checking =>
       /\ catalog \in Catalogs
       /\ MetBy(catalog) \subseteq met /\ Expectations \ MetBy(catalog) \subseteq unmet
  /\ step \in {"owns", "memberships", "grants"} =>
       /\ identity = [effective |-> catalog.effective, login |-> catalog.login]
       /\ About({"ROLE_MISMATCH"} \cup {ROLE_ATTRIBUTES[i][2] : i \in 1..5}) \subseteq met
  /\ step \in {"memberships", "grants"} => About({"ROLE_OWNS_OBJECTS"}) \subseteq met
  /\ step = "grants" =>
       /\ About({"ROLE_MEMBERSHIP", "SESSION_ROLE_DIFFERS"}) \subseteq met
       /\ \A i \in 1..(next - 1) : <<"GRANT_MISSING", i>> \in met

\* The variables hold what they are said to, every client that is handed out has
\* answered for its session, the pool connects as the URL reads, and the check has
\* made sure of what it has come past: inductive with what it relies on.
IInv ==
  /\ TypeOK
  /\ HandedOutIsChecked /\ ClientsOk
  /\ ConnectsAsNamed
  /\ BootOk /\ CheckedSoFar
==============================================================================
