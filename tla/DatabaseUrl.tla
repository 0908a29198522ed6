----------------------------- MODULE DatabaseUrl -----------------------------
(***************************************************************************)
(* What a database URL may say: databaseUrlReason, which a service asks    *)
(* before it uses one, and the checks of createPool (poolUrlSecrets and    *)
(* assertPoolOptions).  A URL is the record the URL parser makes of it,    *)
(* with what is read off the text before it is parsed.                     *)
(*                                                                         *)
(* External, from the doc comment of databaseUrlReason: node-postgres      *)
(* copies every query parameter over the parsed parts (Settings).          *)
(***************************************************************************)
EXTENDS Integers, Sequences

CONSTANTS
  Identifiers,   \* the texts that IDENTIFIER matches
  Hosts,         \* of a host text: [lower, ip, zone, long, labels]
  Segments       \* of a path text: its split('/'), a control character being "control"

ALLOWED_QUERY == {"sslmode", "sslrootcert"}
LOOPBACK_HOSTS == {"127.0.0.1", "::1", "localhost"}

\* A label is "word", "digits" (also a DNS_LABEL) or "bad".
isValidHost(text) ==
  LET h == Hosts[text]
  IN /\ ~h.long
     /\ IF h.ip THEN ~h.zone
        ELSE /\ \A i \in DOMAIN h.labels : h.labels[i] # "bad"
             /\ h.labels[Len(h.labels)] # "digits"

\* The empty text is one label that is none.
ASSUME HostsAssumption == ~isValidHost("")

isAbsolutePath(text) ==
  LET s == Segments[text]
  IN /\ Len(s) > 1 /\ s[1] = ""
     /\ \A i \in DOMAIN s : s[i] \notin {"control", ".."}

----------------------------------------------------------------------------
(* databaseUrlReason: "none", or the first reason.  SCHEME is matched with *)
(* its case; the parser lower-cases it.  An absent port is 0, and an       *)
(* absent user or database is the empty text, which no identifier is.      *)

parseUrl(u) == u.parses /\ ~u.fragment

syntaxReason(u) ==
  CASE u.forbidden -> "url_syntax"
    [] ~u.forbidden /\ u.scheme \notin {"postgres", "postgresql"} -> "url_scheme"
    [] ~u.forbidden /\ u.scheme \in {"postgres", "postgresql"} ->
         IF parseUrl(u) THEN "none" ELSE "url_syntax"

roleReason(u, expectedRole) ==
  IF u.user \notin Identifiers THEN "url_user"
  ELSE IF u.user = expectedRole THEN "none" ELSE "url_role"

locationReason(u) ==
  IF ~isValidHost(u.host) THEN "url_host"
  ELSE IF u.port < 1 THEN "url_port"
  ELSE IF u.database \in Identifiers THEN "none" ELSE "url_database"

queryReason(u) ==
  IF \E i \in DOMAIN u.query :
       \/ u.query[i][1] \notin ALLOWED_QUERY
       \/ \E j \in 1..(i - 1) : u.query[j][1] = u.query[i][1]
       \/ u.query[i][1] = "sslrootcert" /\ ~isAbsolutePath(u.query[i][2])
  THEN "url_query" ELSE "none"

\* searchParams.get: the value of the first parameter of that name.
FirstIs(u, key, value) ==
  \E i \in DOMAIN u.query :
    u.query[i] = <<key, value>> /\ \A j \in 1..(i - 1) : u.query[j][1] # key

isLoopback(text) == Hosts[text].lower \in LOOPBACK_HOSTS

tlsReason(u, allowPlainLoopback) ==
  IF FirstIs(u, "sslmode", "verify-full") THEN "none"
  ELSE IF isLoopback(u.host) /\ allowPlainLoopback THEN "none" ELSE "url_tls"

\* a ?? b
OrElse(a, b) == IF a # "none" THEN a ELSE b

databaseUrlReason(u, options) ==
  OrElse(syntaxReason(u),
    OrElse(roleReason(u, options.expectedRole),
      OrElse(locationReason(u),
        OrElse(queryReason(u), tlsReason(u, options.allowPlainLoopback)))))

----------------------------------------------------------------------------
(* createPool                                                              *)

\* assertPoolUrl, and the parse before it.
poolUrlValid(u) ==
  /\ u.parses /\ ~u.fragment
  /\ u.scheme \in {"postgres", "postgresql", "Postgres"}
  /\ u.host # ""
  /\ \A i \in DOMAIN u.query :
       u.query[i][1] \in ALLOWED_QUERY /\ \A j \in 1..(i - 1) : u.query[j][1] # u.query[i][1]

\* applicationName is whether APPLICATION_NAME matches; the numbers are whole.
assertPoolOptions(o) ==
  /\ o.max >= 1
  /\ o.applicationName
  /\ o.connectTimeoutMs >= 1
  /\ o.keepAliveInitialDelayMs >= 0

----------------------------------------------------------------------------
(* What the driver makes of the URL                                        *)

\* The last parameter of that name replaces the part of the URL.
Setting(u, key, part) ==
  LET at == {i \in DOMAIN u.query : u.query[i][1] = key}
  IN IF at = {} THEN part
     ELSE u.query[CHOOSE i \in at : \A j \in at : j <= i][2]

\* TLS with verification of the certificate and the name.
Verified(u) ==
  /\ Setting(u, "sslmode", "none") = "verify-full"
  /\ \A i \in DOMAIN u.query : u.query[i][1] \notin {"ssl", "uselibpqcompat"}

Settings(u) ==
  [user |-> Setting(u, "user", u.user),
   host |-> Setting(u, "host", u.host),
   port |-> Setting(u, "port", u.port),
   database |-> Setting(u, "database", u.database),
   application_name |-> Setting(u, "application_name", "the service"),
   verified |-> Verified(u)]

\* createPool alone: every setting is the one of the URL or of the pool.
SettingsOfPool(u) ==
  /\ Settings(u).host = u.host /\ Settings(u).port = u.port
  /\ Settings(u).user = u.user /\ Settings(u).database = u.database
  /\ Settings(u).application_name = "the service"

\* After databaseUrlReason also: the login is the role of the service, at a
\* named database of one host, and nobody else can stand in for the server.
SettingsAsExpected(u, options) ==
  /\ SettingsOfPool(u)
  /\ Settings(u).user = options.expectedRole
  /\ isValidHost(Settings(u).host) /\ Settings(u).port >= 1
  /\ \/ Settings(u).verified
     \/ options.allowPlainLoopback /\ Hosts[Settings(u).host].lower \in LOOPBACK_HOSTS
==============================================================================
