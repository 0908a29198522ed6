----------------------------- MODULE MCRoleCheck -----------------------------
(* A small database for RoleCheck: a schema with a table, a sequence and a  *)
(* function of two overloads, and three roles.                              *)
EXTENDS RoleCheck

MCRoles == {"app", "reader", "owner"}
\* "app-1" is a role of a URL that isRoleName refuses, "a.b" no plain name at all.
MCRoleNames == MCRoles
MCKindOf == [s |-> "schema", t |-> "table", q |-> "sequence", f |-> "function", x |-> "absent"]
MCIsQualified == [s |-> FALSE, t |-> TRUE, q |-> TRUE, f |-> TRUE, x |-> TRUE]
MCOverloads == [f |-> {"f1", "f2"}]
MCColumnsOf == [t |-> {"a", "b"}, q |-> {"last_value"}]

MCGrant(o, p, cols) == [object |-> o, privilege |-> p, columns |-> cols]
MCWanted == <<MCGrant("f", "EXECUTE", NoColumns), MCGrant("t", "UPDATE", {"a", "b"})>>
MCOption(role, grants, allowed) ==
  [expectedRole |-> role, expectedGrants |-> grants, allowedMemberships |-> allowed]
\* Each is a service of its own: the grants it needs, memberships it allows, and
\* expectations that cannot be met or are not usable.
MCOptions == {
  MCOption("app", MCWanted, {"reader"}),
  MCOption("app", <<>>, {}),
  MCOption("app", <<MCGrant("q", "SELECT", NoColumns), MCGrant("q", "SELECT", {"last_value"}),
                    MCGrant("s", "USAGE", NoColumns)>>, MCRoles),
  MCOption("app", <<MCGrant("x", "SELECT", NoColumns)>>, MCRoles),
  MCOption("app", <<MCGrant("q", "DELETE", NoColumns)>>, MCRoles),
  MCOption("app", <<MCGrant("t", "EXECUTE", {"a"})>>, {}),
  MCOption("app-1", <<>>, {}),
  MCOption("app", <<>>, {"a.b"})}

MCPrivs == {<<"f", "EXECUTE", "f1">>, <<"f", "EXECUTE", "f2">>, <<"t", "UPDATE", "a">>,
            <<"t", "UPDATE", "b">>, <<"q", "SELECT", "all">>, <<"s", "USAGE", "all">>,
            <<"q", "DELETE", "all">>}
MCEdges == {<<"app", "reader">>, <<"reader", "owner">>}

MCAnyCatalogs == [
  effective : {"app", "owner"}, login : {"app"},
  flags : {{}, {"superuser"}, {"replication"}}, owns : BOOLEAN,
  edges : {{}, {<<"app", "reader">>}, MCEdges},
  privs : {MCPrivs, MCPrivs \cup {<<"t", "UPDATE", "all">>},
           MCPrivs \ {<<"f", "EXECUTE", "f2">>}, MCPrivs \ {<<"t", "UPDATE", "b">>}}]
\* Of a role that is not the expected one the check reads nothing more.
MCCatalogs == {k \in MCAnyCatalogs : k.effective = "app" \/ (k.flags = {} /\ ~k.owns)}

----------------------------------------------------------------------------
MCIdentifiers == {"app", "app-1", "owner", "postgres"}
MCHost(lower, ip, labels) ==
  [lower |-> lower, ip |-> ip, zone |-> FALSE, long |-> FALSE, labels |-> labels]
MCHosts == [h \in {"db.internal", "LOCALHOST", "::1", "127.1", "", "fe80::1%eth0"} |->
  CASE h = "db.internal" -> MCHost(h, FALSE, <<"word", "word">>)
    [] h = "LOCALHOST" -> MCHost("localhost", FALSE, <<"word">>)
    [] h = "::1" -> MCHost(h, TRUE, <<"bad">>)
    [] h = "127.1" -> MCHost(h, FALSE, <<"digits", "digits">>)
    [] h = "" -> MCHost(h, FALSE, <<"bad">>)
    [] h = "fe80::1%eth0" -> [MCHost(h, TRUE, <<"bad">>) EXCEPT !.zone = TRUE]]
MCSegments == [p \in {"/etc/ca.pem", "ca.pem", "/etc/../ca.pem"} |->
  CASE p = "/etc/ca.pem" -> <<"", "etc", "ca.pem">>
    [] p = "ca.pem" -> <<"ca.pem">>
    [] p = "/etc/../ca.pem" -> <<"", "etc", "..", "ca.pem">>]

MCUrl == [forbidden |-> FALSE, scheme |-> "postgres", parses |-> TRUE, fragment |-> FALSE,
          user |-> "app", host |-> "db.internal", port |-> 5432, database |-> "app",
          query |-> <<<<"sslmode", "verify-full">>>>]
MCParams == {<<"sslmode", "verify-full">>, <<"sslmode", "disable">>,
             <<"sslrootcert", "/etc/ca.pem">>, <<"sslrootcert", "/etc/../ca.pem">>,
             <<"sslrootcert", "ca.pem">>, <<"host", "db.other">>, <<"user", "owner">>,
             <<"application_name", "other">>, <<"uselibpqcompat", "true">>}
MCQueries == {<<>>} \cup {<<p>> : p \in MCParams} \cup {<<p, q>> : p, q \in MCParams}
\* One part at a time is another one, and every query at a host and on loopback.
MCUrls ==
  {[MCUrl EXCEPT !.query = q, !.host = h] : q \in MCQueries, h \in {"db.internal", "LOCALHOST"}}
    \cup {[MCUrl EXCEPT !.host = h] : h \in DOMAIN MCHosts}
    \cup {[MCUrl EXCEPT !.user = x] : x \in {"", "owner", "app-1", "a%70p"}}
    \cup {[MCUrl EXCEPT !.database = x] : x \in {"", "a/b"}}
    \cup {[MCUrl EXCEPT !.scheme = x] : x \in {"Postgres", "https"}}
    \cup {[MCUrl EXCEPT !.forbidden = TRUE], [MCUrl EXCEPT !.parses = FALSE],
           [MCUrl EXCEPT !.fragment = TRUE], [MCUrl EXCEPT !.port = 0]}

MCPoolOption ==
  [max |-> Max, applicationName |-> TRUE, connectTimeoutMs |-> 1, keepAliveInitialDelayMs |-> 0]
MCPoolOptions ==
  {MCPoolOption, [MCPoolOption EXCEPT !.max = 0], [MCPoolOption EXCEPT !.applicationName = FALSE],
   [MCPoolOption EXCEPT !.connectTimeoutMs = 0],
   [MCPoolOption EXCEPT !.keepAliveInitialDelayMs = -1]}
==============================================================================
