------------------------------- MODULE MCMails -------------------------------
(* Three notifications of which the throttle remembers two; addresses with *)
(* and without a separator; bases that are fit for a link, and not, one of *)
(* them with a query.                                                      *)
EXTENDS Mails

Base(name, scheme, slashes) ==
  [name |-> name, scheme |-> scheme, user |-> FALSE, odd |-> FALSE, query |-> <<>>,
   slashes |-> slashes]

\* Safe in both kinds of link, unsafe in a path, in a query, in both.
MCAddresses == {<<" ", "@">>, <<"x", "/", "@">>, <<"+", "@">>, <<"@", "&", "#">>}
MCKeys == {<<"wrongHash", <<" ", "@">>>>, <<"wrongHash", <<"x", "/", "@">>>>,
           <<"accountDisabled", <<" ", "@">>>>}
MCBases == {Base("site", "https", 0), Base("panel", "http", 2), Base("script", "javascript", 0),
            [Base("asked", "https", 1) EXCEPT !.query = <<"/", "?">>]}
MCPaths == {[written |-> <<"/", "/", "check">>, page |-> <<"/", "check">>],
            [written |-> <<"x", "/", "reset">>, page |-> <<"/", "x", "/", "reset">>]}
=============================================================================
