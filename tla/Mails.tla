-------------------------------- MODULE Mails --------------------------------
(***************************************************************************)
(* SocketLabsLib, the mails it builds and the links they carry, on top of  *)
(* the throttle of MailThrottle: five notifications of the verify-email    *)
(* chain ask it first, every other method sends at once.  A method builds  *)
(* its content, which may throw, and only then hands it to the sender.     *)
(*                                                                         *)
(* A link is a sequence: the name of its base, then one element for each   *)
(* slash and each character, for each name of a parameter, and for all     *)
(* the text of the query or fragment of a base.  The text of the mails is  *)
(* left out.                                                               *)
(*                                                                         *)
(* External: URL.parse, encodeURI, the pages links lead to, and the        *)
(* environment that holds APP_DOMAIN.                                      *)
(***************************************************************************)
EXTENDS MailThrottle, Sequences

CONSTANTS
  Addresses,   \* sequences of characters
  Hash,
  Bases,       \* [name, scheme, user, odd, query, slashes]: slashes end it
  Paths,       \* [written, page]: a path as a caller may write it, and its page
  MaxTimes,    \* bound on the strikes a mail is told of
  NoMail

ASSUME MailsAssumption ==
  /\ \A k \in Keys : k[1] \in {"emailAlreadyValid", "wrongHash", "tooMuchVerifyRequests",
                               "hashReqTooOld", "accountDisabled"}
  /\ MaxTimes \in Nat

VARIABLES
  appDomain,   \* the base in the environment
  mail         \* the last mail given to the sender, or NoMail

mailVars == <<now, sentAt, place, stamp, answer, last, since, appDomain, mail>>

----------------------------------------------------------------------------
(* Links.                                                                  *)

\* What is thrown is no content: a content is a set of at most one mail.
Thrown == {}

\* URL.parse is external: a base is what it says of it, odd when it holds a
\* character the parser drops or rewrites.  It may have a query or a fragment.
isHttpLinkBase(b) == ~b.odd /\ b.scheme \in {"http", "https"} /\ ~b.user

\* The base as it is given, or throwInternalError.
httpLinkBase(b) == IF isHttpLinkBase(b) THEN {b} ELSE Thrown

stripTrailingSlashes(b) == [b EXCEPT !.slashes = 0]

Text(b) == <<b.name>> \o b.query \o [i \in 1 .. b.slashes |-> "/"]

\* The slashes at the head of s.
Leading(s) == CHOOSE n \in 0 .. Len(s) :
                /\ \A i \in 1 .. n : s[i] = "/"
                /\ n < Len(s) => s[n + 1] # "/"

\* Mutant: the path is taken as it is given.
LinkPathAsGiven(p) == p

LinkPath(p) == <<"/">> \o SubSeq(p, Leading(p) + 1, Len(p))

\* encodeURI leaves the separators of a URL as they are.
encodeURI(s) == [i \in DOMAIN s |-> IF s[i] = " " THEN "%20" ELSE s[i]]
decodeURI(s) == [i \in DOMAIN s |-> IF s[i] = "%20" THEN " " ELSE s[i]]

confirmationLink(b, p, to) ==
  {Text(stripTrailingSlashes(c)) \o LinkPath(p) \o <<"/">> \o encodeURI(to) \o <<"/", Hash>>
     : c \in httpLinkBase(b)}

----------------------------------------------------------------------------
(* Contents.                                                               *)

Plain(to) == {[kind |-> "plain", to |-> to, link |-> <<>>]}

\* base and page are what the link was built on, and the page it is meant for.
Mail(kind, to, base, page, link) ==
  [kind |-> kind, to |-> to, base |-> base, page |-> page, link |-> link]

\* verifyMessage and resetMessage carry a link built with the base and the path of
\* the call, which default to the environment and to a path of their own.
LinkMessage(to, b, p) ==
  {Mail("link", to, b, p.page, l) : l \in confirmationLink(b, p.written, to)}

\* changeVerifyMessage: the base of the environment, slashes and all.
changeVerifyMessage(to) ==
  {Mail("change", to, c, <<"/", "change">>,
        Text(c) \o <<"/", "change", "/">> \o encodeURI(to) \o <<"/", Hash>>)
     : c \in httpLinkBase(appDomain)}

\* welcomeMessage, subscriptionMessage: they name the platform's home.
HomeMessage(to) == {m \in Plain(to) : isHttpLinkBase(appDomain)}

\* resetConfirmationMessage names it as well.
resetConfirmationMessage(to) == HomeMessage(to)

\* resetConfirmationHashMessage: the hash and the address in a query, on the base
\* of the environment as it is.
ResetQuery == <<"/", "index.php", "?", "q=reset", "&", "hash=", Hash, "&", "email=">>
resetConfirmationHashMessage(to) ==
  {Mail("legacy", to, c, <<"/", "index.php">>, Text(c) \o ResetQuery \o encodeURI(to))
     : c \in httpLinkBase(appDomain)}

\* No more than five attempts can be told to remain.
wrongHashMessage(to, times) == IF times > 5 THEN Thrown ELSE Plain(to)

\* The other notices are constant.
Notice(to) == Plain(to)

\* alertDevMessage and postReportedMessage go to the developers.
DevNotice == Plain(<<"dev">>)

\* accountMessage of the one-time code.
otpMessage(to) == Plain(to)

----------------------------------------------------------------------------
(* Sending.                                                                *)

\* A content that was thrown rejects the call and sends nothing.
sendTemplate(content) ==
  IF content = Thrown
  THEN answer' = "thrown" /\ mail' = NoMail
  ELSE mail' \in content

\* What the sender throws is false for the caller; what the content threw, built
\* before orFalse is entered, is not.
orFalse(content) ==
  /\ sendTemplate(content)
  /\ answer' = "thrown" => content = Thrown

MailsInit ==
  /\ ThrottleInit
  /\ appDomain \in Bases
  /\ mail = NoMail

\* gated let the notification through: the key is blocked before the content is
\* built.  Only wrongHash is told of a number of strikes.
Notify(k, times) ==
  /\ Send(k)
  /\ sendTemplate(IF k[1] = "wrongHash" THEN wrongHashMessage(k[2], times) ELSE Notice(k[2]))
  /\ UNCHANGED appDomain

Mute(k) ==
  /\ Drop(k)
  /\ mail' = NoMail
  /\ UNCHANGED appDomain

\* The contents of the methods.  Base and path of the first two are the caller's.
sendEmailVerify(to) == {LinkMessage(to, b, p) : b \in Bases, p \in Paths}
sendEmailReset(to) == sendEmailVerify(to)
sendEmailChangeVerify(to) == {changeVerifyMessage(to)}
sendWelcome(to) == {HomeMessage(to)}
sendSubscriptionEmail(to) == {HomeMessage(to)}
sendResetPwdConfirmation(to) == {resetConfirmationMessage(to)}
sendResetPwdConfirmationHash(to) == {resetConfirmationHashMessage(to)}
sendOTP(to) == {otpMessage(to)}
\* accountBanned, and accountDisabled of a login.
sendNotice(to) == {Notice(to)}
alertDevTeam == {DevNotice}

AtOnce(to) ==
  sendEmailVerify(to) \cup sendEmailReset(to) \cup sendEmailChangeVerify(to)
    \cup sendWelcome(to) \cup sendSubscriptionEmail(to) \cup sendResetPwdConfirmation(to)
    \cup sendNotice(to) \cup alertDevTeam

\* The methods that no throttle stands before; two of them answer false for throw.
SendAtOnce(to) ==
  /\ Welcome
  /\ \/ \E content \in AtOnce(to) : sendTemplate(content)
     \/ \E content \in sendResetPwdConfirmationHash(to) \cup sendOTP(to) : orFalse(content)
  /\ UNCHANGED appDomain

MailsNext ==
  \/ \E k \in Keys, times \in 1 .. MaxTimes : Notify(k, times)
  \/ \E k \in Keys : Mute(k)
  \/ \E to \in Addresses : SendAtOnce(to)
  \/ Tick /\ UNCHANGED <<appDomain, mail>>

MailsSpec == MailsInit /\ [][MailsNext]_mailVars

----------------------------------------------------------------------------
(* Where a link leads.                                                     *)

Separators == {"/", "?", "#"}

\* The head of s before the first of the characters of C, or all of s.
Before(s, C) ==
  LET n == CHOOSE n \in 0 .. Len(s) :
             /\ \A i \in 1 .. n : s[i] \notin C
             /\ n < Len(s) => s[n + 1] \in C
  IN SubSeq(s, 1, n)

\* The part of a link that names a page: all before the query and the fragment.
Opened(link) == Before(link, {"?", "#"})

\* The address and hash that the route <page>/:email/:hash of base reads in a link:
\* two parts without a slash, neither of them empty, and nothing after them.
Params(link, base, page) ==
  LET head == <<base>> \o page \o <<"/">>
      opened == Opened(link)
      rest == SubSeq(opened, Len(head) + 1, Len(opened))
      cuts == {i \in DOMAIN rest : rest[i] = "/"}
  IN IF Len(opened) <= Len(head) \/ SubSeq(opened, 1, Len(head)) # head THEN {}
     ELSE {<<decodeURI(SubSeq(rest, 1, i - 1)), SubSeq(rest, i + 1, Len(rest))>>
             : i \in {j \in cuts : cuts = {j} /\ j > 1 /\ j < Len(rest)}}

\* In a query a plus is a space as well.
decodeQuery(s) == [i \in DOMAIN s |-> IF s[i] \in {"%20", "+"} THEN " " ELSE s[i]]

\* The address and hash that <base>/index.php reads in a link: the parameter of the
\* address ends at the next one, or with the query.
QueryParams(link, base) ==
  LET head == <<base>> \o ResetQuery
      rest == SubSeq(link, Len(head) + 1, Len(link))
  IN IF Len(link) <= Len(head) \/ SubSeq(link, 1, Len(head)) # head THEN {}
     ELSE {<<decodeQuery(Before(rest, {"&", "#"})), <<Hash>>>>}

\* A base ends in slashes, after its name or after its query or fragment, of which
\* one character tells that it is there.  The page of a path starts with one slash,
\* of however many the path has.  No address holds what encodeURI makes of a space:
\* it would write the percent sign of it as another one.
ASSUME LinksAssumption ==
  /\ Hash \in STRING \ Separators
  /\ \A to \in Addresses :
       to \in Seq(STRING) /\ to # <<>> /\ \A i \in DOMAIN to : to[i] # "%20"
  /\ Bases \subseteq [name : STRING \ Separators, scheme : STRING, user : BOOLEAN,
                      odd : BOOLEAN, query : Seq(STRING), slashes : Nat]
  /\ \A b \in Bases :
       b.query # <<>> => /\ b.query[Len(b.query)] \in {"?", "#"}
                         /\ \A i \in 1 .. Len(b.query) - 1 : b.query[i] = "/"
  /\ \A p \in Paths :
       /\ p.page \in Seq(STRING) /\ p.page # <<>>
       /\ p.page[1] = "/" /\ (Len(p.page) > 1 => p.page[2] # "/")
       /\ \A i \in DOMAIN p.page : p.page[i] \notin {"?", "#"}
       /\ \E n \in 0 .. Len(p.written) :
            p.written = [i \in 1 .. n |-> "/"] \o Tail(p.page)

Read(m) == IF m.kind = "legacy" THEN QueryParams(m.link, m.base.name)
           ELSE Params(m.link, m.base.name, m.page)
Breaking(kind) == IF kind = "legacy" THEN {"&", "#", "+"} ELSE Separators

\* Every link that is mailed with a hash stands on a base that is a plain http or
\* https URL, and leads its reader to the page it is meant for, with the address it
\* was mailed to and the hash: but for an address with a character that encodeURI
\* leaves alone and the URL takes for a separator, another one in a path and in a
\* query; for a base with a query or a fragment, which isHttpLinkBase lets pass;
\* and for an APP_DOMAIN that ends in a slash, which only confirmationLink takes
\* off.
LinksLeadBack ==
  mail # NoMail /\ mail.link # <<>> =>
    /\ isHttpLinkBase(mail.base)
    /\ (<<mail.to, <<Hash>>>> \in Read(mail)) =
         /\ \A i \in DOMAIN mail.to : mail.to[i] \notin Breaking(mail.kind)
         /\ mail.base.query = <<>>
         /\ mail.kind # "link" => mail.base.slashes = 0

==============================================================================
