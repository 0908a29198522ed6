# A verification project for koa-utils

TLA+ models of the parts of `@axiumine/koa-utils` where a fault would be hard to
see in a test: the account flows (password reset, sign-up, e-mail activation and
change, the three logins), the Redis sessions, the PostgreSQL kit (transactions,
lock order and clock, pool, role check, version guard, parsers), uploads and
e-mails. Each is model-checked with TLC on small instances, and every safety property of
the passing runs is proved with TLAPS for every value of the constants.

Paths below are relative to the repository (`src/` is its source directory).

## 1. Inventory

The package is a library: a consumer mounts its Koa middlewares and GraphQL
mutations in Node.js processes that share MongoDB, Redis and PostgreSQL.
Concurrency comes from requests that interleave at every `await`, in one
process or several, and from drivers that re-run callbacks.

| Component | State | Operations | What is hard |
|---|---|---|---|
| Password reset: `graphQL/schema/mutations/{resetPwd,updatePassword}.mts`, `private/lib/access/{applyPasswordReset,assertResetAllowed}.mts`, `db/*` | `account.resetHash`, `account.resetDateReq`, `login.password`, the flags `disabled` and `deleted`; `pendingMail` and `confirmTo` in the resolver | `resetPwd`, `updatePassword` | one-time use of a hash by concurrent requests; callbacks that `withTransaction` re-runs; a flag set between check and commit; mails after the commit |
| Sign-up and activation: `signUp.mts`, `koa/router/verifyEmail.mts`, `assertVerifyEmailAllowed.mts` with its `handleIf*` guards, `abandonUser.mts`, `enableEmailAccess.mts` | `login.email`, `account.email.{valid,hash,dateLastReq,requestTimes}` | `signUp`, `routerVerifyEmail` | decisions taken on a copy of the row, with mails awaited before the write; disposal by address; the strike counter; mail inside a transaction callback |
| E-mail change: `emailChangeHashVerify.mts`, `emailChangeHandlers.mts`, `confirmNewEmail.mts`, `setEmailHash.mts` | `account.email.newEmailTmp` and the fields above | `emailChangeHashVerify` | read, count and update are three calls without a transaction |
| Path maps: `lib/access/accessPaths.mts`, `private/lib/access/pathTools.mts` | the layout of an account's document, which a consumer chooses | `resolve*Paths`, `buildProjection`, `buildUnset`, `readPath` | lists of paths to clear that are not derived from the slots they must clear |
| Logins and migration: `login4Ever.mts`, `loginRememberme.mts`, `loginAdmin.mts`, `_finalizeLoginCheck.mts`, `_buildLoginStatsUpdate.mts`, `scripts/migrate-account-disabled-to-boolean.mjs` | `account.{disabled,deleted}` as boolean or string, `login.{firstLogin,lastLogin}` | the three mutations; a script that can be killed and run again | reads that cast and reads that do not; a write by `_id` of what was read before; crossing logins |
| Sessions: the logins, `refresh.mts`, `logout.mts`, `setRedisLoginSession.mts`, three middlewares, `isSessionBlocked.mts` | Redis hashes `access:<uuid>` and `refresh:<uuid>` with an expiry, a cookie | login, refresh, logout, the guard of a resource | Redis has no rollback: half-done pairs; a MongoDB transaction around Redis writes; rotation racing a block or a logout |
| PostgreSQL transaction wrapper: `lib/PostgreSQL/tx/withTx.mts`, `private/lib/PostgreSQL/{runTxAttempt,runTxBody,runTxWithRetries,txHandle}.mts` | per attempt: client, `destroy`, handle state; the pool; the server's transactions | `withTx(pool, options, fn)`, `tx.query` | retry without applying twice; a lost COMMIT answer; a swallowed failure; handles used late; client leaks |
| Lock order and clock: `createLockOrderTracker.mts`, `admitLock.mts`, `createDbClock.mts`, `lockTaken.mts`, `claimRowsSkipLocked.mts` | mode, check and rank of a transaction; the clock slot | `track`, `admit`, `record`, `read`, `now`, `lockedRow`, the claim | admit and record around a statement; a pending read that is kept |
| Pool and connection check: `createPool.mts`, `connectAndCheck.mts`, `checkedClient.mts` | sockets being opened, clients lent and idle | connect, check of the zone, deadline, end | the deadline racing a late answer |
| Role check: `assertRole.mts`, `runRoleChecks.mts`, `checkRoleOnClient.mts`, `ROLE_CATALOG_SQL.mts` | one client, the place in the plan | the statements of the check, closing the pool | a catalog that changes between two statements; a connection lost in the middle |
| URL check: `databaseUrlReason.mts`, `poolUrlSecrets.mts`, `assertPoolOptions.mts` | none | accept or name a reason | query parameters that replace a setting of the driver; two checks that must agree |
| Errors and guards: `mapDbError.mts`, `mapViolation.mts`, `guardVersion.mts`, `assertAffected.mts` | two counters | classify a failure, explain an update of no row | a row that changes between update and re-read; errors mapped twice |
| Parsers: `lib/PostgreSQL/parse/*`, `civilCalendar.mts` | none | text to value or refusal | calendar edges; nested quoting |
| Mail throttle: `lib/access/createMailThrottle.mts`, `verifyEmailMailer.mts` | a bounded map of send times | `maySend`, the five gated notices | eviction at `maxKeys` |
| E-mail: `email/SocketLabsLib.mts`, `private/email/*` | none of its own | every method that sends | contents that throw; links whose parts are a caller's |
| Files: `storeUploadAsTemp.mts`, `scanVirus.mts`, `uploadTemp*.mts`, `reEncode.mts`, the movers | a temporary file, two streams, the scanner | store, validate, scan, re-encode, move | order of stream events; a scan that fails or never was set up; clean-up that fails |
| `lib/StringLib.mts` | none | `cleanHtml`, random strings | a hand-written loop in the place of a regular expression |
| Koa error handler, request log, other data sources, GraphQL types and throw helpers | none that outlives a call | | mapping, declarations, I/O |

What makes each modelled component correct:

* **Password reset**: a mailed hash changes the password once, only while it is
  the stored one, never on a blocked account; hashes are stored at most every
  throttle period; the confirmation follows a commit; every request ends.
* **Sign-up, activation, change**: an address becomes verified, or becomes the
  login address of a row, only with a hash mailed to it; no wrong hash is lost
  from the counter; a pending row has a link that works.
* **Path maps**: whatever the layout, if it spends its hashes, a hash passes once
  and only in its own flow.
* **Logins and migration**: a login commits on a row that a flag was meant to lock
  only where that flag is a `'True'` that the script has not rewritten yet; a flag
  keeps its meaning through the migration; a clean run of it ends the strings; the
  dates of the logins stay in order.
* **Sessions**: a rotated or logged-out refresh token is dead; no session
  without an expiry survives; a successful answer names live sessions and an error
  leaves none; a block that meets no refresh in flight ends access.
* **Transaction wrapper**: applied at most once; success means durable; an
  error built by the wrapper means nothing was applied; no client is leaked or
  returned dirty; statements stay inside their transaction; every call is answered.
* **Lock order and clock**: disciplined transactions of one mode wait only upwards;
  one instant per transaction, read after its first lock.
* **Pool, URL and role**: a client that is handed out was checked in time; the
  pool connects as its URL reads; a verdict on the role names something that was
  so; every boot ends.
* **Version guard, errors, parsers**: no update is lost, and only who lost the answer of
  a COMMIT may be told of a failure for an update that was made; a refusal is true; an
  internal error is counted once; a value is read as it was written or refused.
* **Throttle and e-mail**: one notice per window and key unless a flood came in between; a
  link leads back to its address and hash, but for the addresses and bases that are named.
* **Files**: a stored file is the whole upload or is removed; nothing unvetted is moved
  into place; every upload ends.

`PROJECT.json` lists the hazards at their lines, with the properties that would
catch them, and says why for the seven that have none.

## 2. The modules

| Module | Models |
|---|---|
| `ResetPassword`, `ResetPasswordProofs` | the reset flow of one account; its inductive invariant and theorems |
| `Registration`, `RegistrationProofs` | sign-up, activation links and e-mail changes over a collection of rows |
| `AccessPaths` | both flows over any layout of the document that a consumer may give |
| `Logins`, `LoginsProofs` | the three logins on rows whose flags may be strings, beside the migration script |
| `Sessions`, `SessionsProofs` | login, refresh, logout, the middlewares and Redis, for one account |
| `AtomicTx` | what `withTx` promises, with no connection, attempt or retry in sight |
| `WithTx` | the wrapper, the pool and the server; refines `AtomicTx` |
| `LockOrder` | tracker, row locks and clock of concurrent transactions |
| `TransactionProofs` | the theorems on `WithTx`, its refinement, and `LockOrder` |
| `PgPool` | the clients of a pool, each a race of a deadline with its work |
| `DatabaseUrl` | the checks of a URL, against the settings the driver takes from it |
| `RoleCheck` | a boot: URL, pool, role check; EXTENDS `PgPool` and `DatabaseUrl` |
| `Timestamptz`, `ArrayText`, `TypeParsers` | the parsers, against the texts a server prints |
| `ParserProofs` | the theorems on the parsers, with the calendar and the arrays they rest on |
| `GuardedWrite` | versioned updates, `guardVersion`, `mapDbError`; reads its columns by `TypeParsers` |
| `Upload` | the two streams of an upload, its vetting and its move |
| `Debounce` | what the throttle promises: no map, no eviction |
| `MailThrottle` | the bounded map behind `throttleMailer`; refines `Debounce` |
| `Mails` | every method that sends, their contents and links, over `MailThrottle` |
| `ServiceProofs` | the theorems on the boot, the pool and the URL check, and on the throttle, its refinement and the mails |
| `StripTags` | the loop of `cleanHtml`, against the regular expression it stands for |
| `LibraryProofs` | the theorems on `AccessPaths`, `StripTags`, `Upload` and `GuardedWrite`; EXTENDS `ParserProofs` |
| `MC*` | the instances for TLC |

**Conventions.** A request (or a call of `withTx`) is a process with a program
counter `pc`; the code between two awaits is one action, so every interleaving
at an `await` is a behaviour. Local variables of a handler that live across an
await are functions over the requests; they are reset when the handler ends, which
changes nothing a later step reads. History variables (`mailed`, `changedBy`,
`strikes`, `floor`, `late`, `met` ...) are written and never read by a guard, except that a
caller may present whatever has been mailed. Operators keep the names of the
functions they translate. Operators commented `Mutant:` are faulty
versions of the definition that follows them; nothing refers to them, they are
there to show, when put in its place, that a property notices the fault.

### ResetPassword

`acct` is the committed document (`Docs`: status, hash, date, password), `view[r]`
what the transaction of `r` sees, `current` the open snapshots that are still up
to date, `lock` the transaction that has written the document. MongoDB is
modelled by two facts: a write in a transaction conflicts if the document
changed after the snapshot or is written by another open transaction
(`Conflict`), and a plain write waits for the document lock (`SetStatus`).
`withTransaction` re-runs a callback on a transient error (`RetryTransient`, from
any place with a server call, at most `MaxAttempts` runs), may commit and lose the answer
(`CommitUnknown`), and otherwise throws (`Throw`, `Refuse`). `saveResetReq` replaces the
driver's error by its own, so a conflict there carries no label and is thrown: `RetryTransient`
does not apply at `"save"`. The variable outside the callback (`pendingMail`, `confirmTo`) is
`outbox`, and it keeps its value when a callback is re-run, as it does in the code.
A process may die anywhere (`Kill`). Addresses are left out: all requests are
for one account, because documents do not interact.

### Registration

`rows` is the collection, keyed by `_id`; nothing makes `login.email` unique, so
`RowsWith(e)` may have several members and a `findOne` picks any. Only `signUp`
has a transaction, and the mail is sent inside it (`SendEmailVerify`). A visit of
a link reads a row (`Lookup`), runs the guard chain on the copy (`Verdict`, in the
order of the awaits of `assertVerifyEmailAllowed`), and then writes: the disposal
by address after a mail was awaited (`Dispose`), the increment (`IncReqTimes`) or
the activation (`Enable`), which are by `_id`. The router looks up the lower-cased
address but hands the guards the address as it was spelled; only the disposal depends on
the difference (`exact`), and with another spelling it matches nothing. `Modes` are the
dispositions of the flows mounted over the collection.

### Sessions

A token is a fresh uuid, so a pair is named by the request that drew it and its
round (a retried login, or a second `refresh` field in one operation, draws
again). `hash` and `ttl` are Redis. A `Promise.all` of two commands is one step in which any
subset of the commands takes effect, and only both succeeding goes on (`Both`): one client
sends its commands over one connection, in order, so a clean-up is never overtaken by the
command it cleans up after. The login transaction writes the account row it has read,
so a block waits for it (`HoldsRow`). `Block` disables the account and flags every session there
is, as the comment of `isSessionBlocked.mts` tells the operator to do.

### WithTx and AtomicTx

Each call goes through `connect, begin, set, fn, commit | rollback, release` and
then `delay` or `done`, as `runTxAttempt`, `runTxBody` and `runTxWithRetries`
do. A handle is `<<call, attempt, client>>`; `open` holds those whose
`state.open` is true. `fn` is arbitrary: it queries through its handle, swallows failures or not, goes back
to savepoints, resolves while statements are still possible on the handle (which
is closed first), or throws. The server side is `session` and `work` of each client and
`durable`, the attempts whose statements were committed. `COMMIT` may succeed, be refused, answer
with the tag ROLLBACK, or lose its answer either way.

`AtomicTx` has two variables: `applied` and `answer` of each call. The refinement
maps `applied[c]` to "some attempt of `c` is durable".

### AccessPaths

A consumer may map every field of both flows to a path of its own. A path is a
sequence of names, a document a function from the paths of its leaves to values,
and `readPath`, `Selected` (`buildProjection`), `Unset` (`buildUnset`) and `SetTo`
work on any of them. A request is one step here: interleavings and clocks are
`ResetPassword`'s and `Registration`'s matter. `Updatable` is the server's refusal of
an update that names a path twice or a path below another. `Sound` is what a
layout owes and nothing checks when a flow is made: two hash slots, and lists to clear
that cover their slot. It is enough, not necessary.

### Logins

`rows` are the committed documents; a flag is absent, a boolean, or one of the seven
kinds of string that may be stored (`Raw`; `'True'` is every spelling of true but the plain one, `'yes'` is
`'1'` as well, and `'no'` is `'0'`). `Hydrated` is a read through the Mongoose schema, which casts `'true'`, `'1'`,
`'yes'` and their opposites and drops every other string, and `Lean` one that is not. A login is a transaction: `Read` fixes its
snapshot, `UpdateLoginStats` conflicts or locks the row, `Commit`, `RetryTransient` and
`Throw` are the driver's; whether the credentials are right is decided anew each time the callback runs
(`RefuseCredentials`, `RefuseLockedOut`). The script goes field by field (`Sweep`), takes the strings
there are (`Find`), and writes one document at a time by its `_id` (`Migrate`), in a dry run
nothing. It may be killed (`Fail`) and started again; others set flags, as booleans or
as strings, to another meaning or to the same in another form (`SetFlag`). `late` and `lost` remember where the script wrote over a flag that was set
after it had read it: the update is by `_id` alone, so this can happen, and
`MeaningKept` says that nothing else changes a meaning. What a login leaves in Redis is in `Sessions`.

### LockOrder

A process is one handle of `withTx`. `rank`, `mode` and `check` are the tracker's state,
`locked`, `pending` and `instant` the clock's slot, `running` and `queued` the statements a client
has sent, one of which the server works on. The helpers belong to the consumer and follow the
docs: an unconditional helper records its admission before the statement, a try-lock when a row
came back. `Lock` admits, records and sends in one step, since no `await` is between them;
`Granted` lets the helper go on, which tells the clock (`lockTaken`). A transaction of `Careless` may
call a helper while another is on its way, one of `Unchecked` may switch the check off, and both
make it `loose`: the property about waits is about the others.

### PgPool, DatabaseUrl and RoleCheck

`connectAndCheck` is a race: `race[c]` is what its promise settled as, `work[c]` where the work
is, which goes on after the deadline. `Refuse` closes the client, and the pool forgets it; a client that
is handed out has won. `DatabaseUrl` has the URL as the record a parser makes of it, the two checks on it
(`databaseUrlReason`, `poolUrlSecrets`) as operators, and `Settings`, what the driver makes of
the same URL. `RoleCheck` is one boot: `Wire` (the URL check, if the service asks for it, and
`createPool`'s own), `Plan`, then one action per catalog statement on a client that the pool lends,
while an administrator changes one thing of the catalog at a time (`Alter`), statements fail
and the connection is lost; at the end it closes the pool and throws, or the users of the pool start.
The recursive membership query and the privilege functions of the server are external and modelled
by their meaning; what a service expects (`Expectations`, `Met`) is said again without them.

### GuardedWrite and the parsers

A handler loads a version, updates under it, and either reads the column it returned or asks
`guardVersion`, while the other handler updates the row and others delete, share and hide it: every statement
at READ COMMITTED sees what is committed when it starts. A row that does not match is missed at once, one that does is waited for
(`Miss`, `UpdateRow`). Any statement and the COMMIT may fail in any of the ways `mapDbError` tells apart, be run again by `withTx` (`Again`), or end in an error that
`withTx` builds and counts itself (`TxFails`, `TxReasons`). A COMMIT may be refused (`CommitFails`), or lose its answer
(`CommitLost`): then the handler answers an error, and the server commits or rolls back on its own (`ServerEnds`).
`text` holds what the last step stored and read: the server's printing (`Printed`, `PrintedDate`, `array_out`) is the reference, the parsers are the code. An
instant is a day and the milliseconds and microseconds of it, because TLC's integers are 32 bits wide.

### Upload

`writer`, `source`, `sent` and the two failure flags are the streams; `Data`, `SourceEnds`, `SourceFails`,
`WriteFails`, `Opened` and `Close` are their events, in any order that Node.js allows. Then the pipeline goes
place by place; `Removed` is a clean-up whose failure is swallowed. `InitClamScan` happens at any time
or never. ClamAV removes what it finds infected, by the default of `initClamScan`; a consumer that
switches `removeInfected` off is outside of the model (section 6).

### Debounce, MailThrottle and Mails

`MailThrottle` has the map (`sentAt`), its insertion order (`place`), the clean-up of what has expired and the
eviction of the oldest at `maxKeys`; `Debounce` has neither and says when a notice may be dropped or sent
again. `Mails` has every method of `SocketLabsLib`: its content, which is built before it is handed over and may
throw, and the link in it. A link is a sequence: its base, whose query or fragment belongs to it, then slashes and
characters; `Params` is what the route of the page reads in it, and `QueryParams` what the page of the older reset link reads,
which has hash and address in a query (`resetConfirmationHashMessage`).

### StripTags

The loop of `cleanHtml` as a state machine: `SearchOpen` and `SearchClose` are the two `indexOf` calls of
one turn; what follows the second is one of `NoClose`, `EmptyTag` and `Tag`. `scanned` counts the characters
they look at.

## 3. Runs

| Run | Question | Bounds | Distinct states |
|---|---|---|---|
| `ResetPassword` | the safety of the reset flow | 2 resets, 2 updates, 2 hashes, 2 runs of a callback, clock to 2 with both durations 1 | 1.7 million |
| `ResetPasswordLive` | does every request end? | 1 reset, 2 updates, as above, fair | 73 thousand |
| `Registration` | who can verify or adopt an address; counter; links | 2 sign-ups with 2 runs, 2 links, 1 change, 2 addresses, 2 hashes, limit 2, clock to 1 with window 0 | 810 thousand |
| `RegistrationDisposed` | is what the guards dispose of pending? | 1 sign-up, 2 links | violation |
| `Logins` | flags and dates beside the migration | 2 logins, one row of each collection, at most one flag set at the start (string or boolean), one re-run, one other write, one run of the script | 4.2 million |
| `Sessions` | rotation, expiry, clean-up, block | 3 requests, 3 pairs, 1 death, 2 keys that end by their expiry | 1.0 million |
| `WithTx` | the promises of the wrapper, refinement and progress | 2 calls, 1 client, 2 retries | 146 thousand |
| `Locks` | waits and instants of the tracker and the clock | 2 transactions, 2 modes, 2 ranks and a queue row, one careless, the other with a clock, the check always on, clock to 1 | 1.2 million |
| `RoleCheck` | URL, pool and role of a boot | 2 clients, pool of 1, the boot and 2 users, 8 services (one whose role has a name to be quoted, one whose membership names no role), 2 changes of the catalog (of the effective role; another role has neither flags nor ownership), URLs with one part changed and every query of up to two parameters of nine | 551 thousand |
| `GuardedWrite` | lost updates, true refusals, exact values | 2 handlers, 3 versions, 6 instants, 3 zones, arrays of up to two elements | 297 thousand |
| `Upload` | what is stored, vetted and moved | an image and a PDF, 8 contents of up to 2 chunks, limit 1, 2 destinations | 410 thousand |
| `Mails` | the throttle against its promise; links | 3 keys of which 2 are tracked, window 2 with clock to 2, 4 sends; 4 addresses, 4 bases, 2 paths | 127 thousand |

Why the bounds are enough. *ResetPassword*: the hazards need one request that
overtakes another, twice the throttle, an expired link and one re-run; two
requests of each kind, three instants and two runs give each of them.
*Registration*: every race is between two handlers, and the third party (a change,
or the control panel) is there as well; the limit of 2 lets the counter be reached
by one wrong hash. *Logins*: the properties are about one place, one pair of
logins and one write after the script's read. A script that is killed leaves
some flags rewritten, as booleans, and the others not: where one flag was set, what it leaves is an initial
state of the instance again. A second flag, and a second run beside open logins or writes, are not in the run;
the theorems hold for any number of flags, writes and runs.
*WithTx*: one client for two calls makes every hand-over of a client between calls happen, and two
retries give a first, a middle and a last attempt. *Locks*: a circle of waits across ranks needs
two transactions and two ranks; the queue row is the lock that has none. Switching the check off only
makes a transaction `loose`; the proofs of section 4 have it. *RoleCheck*: a pool of one
makes the boot and a user compete, and the second client is the one that is opened
when the first was refused; each verdict needs one expectation to change, and two
changes take it away and give it back. *GuardedWrite*: a lost update needs two clients of one version;
the instants are both sides of 1970, the ends of the years that are read, and both
ends of February. *Mails* has an address for every way to break a link: in a path, in a query, in both, in neither.
*Upload*: one chunk is within the limit and two are over it; two uploads
compete for a destination. *Mails*: three keys over a map of two force an eviction within the window.
*Sessions*: three requests are a
login, a refresh of its session and a third one that races either, or comes after
the block. Symmetry is used in safety runs only. `CHECK_DEADLOCK FALSE` is set
because the requests of an instance all end, or its bounds are used up.

Passing runs check, beside the inductive invariant `IInv` of each module (`LockIInv` of `LockOrder`,
`GuardIInv` of `GuardedWrite`, `ThrottleInv` of `MailThrottle`: its types, what is named here in brackets, and the strengthening of section 4):

* `HashSpentOnce`, `OnlyTheStoredHashWorks`, `NoChangeWhileBlocked`,
  `StoredAtMostEveryThrottle`, `ConfirmedMeansChanged`, `UnstoredMailNeedsRetry`,
  `EveryRequestSettles` of the reset flow;
* `NoStrikeLost`, `VerifiedByItsMail`, `ChangedByItsMail` (`PendingIsReachable`) of sign-up and change;
* `MeaningKept`, `VerdictFollowsFlags`, `LoginsInOrder` (`StatsOk`, `CleanMeansAgree`) of logins and migration;
* `SpentTokenIsDead`, `AnswerMatchesStore`, `QuietBlockHolds` (`NoImmortalSession`) of the sessions;
* `AtomicSpec`, `EveryCallAnswered` of the wrapper;
* `WaitsNeverDescend`, `InstantAfterFirstLock`, `OneInstant` of tracker and clock;
* `VerdictsAreGrounded`, `BootSettles` (`HandedOutIsChecked`, `ConnectsAsNamed`) of a boot;
* `NoLostUpdate`, `RefusalIsTrue`, `StampIsExact` (`CountedOnce`) of guarded writes;
* `ServedIsVetted`, `EveryUploadEnds` (`StoreAnswersForItsFile`) of uploads;
* `KeepsItsPromise`, `LinksLeadBack` of the mails.

Two more instances are beside the runs, for modules whose theorems stand on hypotheses. `MCAccessPaths` with
`AccessPaths.cfg` checks `PathsIInv`, `OneTime` and `FlowsApart` for a layout of a consumer's own (12 paths; the reset
flow clears a subdocument as one, one flag deletes and disables; 3 hashes, from any set of leaves none of which
is below another; 70 thousand states, some seconds), and that this layout satisfies what the theorems assume
(`LayoutIsSound`). `MCStripTags` with `StripTags.cfg` checks `StripIInv`, `LikeTheRegex`, `NoTagLeft` and `Linear` for
every string of up to eight characters over `<`, `>` and one other (44 thousand states).

**Fairness.** Every fair specification assumes weak fairness only, and of steps that the
event loop, a timer or an answer will take. `ResetPassword!FairSpec`: the steps of each
request that has been made: Node.js keeps running a request whose awaits settle,
and the driver's commands have timeouts. Nothing is assumed of calls, deaths, the control
panel or the clock. The number of runs is bounded because `withTransaction` stops
retrying after its time limit. `WithTx!FairSpec`: the steps of each call other than the
failure of a checkout: the event loop runs every continuation, the server answers, `fn` ends. Strong
fairness for the checkout is not needed, since the calls that could take
the client first end after their bounded retries. `RoleCheck!FairSpec`: the synchronous steps of the
boot, an answer or a failure of a statement that was sent, the deadline's timer and the end of a closed
socket; a connection attempt need not answer, which is what the deadline is for. `Upload!FairSpec`:
the upload's stream ends or fails, and the disk, the scanner and sharp come back.

### Where the code does otherwise than a sentence says

`RegistrationDisposed` ends in a violation: the guards decide on a copy of the row, await
a mail and then delete by address, so a visit that saw the limit reached deletes an
account that another visit has activated meanwhile. The comment of `accessPaths.mts:136` speaks of "an abandoned
pending registration".

The models also show these, without a run of their own; the properties of the passing runs allow
for them where they matter:

* `resetPwd.mts:103`, "set only when the transaction actually persisted a fresh reset request": a re-run
  callback that is throttled leaves `pendingMail` of its first run, and a dead link is mailed
  (`UnstoredMailNeedsRetry` says that nothing but a re-run does it).
* `accessPaths.mts:92`, "Five wrong hashes delete the account": the counter starts at 1 and is tested before
  the hash, so after four wrong hashes the fifth visit disposes, even with the right one.
* `verifyEmailMailer.mts`, `sendWelcome` "fires once": two visits that read the same pending row both send it.
* `docs/code/graphql-mutations.md:384`, `true` only when the address "is still free": a sign-up may commit
  between the count and the update.
* `isSessionBlocked.mts:5`, flag the sessions to block access: a refresh past its middleware stores a pair
  without the flag (`QuietBlockHolds` says that nothing else gets by).
* `guardVersion.mts:36`, "so that the re-read sees what the update saw": at READ COMMITTED it sees what is committed
  when it starts; `RefusalIsTrue` says what its answers are worth.
* `migrate-account-disabled-to-boolean.mjs:16`, "it only touches fields whose stored `$type` is `string`": the update is
  by `_id`, so a boolean written after the cursor's read is overwritten (`lost`).
* `migrate-account-disabled-to-boolean.mjs:29`, the schema "repairs hydrated reads" (`CHANGELOG.md:1105-1106` says so as well): not
  those of a `'True'`, which the script takes for true (line 35, "any case") and the cast of Mongoose drops, so a row that it
  locks is let in until the script is through (`VerdictFollowsFlags` says that nothing else is).
* `docs/code/files.md:479`, `tempFile` "is the same on-disk file": of an infected PDF, ClamAV has removed it.
* `messageParts.mts` and `resetMessages.mts`: a link does not lead back when its address has a character that `encodeURI`
  leaves alone and that ends a part of it: `/`, `?` or `#` in a path, `&`, `#` or `+` in the query of the older reset link
  (for `&`, `SocketLabsLib.spec.mts` has the broken link as expected); when the base has a query or a fragment,
  which `isHttpLinkBase` lets pass; and, for the change of an e-mail and the older reset link, when `APP_DOMAIN`
  ends in a slash (`LinksLeadBack` says exactly when).
* `createResetPwdFlow.mts:46`, the layout of the example: `resetClear: ['resetPwd']` with the default `resetHash` leaves the
  hash unspent; it is not `Sound`.

## 4. Proofs

The theorems hold for any sets of requests, calls, transactions, clients, rows and keys, any durations,
layouts and strings, and any bounds, under the named assumptions of the modules (kinds of requests are
disjoint, `NoReq` and `NoClient` are not members, bounds are natural numbers ...), which TLC evaluates in
the runs. What the theorems on `AccessPaths` need of a layout is their hypothesis `PathsAssumption`, with `Sound`
where hashes are spent; those on `StripTags` assume that strings are sequences of characters (`StringsAssumption`).

Each proof has one shape: the property is not inductive, because it speaks of what has happened while the
next mistake is prevented by what requests know; `IInv` adds what a request may still rely on at each of its
places. There is one lemma for each action, and in it one step for each part of `IInv` that the action can
disturb. TLC checked every `IInv` on the runs of section 3 before it was proved.

*ResetPassword.* `HashSpentOnce` is not inductive: nothing in it says that a second
update past its check will meet a conflict. `IInv` adds `LockInv` (the document
is locked only by an open transaction whose snapshot is still current),
`SnapshotInv` (a current snapshot agrees with the document, and an update past
its check that could still commit was let through by the hash that is stored
now) and `FreshInv` (no hash that changed a password is stored, or about to be
stored, again). From it follow `ResetTypeOK`, `ResetHashSpentOnce` and the two
action properties `ResetNoChangeWhileBlocked` and
`ResetOnlyTheStoredHashWorks`, by the lemma `PasswordChange`: only `Apply` of an
update that holds the lock changes the password. Two more facts carry the promises about mails
and time: `MailInv` (a request whose callback has run once has a link to mail only when the open transaction, or
a committed one, has stored it) and `DateInv` (no date lies ahead of the clock, and one about to be stored keeps
its distance); with them `ResetConfirmedMeansChanged`, `ResetUnstoredMailNeedsRetry` and
`ResetStoredAtMostEveryThrottle`.

*Registration.* A request holds a copy of a row across awaits, so `IInv` says what of it still stands: the row a
link has found keeps its address while it is pending, the row of a change is verified for good, and a change whose
hash was mailed to an address is still a change to that address (`ReqOk`, `RowOk`, `FreshIds`, `PendingIsReachable`). A step of
one request preserves what the others rely on when every row it leaves stays verified once it is and keeps its
address while it is not (`Keeps`, `Frame`); three lemmas cover the ways a step may touch the rest: not at all
(`LocalIInv`), by ending (`FinishIInv`), by ending with a write to a row (`FinishRowIInv`).
`RegistrationNoStrikeLost`, `RegistrationVerifiedByItsMail` and `RegistrationChangedByItsMail` follow.

*Logins and migration.* Logins and script meet in the rows only. A step of a login changes no flag, and a write of
a flag changes no date and waits for the lock of a login that has written (`Written`, `PutStep`): what a login relies
on is kept by the one fact, what the script relies on by the other. `LoginOk`: a login that has written its row holds its
lock and read it as it is, flags included, and will store a date no older than the one that is there. `ScriptOk`: what is in the batch is
what is stored, but for what others wrote since. `SweptOk`: where the script has been, nothing but its batch is
still a string. Hence `LoginsIInv` (with `CleanMeansAgree`, `StatsOk`), `LoginsMeaningKept`, and the action
properties `LoginsStayInOrder` and `LoginsVerdictFollowsFlags`.

*Sessions.* Two ideas carry `IInv`: a pair that a client can present is settled (`TokenOk`), so no request ever
stores it again; and a key has an expiry only if its pair is settled (`FreshOk`), so none expires under the
request that is storing it. `SpentOk` says that the presented token is gone once its deletion has been answered,
`QuietInv` that after a quiet block nothing is served, stored or on its way to be. `SessionsNoImmortalSession`,
`SessionsSpentTokenIsDead`, `SessionsAnswerMatchesStore` and `SessionsQuietBlockHolds` follow; they speak of what was answered, so each step is
split on whether the request was answered before or is answered by it.

*WithTx.* `IInv` consists of `CallInv` (what each place of a call implies for its
client, handle and verdict), `SessionInv` (which attempt may have a transaction open
on a client and whose work it holds) and `DurableInv` (an attempt is durable only
if its call has committed, or lost the answer, and will not be retried), besides the
properties themselves. The step that matters is the verdict: a failure that is
retried or reported by an error of the wrapper's own was never committed, because
the only failure that can follow a commit, the lost answer, is rethrown.
`WithTxImplementsAtomicTx` maps `Commit` and a `CommitLost` that took effect to
`Apply`, `Release` of a final verdict and `ConnectFails` to `Answer`, and everything
else to a stutter.

*LockOrder.* `RankInv`: a transaction that is not `loose` holds nothing above its recorded rank, and an
unconditional lock that it waits for has exactly that rank. `ClockInv`: a write clock has a read under way
only after its first lock, and no instant is older than the end of the transaction that held that row.
`LockOrderWaitsNeverDescend`, `LockOrderInstantAfterFirstLock` and `LockOrderOneInstant` follow.

*DatabaseUrl, PgPool and RoleCheck.* `FirstIsLast`: where no key comes twice, the parameter the check has read (the first)
is the one the driver uses (the last). Hence `PoolSettingsStand` and `AcceptedUrlIsSound`, for a query of any length.
`RoleCheckIInv` has one invariant for the pool (`HandedOutIsChecked` and `ClientsOk`: a client that is handed out was checked in time) and one for the
boot (`BootOk` and `CheckedSoFar`: what was checked so far was so at some instant of the boot); the boot relies on the pool only for the client in its hands staying there. For
`RoleCheckVerdictsAreGrounded` the statements have to ask what is expected: `GrantIsAsked`, `AttributeIsAsked`, and
`MemberIsReachable`, where the least closed set of the recursive query meets the chains of memberships: a shortest chain
visits no role twice, so it is no longer than there are roles.

*MailThrottle and Mails.* `ThrottleInv` says that the map agrees with the history of sends and is in its order, so the
entry that is evicted is the oldest (`OldestIsFirst`), and at least `maxKeys` other keys were sent after it
(`EvictedInv`); with that each send is one of `Debounce` (`NextImplements`). `MailsImplementThrottle` lifts it to
every mail: each step of `Mails` is one of the throttle, or leaves it alone. For `MailsLinksLeadBack` the invariant is
only that `APP_DOMAIN` is one of the bases; the work is in what the route reads of the link, which is found
position by position: position by position. It leads back: the path is the page (`LinkPathIsPage`), its last two segments are the address and
the hash (`LinkParts`), and the address, escaped and unescaped, is the one that was written (`ReadsBack`), in a query up
to the next parameter (`QueryReadsBack`). It does not, in the named cases only: a base with a query or fragment ends the
path before the page (`CutIsNotRead`), slashes that stay at the end of the base put the page elsewhere (`SlashesAre`,
`OffIsNotRead`, `QueryOff`), and a separator in the address ends a part too early.

*Upload.* `StreamOk` says what the two streams of an upload have done by its place (all of it was sent before
`close`, unless something failed), `PlaceOk` which checks its file has passed, `DestOk` that what lies in a
destination passed them all. A step is one upload's, so the invariant is kept upload by upload (`StepOfOne`);
`UploadServedIsVetted` follows.

*Guarded writes.* What a refusal claims must have been so between the request's first statement and its last.
`GuardIInv` says why nothing slips through: the row is locked by the update that matched it (`LockOk`), each
version was left by one update, whose call answered "ok" or lost the answer of its COMMIT (`LogOk`, `CountedOnce`), and between an update that missed and the re-read, what hid
the row still stands or is known to have happened (`GuardOk`). All refusals are one kind of step (`Refused`), and so are
all writes of others (`Becomes`). `GuardedNoLostUpdate` and `GuardedRefusalIsTrue` follow, for any table of mapped
errors that does not use a reason of the kit as a code; `NoLostUpdate` says of the calls that lost no answer
that they answer "ok" exactly when their update was committed, and of the others that they never do.

*What a guarded write reads back.* `GuardedStampIsExact` says that whatever an own column stores, in whatever zone the
server prints it, the handler reads what is stored, or the error that says why it cannot. The invariant is only that what is
stored is a value of its column (`StoredAssumption`); the work is that the parsers undo the printing (`ColumnIsExact`), in
three parts. The *calendar*: a day of an era is centuries, four years, years and a rest
(`EraParts`), each quotient of `civilFromDays` is read off these, and the reference, which counts days of years and
months, has the same parts (`DaysFromCivilIsDayNumber`, `CivilOfIsCivilFromDays`). *Instants*: the printed time is one
that is readable (`PrintedIsReadable`), and the epoch value is the stored instant, cut toward 1970 (`EpochIsCut`); hence
`TimestamptzExact`. *Arrays*, of any length: `ArrayReadsBack`. The scanner, the splitter and the printer are recursive functions. Each is first shown to
obey its recursion (`Closing`, `Unescaping`, `Splitting`, `Flattening`); then what it computes is shown
place by place, by contradiction at the least place where it would fail (`LeastOf`, `FromTheEnd`, `FromTheStart`), which needs no
induction rule: every printed element begins and ends where the separators say (`PlacesFound`), the scanner reads it there
(`ScannedOut`), and so the splitter has them all (`ElementsRead`).

*AccessPaths.* `PathsIInv` says that a slot holds only what its flow has drawn and not yet accepted (`LiveIsOwn`). Most of
the work is in the lemmas on documents: what `Unset` and `SetTo` leave at a path (`UnsetHolds`, `SetHolds`,
`UnsetSpends`), and what a projection shows (`SelectedHolds`). `Sound` is used where a hash is accepted:
its slot is unset in the same update. `DefaultsAreSound` says that the shipped maps are sound.

*StripTags.* The loop invariant `StripIInv`: the matches so far are those of the expression in the part that is settled,
`out` is the rest of it, and a `<` that stays behind is next to its `>` or has none. At the end all is settled:
`StripsLikeTheRegex`, `StripsEveryTag`, `StripsInLinearTime`.

What the attempts changed in the models: invariants that TLC had passed as they were got the parts above, which
say why they hold; overlapping arms of a `CASE`, which TLC takes in their order and the prover does not, became
an `IF` or end in `OTHER`; and assumptions that the instances satisfied without saying so are now stated: a file that is
missing is no file (`Upload`), an account row exists (`Logins`), the roles and clients are finitely many (`RoleCheck`,
`PgPool`), keys of sessions end a bounded number of times (`Sessions`), the codes of an error table are not the reasons of the kit's internal errors, nor of `withTx`'s (`TableAssumption`), a column stores values of its type (`StoredAssumption`), and a
link's parts are texts that a link can hold (`LinksAssumption`: a hash without a separator, an
address without a literal `%20`, a base that ends in slashes after its name or after its query or fragment, pages that
start with one slash and have neither `?` nor `#`).

Definitions were split where a proof had to speak of a part of one: `ReadsNull` and `FromElement` of the array scanner,
the three endings of a turn of `cleanHtml`, and documents of `AccessPaths` by what makes one (`IsDocument`) instead of by
a set.

Only model-checked: liveness (`EveryRequestSettles`, `EveryCallAnswered`, `BootSettles`, `EveryUploadEnds`), which
needs fairness and `ENABLED` and is beyond the prover.

## 5. Abstractions

* Hashes and tokens are drawn without repetition; a guess never equals one.
  Guessing is one value (`GuessedHash`) that no row holds.
* Time is a counter; the durations are constants, and the clocks of processes and of the database
  agree and do not go back.
* Passwords are named by the request that sets them; bcrypt, length checks and the
  wording of mails and errors are left out, because they change no state.
* The development-only introspection bypass of the middlewares is left out.
* The flows of `ResetPassword` and `Registration` use the default layout; `AccessPaths` has the others.
* The cursor of the migration script holds every string of a field in one batch; a driver fetches
  more than one in a large collection, which only makes what it read younger.
* Strings are short sequences of characters that matter to the code (`<`, `>`, slashes, quotes, separators);
  a URL is what the URL parser made of it.
* Ids and versions are not used again.

## 6. Not modelled

* `hold` and `held` of the lock tracker (a strength a consumer keeps by key and reads back), advisory
  locks, and the sharing of the tracker's and the clock's slots by two loaded copies of the package:
  maps without a race of their own, since Node.js runs one of them at a time.
* The columns `bigint`, `bigint[]` and `uuid[]`, with `parseBigint` and `parseUuid`: one test of each text.
* `initClamScan` with `removeInfected: false`: `uploadTempPdf` does not look at the answer of
  `scanVirus`, so an infected PDF would pass; the default removes it.
* `infoUserForLoginSQL`, `setLastLoginSQL`: one statement each, of a database that no mutation here uses.
* The singletons in `dataSources/`: one call of a client at boot and one at exit.
* The Koa error handler and the request log: one request, one catch, one insert.
* GraphQL types, inputs and the throw helpers: declarations.
* `scripts/` other than the migration, `.agents/`: tooling of the repository, which does not run with the package.

What could be added: models of the lock tracker's `hold` and `held`, and of the error handler's insert.
