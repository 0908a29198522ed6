------------------------------ MODULE AccessPaths ------------------------------
(***************************************************************************)
(* The path maps of createResetPwdFlow and createVerifyEmailFlow: which    *)
(* fields of an account's document the two flows read, set and unset when  *)
(* a consumer lays the document out in a way of his own.  How the flows    *)
(* interleave, and the times at which a hash expires, are ResetPassword's  *)
(* and Registration's matter; here a request is a step, the flows share a  *)
(* document, and the layout is any.                                        *)
(*                                                                         *)
(* A path is a sequence of field names, and a document a function from the *)
(* paths of its leaves to values; a leaf that is false reads as one that   *)
(* is not there.                                                           *)
(*                                                                         *)
(* External: MongoDB's projection and update operators.                    *)
(***************************************************************************)
EXTENDS Integers, Sequences

CONSTANTS
  Path,            \* the paths of fields that documents and layouts may name
  Hashes,          \* what randomString draws
  Flag,            \* a stored value that is no hash: a date, a count, true
  Absent, Inner,   \* what readPath gives for no field, and for a subdocument
  resetOverrides,  \* the paths a consumer gives, of the reset flow
  verifyOverrides  \* and of the verify-email and e-mail change flows

IResetPwdPaths ==
  [email : Path, password : Path, name : Path, resetDateReq : Path, resetHash : Path,
   deleted : Path, disabled : Path, resetClear : SUBSET Path]

IVerifyEmailPaths ==
  [email : Path, valid : Path, hash : Path, dateLastReq : Path, requestTimes : Path,
   newEmailTmp : Path, deleted : Path, disabled : Path,
   verifyClear : SUBSET Path, emailChangeClear : SUBSET Path]

DEFAULT_RESET_PWD_PATHS ==
  [email |-> <<"login", "email">>, password |-> <<"login", "password">>,
   name |-> <<"personalData", "name">>,
   resetDateReq |-> <<"account", "resetDateReq">>, resetHash |-> <<"account", "resetHash">>,
   deleted |-> <<"account", "deleted">>, disabled |-> <<"account", "disabled">>,
   resetClear |-> {<<"account", "resetDateReq">>, <<"account", "resetHash">>}]

Of(field) == <<"account", "email", field>>

DEFAULT_VERIFY_EMAIL_PATHS ==
  [email |-> <<"login", "email">>, valid |-> Of("valid"), hash |-> Of("hash"),
   dateLastReq |-> Of("dateLastReq"), requestTimes |-> Of("requestTimes"),
   newEmailTmp |-> Of("newEmailTmp"),
   deleted |-> <<"account", "deleted">>, disabled |-> <<"account", "disabled">>,
   verifyClear |-> {Of("hash"), Of("dateLastReq"), Of("requestTimes")},
   emailChangeClear |-> {Of("hash"), Of("dateLastReq"), Of("requestTimes"), Of("newEmailTmp")}]

Merged(defaults, overrides) ==
  [k \in DOMAIN defaults |-> IF k \in DOMAIN overrides THEN overrides[k] ELSE defaults[k]]

resolveResetPwdPaths(overrides) == Merged(DEFAULT_RESET_PWD_PATHS, overrides)
resolveVerifyEmailPaths(overrides) == Merged(DEFAULT_VERIFY_EMAIL_PATHS, overrides)

resetPaths == resolveResetPwdPaths(resetOverrides)
verifyPaths == resolveVerifyEmailPaths(verifyOverrides)

Values == Hashes \cup {Flag}

\* Maps of the types the factories ask for, over what a document may hold.
PathsAssumption ==
  /\ Path \subseteq Seq(STRING)
  /\ Flag \notin Hashes
  /\ Absent \notin Values /\ Inner \notin Values /\ Absent # Inner
  /\ resetPaths \in IResetPwdPaths
  /\ verifyPaths \in IVerifyEmailPaths

----------------------------------------------------------------------------
(* Documents.                                                              *)

IsDocument(d) == DOMAIN d \subseteq Path /\ d \in [DOMAIN d -> Values]

\* p names q or a subdocument that q is in.
Covers(p, q) == Len(p) <= Len(q) /\ \A i \in 1 .. Len(p) : p[i] = q[i]
Apart(p, q) == ~Covers(p, q) /\ ~Covers(q, p)

\* A link that is missing, or is no object, reads as absent.
readPath(d, p) ==
  IF p \in DOMAIN d THEN d[p]
  ELSE IF \E leaf \in DOMAIN d : Covers(p, leaf) THEN Inner
  ELSE Absent

\* buildProjection: what a query hands back of a document.
Selected(d, paths) ==
  [leaf \in {l \in DOMAIN d : \E p \in paths : Covers(p, l)} |-> d[leaf]]

\* buildUnset: $unset takes away what is at or below its paths.
Unset(d, paths) ==
  [leaf \in {l \in DOMAIN d : \A p \in paths : ~Covers(p, l)} |-> d[leaf]]

\* $set writes a leaf in the place of what was at or below its path.
SetTo(d, values) ==
  [leaf \in {l \in DOMAIN d : \A p \in DOMAIN values : ~Covers(p, l)} \cup DOMAIN values |->
     IF leaf \in DOMAIN values THEN values[leaf] ELSE d[leaf]]

\* The server refuses an update that names a path twice, or a path and one below
\* it, and one that sets a field of what is no object.
Updatable(d, values, paths) ==
  LET named == DOMAIN values \cup paths IN
  /\ DOMAIN values \cap paths = {}
  /\ \A p, q \in named : p # q => Apart(p, q)
  /\ \A p \in DOMAIN values, leaf \in DOMAIN d : Covers(leaf, p) => leaf = p

Updated(d, values, paths) == SetTo(Unset(d, paths), values)

Flags(paths) == [p \in paths |-> Flag]

----------------------------------------------------------------------------
VARIABLES
  doc,         \* the document of one account
  issued,      \* history: the hashes each flow has drawn
  honoured     \* history: the hashes each flow has accepted

pathsVars == <<doc, issued, honoured>>

Flows == {"reset", "verify"}

PathsTypeOK ==
  /\ IsDocument(doc)
  /\ issued \in [Flows -> SUBSET Hashes]
  /\ honoured \in [Flows -> SUBSET Hashes]

\* No leaf is below another.
Trees == {leaves \in SUBSET Path : \A p, q \in leaves : p # q => Apart(p, q)}

\* An account without a hash.
PathsInit ==
  /\ doc \in {Flags(leaves) : leaves \in Trees}
  /\ issued = [f \in Flows |-> {}]
  /\ honoured = [f \in Flows |-> {}]

Has(d, p) == readPath(d, p) # Absent
Holds(d, p, h) == readPath(d, p) = h

\* The flags are read raw: whatever is there blocks.
Blocked(d, paths) == Has(d, paths.deleted) \/ Has(d, paths.disabled)

\* An update runs whole, or the server refuses it (its validator may, too).
Update(values, paths) ==
  \/ Updatable(doc, values, paths) /\ doc' = Updated(doc, values, paths)
  \/ UNCHANGED doc

Fresh(h) == \A f \in Flows : h \notin issued[f]
Issue(f, h) == issued' = [issued EXCEPT ![f] = @ \cup {h}] /\ UNCHANGED honoured
Honour(f, h) == honoured' = [honoured EXCEPT ![f] = @ \cup {h}] /\ UNCHANGED issued

----------------------------------------------------------------------------
(* The reset flow.                                                         *)

getResetPwd ==
  Selected(doc, {resetPaths.name, resetPaths.resetDateReq, resetPaths.resetHash,
                 resetPaths.deleted, resetPaths.disabled})

saveResetReq(h) ==
  /\ ~Blocked(getResetPwd, resetPaths)
  /\ Fresh(h)
  /\ Update([p \in {resetPaths.resetDateReq, resetPaths.resetHash} |->
               IF p = resetPaths.resetHash THEN h ELSE Flag], {})
  /\ Issue("reset", h)

\* updatePasswordDb and removeResetReq in one transaction: both run, or none.
UpdatePassword(h) ==
  /\ ~Blocked(getResetPwd, resetPaths)
  /\ Has(getResetPwd, resetPaths.resetDateReq)
  /\ Holds(getResetPwd, resetPaths.resetHash, h)
  /\ LET password == Flags({resetPaths.password}) IN
       /\ Updatable(doc, password, {})
       /\ Updatable(doc, Flags({}), resetPaths.resetClear)
       /\ doc' = Unset(SetTo(doc, password), resetPaths.resetClear)
  /\ Honour("reset", h)

----------------------------------------------------------------------------
(* The verify-email and e-mail change flows.                               *)

\* Of two keys of one path, the one that is written last stays.
setEmailHash(h) ==
  /\ Fresh(h)
  /\ Update([p \in {verifyPaths.hash, verifyPaths.requestTimes, verifyPaths.dateLastReq} |->
               IF p \in {verifyPaths.requestTimes, verifyPaths.dateLastReq} THEN Flag ELSE h], {})
  /\ Issue("verify", h)

userData4VerifyEmail ==
  Selected(doc, {verifyPaths.hash, verifyPaths.valid, verifyPaths.dateLastReq,
                 verifyPaths.requestTimes, verifyPaths.deleted, verifyPaths.disabled})

\* The chain of guards lets the link pass.
assertVerifyEmailAllowed(user, h) ==
  /\ ~Has(user, verifyPaths.valid)
  /\ Has(user, verifyPaths.requestTimes)
  /\ Has(user, verifyPaths.dateLastReq)
  /\ Holds(user, verifyPaths.hash, h)
  /\ ~Blocked(user, verifyPaths)

enableEmailAccess(h) ==
  /\ assertVerifyEmailAllowed(userData4VerifyEmail, h)
  /\ LET valid == Flags({verifyPaths.valid}) IN
       /\ Updatable(doc, valid, verifyPaths.verifyClear)
       /\ doc' = Updated(doc, valid, verifyPaths.verifyClear)
  /\ Honour("verify", h)

loadVerifyContext ==
  Selected(doc, {verifyPaths.hash, verifyPaths.dateLastReq, verifyPaths.requestTimes,
                 verifyPaths.deleted, verifyPaths.disabled})

confirmNewEmail(h) ==
  /\ Has(doc, verifyPaths.newEmailTmp)
  /\ Holds(loadVerifyContext, verifyPaths.hash, h)
  /\ Has(loadVerifyContext, verifyPaths.dateLastReq)
  /\ ~Blocked(loadVerifyContext, verifyPaths)
  /\ LET email == Flags({verifyPaths.email}) IN
       /\ Updatable(doc, email, verifyPaths.emailChangeClear)
       /\ doc' = Updated(doc, email, verifyPaths.emailChangeClear)
  /\ Honour("verify", h)

SetFlag(p) == Update(Flags({p}), {}) /\ UNCHANGED <<issued, honoured>>

incReqTimes == SetFlag(verifyPaths.requestTimes)

\* createAbandonUser with 'soft-delete'.
softDeleteUserByEmail == SetFlag(verifyPaths.deleted)

\* The consumer: a change is asked for, the account is blocked, and freed.
AskChange == SetFlag(verifyPaths.newEmailTmp)
Block == \E p \in {resetPaths.deleted, resetPaths.disabled, verifyPaths.disabled} : SetFlag(p)
Free ==
  /\ doc' = Unset(doc, {resetPaths.deleted, resetPaths.disabled,
                        verifyPaths.deleted, verifyPaths.disabled})
  /\ UNCHANGED <<issued, honoured>>

PathsNext ==
  \/ \E h \in Hashes :
       \/ saveResetReq(h) \/ UpdatePassword(h)
       \/ setEmailHash(h) \/ enableEmailAccess(h) \/ confirmNewEmail(h)
  \/ incReqTimes \/ softDeleteUserByEmail \/ AskChange \/ Block \/ Free

PathsSpec == PathsInit /\ [][PathsNext]_pathsVars

----------------------------------------------------------------------------
(* Properties                                                              *)

\* What a layout owes the flows and nothing checks when a flow is made: the two
\* hash slots are not one, and each list of paths to clear takes its hash away.
Spends(clear, slot) == \E p \in clear : Covers(p, slot)
Sound ==
  /\ resetPaths.resetHash # verifyPaths.hash
  /\ Spends(resetPaths.resetClear, resetPaths.resetHash)
  /\ Spends(verifyPaths.verifyClear, verifyPaths.hash)
  /\ Spends(verifyPaths.emailChangeClear, verifyPaths.hash)

Slot(f) == IF f = "reset" THEN resetPaths.resetHash ELSE verifyPaths.hash

\* A hash that a flow has accepted is never again the one it compares with.
OneTime == \A f \in Flows : \A h \in honoured[f] : ~Holds(doc, Slot(f), h)

\* A flow accepts only hashes that it has drawn itself, and no hash is drawn by
\* both.
FlowsApart ==
  /\ \A f \in Flows : honoured[f] \subseteq issued[f]
  /\ issued["reset"] \cap issued["verify"] = {}

\* What is in a slot is a hash its flow has drawn and not accepted yet.
LiveIsOwn ==
  \A f \in Flows, h \in Hashes : Holds(doc, Slot(f), h) => h \in issued[f] \ honoured[f]

PathsIInv == PathsTypeOK /\ FlowsApart /\ LiveIsOwn
==============================================================================
