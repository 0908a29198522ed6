------------------------------- MODULE LibraryProofs --------------------------------
(***************************************************************************)
(* Proofs about four parts of the library that consumers configure, feed   *)
(* or call.                                                                *)
(*                                                                         *)
(* The path maps: for every layout that keeps the two rules of Sound, and  *)
(* every document, a hash is accepted once and by the flow that drew it;   *)
(* the default maps keep the rules; and a projection shows a guard what    *)
(* the document holds.                                                     *)
(*                                                                         *)
(* cleanHtml: for every string it answers what the regular expression it   *)
(* replaces answers, leaves no tag, and looks at no character more than    *)
(* twice.  The invariant says it of the part of the string that is settled.*)
(*                                                                         *)
(* Uploads: whatever order the events of the streams come in and whatever  *)
(* fails, what is stored is the whole upload, and nothing unvetted is put  *)
(* in its place.  A step is one upload's, so the invariant is kept upload  *)
(* by upload (StepOfOne).                                                  *)
(*                                                                         *)
(* Guarded writes: for any handlers, rows of errors and other writers, no  *)
(* update is lost, every internal error is counted once, and a refusal is  *)
(* true of the row.  A refusal is one step for every handler (Thrown),     *)
(* and other writers are one step (Becomes).  What is read back of a write *)
(* is what was written, since that is so of every column (ParserProofs).   *)
(***************************************************************************)
EXTENDS Upload, AccessPaths, StripTags, GuardedWrite, ParserProofs, FiniteSetTheorems, TLAPS

\* A path covers itself.
LEMMA CoversItself == ASSUME NEW p \in Seq(STRING) PROVE Covers(p, p)
  BY DEF Covers

\* A value of a document is read exactly where a leaf holds it.
LEMMA ReadsLeaf ==
  ASSUME PathsAssumption, NEW d, IsDocument(d), NEW p, NEW h \in Hashes
  PROVE  readPath(d, p) = h <=> p \in DOMAIN d /\ d[p] = h
  <1>1. h # Absent /\ h # Inner
    BY DEF PathsAssumption, Values
  <1> QED
    BY <1>1 DEF readPath

\* Updates lead from documents to documents.
LEMMA UnsetDocument ==
  ASSUME NEW d, IsDocument(d), NEW paths PROVE IsDocument(Unset(d, paths))
  <1> DEFINE left == {l \in DOMAIN d : \A p \in paths : ~Covers(p, l)}
  <1>1. left \in SUBSET Path
    BY DEF IsDocument
  <1>2. Unset(d, paths) \in [left -> Values]
    BY DEF Unset, IsDocument
  <1> QED
    BY <1>1, <1>2 DEF IsDocument

\* So does what is set.
LEMMA SetDocument ==
  ASSUME NEW d, IsDocument(d), NEW leaves \in SUBSET Path, NEW values \in [leaves -> Values]
  PROVE  IsDocument(SetTo(d, values))
  <1> DEFINE left == {l \in DOMAIN d : \A p \in DOMAIN values : ~Covers(p, l)} \cup DOMAIN values
  <1>1. left \in SUBSET Path
    BY DEF IsDocument
  <1>2. SetTo(d, values) \in [left -> Values]
    BY DEF SetTo, IsDocument
  <1> QED
    BY <1>1, <1>2 DEF IsDocument

\* What a projection holds, the document holds.
LEMMA SelectedHolds ==
  ASSUME PathsAssumption, NEW d, IsDocument(d), NEW paths, NEW p, NEW h \in Hashes,
         Holds(Selected(d, paths), p, h)
  PROVE  Holds(d, p, h)
  <1>1. IsDocument(Selected(d, paths))
    BY DEF Selected, IsDocument
  <1>2. p \in DOMAIN Selected(d, paths) /\ Selected(d, paths)[p] = h
    BY <1>1, ReadsLeaf DEF Holds
  <1>3. p \in DOMAIN d /\ d[p] = h
    BY <1>2 DEF Selected
  <1> QED
    BY <1>3, ReadsLeaf DEF Holds

\* To unset brings no hash into a slot.
LEMMA UnsetHolds ==
  ASSUME PathsAssumption, NEW d, IsDocument(d), NEW paths, NEW p, NEW h \in Hashes,
         Holds(Unset(d, paths), p, h)
  PROVE  Holds(d, p, h)
  <1>1. p \in DOMAIN Unset(d, paths) /\ Unset(d, paths)[p] = h
    BY UnsetDocument, ReadsLeaf DEF Holds
  <1>2. p \in DOMAIN d /\ d[p] = h
    BY <1>1 DEF Unset
  <1> QED
    BY <1>2, ReadsLeaf DEF Holds

\* A list of paths that spends a slot leaves no hash in it.
LEMMA UnsetSpends ==
  ASSUME PathsAssumption, NEW d, IsDocument(d), NEW paths, NEW p, NEW h \in Hashes,
         Spends(paths, p)
  PROVE  ~Holds(Unset(d, paths), p, h)
  <1>1. p \notin DOMAIN Unset(d, paths)
    BY DEF Unset, Spends
  <1> QED
    BY <1>1, UnsetDocument, ReadsLeaf DEF Holds

\* To set brings into a slot the hash that is written there, and no other.
LEMMA SetHolds ==
  ASSUME PathsAssumption, NEW d, IsDocument(d), NEW leaves \in SUBSET Path,
         NEW values \in [leaves -> Values], NEW p, NEW h \in Hashes,
         Holds(SetTo(d, values), p, h)
  PROVE  (p \in leaves /\ values[p] = h) \/ Holds(d, p, h)
  <1>1. p \in DOMAIN SetTo(d, values) /\ SetTo(d, values)[p] = h
    BY SetDocument, ReadsLeaf DEF Holds
  <1>2. (p \in leaves /\ values[p] = h) \/ (p \in DOMAIN d /\ d[p] = h)
    BY <1>1 DEF SetTo
  <1> QED
    BY <1>2, ReadsLeaf DEF Holds

\* The paths of the two maps are paths.
LEMMA PathsAreTyped ==
  ASSUME PathsAssumption
  PROVE  /\ resetPaths.password \in Path /\ resetPaths.resetDateReq \in Path
         /\ resetPaths.resetHash \in Path /\ resetPaths.deleted \in Path
         /\ resetPaths.disabled \in Path /\ resetPaths.resetClear \subseteq Path
         /\ verifyPaths.email \in Path /\ verifyPaths.valid \in Path
         /\ verifyPaths.hash \in Path /\ verifyPaths.dateLastReq \in Path
         /\ verifyPaths.requestTimes \in Path /\ verifyPaths.newEmailTmp \in Path
         /\ verifyPaths.deleted \in Path /\ verifyPaths.disabled \in Path
         /\ verifyPaths.verifyClear \subseteq Path /\ verifyPaths.emailChangeClear \subseteq Path
  BY DEF PathsAssumption, IResetPwdPaths, IVerifyEmailPaths

\* Flags are no hashes: to set them brings no hash into a slot.
LEMMA FlagsHold ==
  ASSUME PathsAssumption, NEW d, IsDocument(d), NEW paths \in SUBSET Path
  PROVE  /\ Flags(paths) \in [paths -> Values]
         /\ IsDocument(SetTo(d, Flags(paths)))
         /\ \A p, h : h \in Hashes /\ Holds(SetTo(d, Flags(paths)), p, h) => Holds(d, p, h)
  <1>1. Flags(paths) \in [paths -> Values]
    BY DEF Flags, Values
  <1>2. \A p \in paths, h \in Hashes : Flags(paths)[p] # h
    BY DEF Flags, PathsAssumption
  <1> QED
    BY <1>1, <1>2, SetDocument, SetHolds

\* So an update of flags, run or refused, brings none.
LEMMA UpdateOfFlags ==
  ASSUME PathsAssumption, PathsTypeOK, NEW paths \in SUBSET Path, NEW clear,
         Update(Flags(paths), clear)
  PROVE  /\ IsDocument(doc')
         /\ \A p, h : h \in Hashes /\ Holds(doc', p, h) => Holds(doc, p, h)
  <1>1. CASE UNCHANGED doc
    BY <1>1 DEF PathsTypeOK, Holds
  <1>2. CASE doc' = Updated(doc, Flags(paths), clear)
    <2>1. IsDocument(Unset(doc, clear))
      BY UnsetDocument DEF PathsTypeOK
    <2>2. /\ IsDocument(doc')
          /\ \A p, h : h \in Hashes /\ Holds(doc', p, h) => Holds(Unset(doc, clear), p, h)
      BY <1>2, <2>1, FlagsHold DEF Updated
    <2> QED
      BY <2>2, UnsetHolds DEF PathsTypeOK
  <1> QED
    BY <1>1, <1>2 DEF Update

\* A step that draws h for a flow, when its update leaves in the other slot what
\* was there and in its own what was there or h.
LEMMA IssueKeeps ==
  ASSUME PathsAssumption, PathsIInv, NEW f \in Flows, NEW h \in Hashes, Fresh(h), Issue(f, h),
         IsDocument(doc'),
         \A g \in Flows : \A k \in Hashes :
           Holds(doc', Slot(g), k) => Holds(doc, Slot(g), k) \/ (g = f /\ k = h)
  PROVE  PathsIInv'
  <1> USE DEF PathsIInv
  <1>1. PathsTypeOK'
    BY DEF PathsTypeOK, Issue
  <1>2. \A g \in Flows : issued[g] \subseteq issued'[g] /\ honoured'[g] = honoured[g]
    BY DEF PathsTypeOK, Issue
  <1>3. h \in issued'[f] /\ h \notin honoured[f]
    BY DEF PathsTypeOK, Issue, Fresh, FlowsApart
  <1>4. FlowsApart'
    <2>1. issued'["reset"] \cap issued'["verify"] = {}
      BY DEF FlowsApart, PathsTypeOK, Issue, Fresh, Flows
    <2> QED
      BY <1>2, <2>1 DEF FlowsApart
  <1>5. LiveIsOwn'
    <2> SUFFICES ASSUME NEW g \in Flows, NEW k \in Hashes, Holds(doc', Slot(g), k)
                 PROVE  k \in issued'[g] \ honoured'[g]
      BY DEF LiveIsOwn, Slot
    <2>1. CASE Holds(doc, Slot(g), k)
      BY <2>1, <1>2 DEF LiveIsOwn
    <2>2. CASE g = f /\ k = h
      BY <2>2, <1>2, <1>3
    <2> QED
      BY <2>1, <2>2
  <1> QED
    BY <1>1, <1>4, <1>5

\* A step that accepts the hash in a flow's slot and spends it.
LEMMA HonourKeeps ==
  ASSUME PathsAssumption, PathsIInv, NEW f \in Flows, NEW h \in Hashes,
         Holds(doc, Slot(f), h), Honour(f, h), IsDocument(doc'),
         \A g \in Flows : \A k \in Hashes : Holds(doc', Slot(g), k) => Holds(doc, Slot(g), k),
         \A k \in Hashes : ~Holds(doc', Slot(f), k)
  PROVE  PathsIInv'
  <1> USE DEF PathsIInv
  <1>1. h \in issued[f]
    BY DEF LiveIsOwn
  <1>2. PathsTypeOK'
    BY DEF PathsTypeOK, Honour
  <1>3. FlowsApart'
    BY <1>1 DEF FlowsApart, Honour, PathsTypeOK
  <1>4. LiveIsOwn'
    <2> SUFFICES ASSUME NEW g \in Flows, NEW k \in Hashes, Holds(doc', Slot(g), k)
                 PROVE  k \in issued'[g] \ honoured'[g]
      BY DEF LiveIsOwn, Slot
    <2>1. g # f
      OBVIOUS
    <2>2. k \in issued[g] \ honoured[g]
      BY DEF LiveIsOwn
    <2> QED
      BY <2>1, <2>2 DEF Honour, PathsTypeOK
  <1> QED
    BY <1>2, <1>3, <1>4

\* A step that draws and accepts nothing and brings no hash into a slot.
LEMMA OthersKeep ==
  ASSUME PathsIInv, UNCHANGED <<issued, honoured>>, IsDocument(doc'),
         \A g \in Flows : \A k \in Hashes : Holds(doc', Slot(g), k) => Holds(doc, Slot(g), k)
  PROVE  PathsIInv'
  BY DEF PathsIInv, PathsTypeOK, FlowsApart, LiveIsOwn, Slot

\* PathsInit establishes the invariant: no document holds a hash yet.
LEMMA InitPaths == ASSUME PathsAssumption, PathsInit PROVE PathsIInv
  <1>0. PICK leaves \in SUBSET Path : doc = [p \in leaves |-> Flag]
    BY DEF PathsInit, Trees, Flags
  <1>1. PathsTypeOK
    BY <1>0 DEF PathsInit, PathsTypeOK, IsDocument, Values
  <1>2. FlowsApart
    BY DEF PathsInit, FlowsApart, Flows
  <1>3. \A p, h : h \in Hashes => ~Holds(doc, p, h)
    <2> SUFFICES ASSUME NEW p, NEW h \in Hashes, Holds(doc, p, h) PROVE FALSE
      OBVIOUS
    <2>1. p \in DOMAIN doc /\ doc[p] = h
      BY <1>1, ReadsLeaf DEF PathsTypeOK, Holds
    <2> QED
      BY <1>0, <2>1 DEF PathsAssumption
  <1> QED
    BY <1>1, <1>2, <1>3 DEF PathsIInv, LiveIsOwn

\* Every step of a sound layout keeps it.
LEMMA NextPaths == ASSUME PathsAssumption, Sound, PathsIInv, [PathsNext]_pathsVars PROVE PathsIInv'
  <1> USE PathsAreTyped
  <1>0. IsDocument(doc) /\ PathsTypeOK
    BY DEF PathsIInv, PathsTypeOK
  <1>1. ASSUME NEW h \in Hashes, saveResetReq(h) PROVE PathsIInv'
    <2> DEFINE leaves == {resetPaths.resetDateReq, resetPaths.resetHash}
               values == [p \in leaves |-> IF p = resetPaths.resetHash THEN h ELSE Flag]
    <2>1. leaves \in SUBSET Path /\ values \in [leaves -> Values]
      BY DEF Values
    <2>2. IsDocument(Unset(doc, {}))
      BY <1>0, UnsetDocument
    <2>3. UNCHANGED doc \/ doc' = SetTo(Unset(doc, {}), values)
      BY <1>1 DEF saveResetReq, Update, Updated
    <2>4. IsDocument(doc')
      BY <2>1, <2>2, <2>3, <1>0, SetDocument
    <2>5. ASSUME NEW g \in Flows, NEW k \in Hashes, Holds(doc', Slot(g), k)
          PROVE  Holds(doc, Slot(g), k) \/ (g = "reset" /\ k = h)
      <3>1. CASE UNCHANGED doc
        BY <3>1, <2>5 DEF Holds
      <3>2. CASE doc' = SetTo(Unset(doc, {}), values)
        <4>1. (Slot(g) \in leaves /\ values[Slot(g)] = k) \/ Holds(Unset(doc, {}), Slot(g), k)
          BY <3>2, <2>1, <2>2, <2>5, SetHolds
        <4>2. CASE Holds(Unset(doc, {}), Slot(g), k)
          BY <4>2, <1>0, UnsetHolds
        <4>3. CASE Slot(g) \in leaves /\ values[Slot(g)] = k
          <5>1. Slot(g) = resetPaths.resetHash /\ k = h
            BY <4>3 DEF PathsAssumption
          <5>2. g = "reset"
            BY <5>1 DEF Sound, Slot, Flows
          <5> QED
            BY <5>1, <5>2
        <4> QED
          BY <4>1, <4>2, <4>3
      <3> QED
        BY <2>3, <3>1, <3>2
    <2>6. Fresh(h) /\ Issue("reset", h)
      BY <1>1 DEF saveResetReq
    <2> QED
      BY <2>4, <2>5, <2>6, IssueKeeps DEF Flows
  <1>2. ASSUME NEW h \in Hashes, setEmailHash(h) PROVE PathsIInv'
    <2> DEFINE leaves == {verifyPaths.hash, verifyPaths.requestTimes, verifyPaths.dateLastReq}
               values == [p \in leaves |->
                            IF p \in {verifyPaths.requestTimes, verifyPaths.dateLastReq}
                            THEN Flag ELSE h]
    <2>1. leaves \in SUBSET Path /\ values \in [leaves -> Values]
      BY DEF Values
    <2>2. IsDocument(Unset(doc, {}))
      BY <1>0, UnsetDocument
    <2>3. UNCHANGED doc \/ doc' = SetTo(Unset(doc, {}), values)
      BY <1>2 DEF setEmailHash, Update, Updated
    <2>4. IsDocument(doc')
      BY <2>1, <2>2, <2>3, <1>0, SetDocument
    <2>5. ASSUME NEW g \in Flows, NEW k \in Hashes, Holds(doc', Slot(g), k)
          PROVE  Holds(doc, Slot(g), k) \/ (g = "verify" /\ k = h)
      <3>1. CASE UNCHANGED doc
        BY <3>1, <2>5 DEF Holds
      <3>2. CASE doc' = SetTo(Unset(doc, {}), values)
        <4>1. (Slot(g) \in leaves /\ values[Slot(g)] = k) \/ Holds(Unset(doc, {}), Slot(g), k)
          BY <3>2, <2>1, <2>2, <2>5, SetHolds
        <4>2. CASE Holds(Unset(doc, {}), Slot(g), k)
          BY <4>2, <1>0, UnsetHolds
        <4>3. CASE Slot(g) \in leaves /\ values[Slot(g)] = k
          <5>1. Slot(g) = verifyPaths.hash /\ k = h
            BY <4>3 DEF PathsAssumption
          <5>2. g = "verify"
            BY <5>1 DEF Sound, Slot, Flows
          <5> QED
            BY <5>1, <5>2
        <4> QED
          BY <4>1, <4>2, <4>3
      <3> QED
        BY <2>3, <3>1, <3>2
    <2>6. Fresh(h) /\ Issue("verify", h)
      BY <1>2 DEF setEmailHash
    <2> QED
      BY <2>4, <2>5, <2>6, IssueKeeps DEF Flows
  <1>3. ASSUME NEW h \in Hashes, UpdatePassword(h) PROVE PathsIInv'
    <2> DEFINE set == SetTo(doc, Flags({resetPaths.password}))
    <2>1. doc' = Unset(set, resetPaths.resetClear) /\ Honour("reset", h)
      BY <1>3 DEF UpdatePassword
    <2>2. /\ IsDocument(set)
          /\ \A p, k : k \in Hashes /\ Holds(set, p, k) => Holds(doc, p, k)
      BY <1>0, FlagsHold
    <2>3. Holds(doc, Slot("reset"), h)
      BY <1>3, <1>0, SelectedHolds DEF UpdatePassword, getResetPwd, Slot
    <2>4. IsDocument(doc')
      BY <2>1, <2>2, UnsetDocument
    <2>5. \A g \in Flows : \A k \in Hashes : Holds(doc', Slot(g), k) => Holds(doc, Slot(g), k)
      BY <2>1, <2>2, UnsetHolds
    <2>6. \A k \in Hashes : ~Holds(doc', Slot("reset"), k)
      BY <2>1, <2>2, UnsetSpends DEF Sound, Slot
    <2> QED
      BY <2>1, <2>3, <2>4, <2>5, <2>6, HonourKeeps DEF Flows
  <1>4. ASSUME NEW h \in Hashes, NEW p \in Path, NEW clear,
               Spends(clear, verifyPaths.hash), Holds(doc, verifyPaths.hash, h),
               Honour("verify", h), doc' = Updated(doc, Flags({p}), clear)
        PROVE  PathsIInv'
    <2>1. IsDocument(Unset(doc, clear))
      BY <1>0, UnsetDocument
    <2>2. /\ IsDocument(doc')
          /\ \A q, k : k \in Hashes /\ Holds(doc', q, k) => Holds(Unset(doc, clear), q, k)
      BY <1>4, <2>1, FlagsHold DEF Updated
    <2>3. \A g \in Flows : \A k \in Hashes : Holds(doc', Slot(g), k) => Holds(doc, Slot(g), k)
      BY <2>2, <1>0, UnsetHolds
    <2>4. \A k \in Hashes : ~Holds(doc', Slot("verify"), k)
      BY <1>4, <2>2, <1>0, UnsetSpends DEF Slot
    <2> QED
      BY <1>4, <2>2, <2>3, <2>4, HonourKeeps DEF Flows, Slot
  <1>5. ASSUME NEW h \in Hashes, enableEmailAccess(h) PROVE PathsIInv'
    <2>1. Holds(doc, verifyPaths.hash, h)
      BY <1>5, <1>0, SelectedHolds
         DEF enableEmailAccess, assertVerifyEmailAllowed, userData4VerifyEmail
    <2> QED
      BY <1>4, <1>5, <2>1 DEF enableEmailAccess, Sound
  <1>6. ASSUME NEW h \in Hashes, confirmNewEmail(h) PROVE PathsIInv'
    <2>1. Holds(doc, verifyPaths.hash, h)
      BY <1>6, <1>0, SelectedHolds DEF confirmNewEmail, loadVerifyContext
    <2> QED
      BY <1>4, <1>6, <2>1 DEF confirmNewEmail, Sound
  <1>7. ASSUME NEW p \in Path, SetFlag(p) PROVE PathsIInv'
    <2>1. /\ IsDocument(doc')
          /\ \A q, k : k \in Hashes /\ Holds(doc', q, k) => Holds(doc, q, k)
      BY <1>7, <1>0, UpdateOfFlags DEF SetFlag
    <2> QED
      BY <1>7, <2>1, OthersKeep DEF SetFlag
  <1>8. CASE Free
    <2>1. IsDocument(doc')
      BY <1>8, <1>0, UnsetDocument DEF Free
    <2>2. \A g \in Flows : \A k \in Hashes : Holds(doc', Slot(g), k) => Holds(doc, Slot(g), k)
      BY <1>8, <1>0, UnsetHolds DEF Free
    <2> QED
      BY <1>8, <2>1, <2>2, OthersKeep DEF Free
  <1>9. CASE UNCHANGED pathsVars
    BY <1>9, <1>0, OthersKeep DEF pathsVars, Holds
  <1> QED
    BY <1>1, <1>2, <1>3, <1>5, <1>6, <1>7, <1>8, <1>9
       DEF PathsNext, incReqTimes, softDeleteUserByEmail, AskChange, Block

\* For every sound layout the slots hold only hashes that their flow drew and has
\* not accepted (saveResetReq and setEmailHash write them, the updates of
\* updatePassword, enableEmailAccess and confirmNewEmail take them away).
THEOREM LayoutKeepsIInv == ASSUME PathsAssumption, Sound PROVE PathsSpec => []PathsIInv
  <1>1. PathsInit => PathsIInv
    BY InitPaths
  <1>2. PathsIInv /\ [PathsNext]_pathsVars => PathsIInv'
    BY NextPaths
  <1> QED
    BY <1>1, <1>2, PTL DEF PathsSpec

\* Whatever the layout, as long as it is sound: a hash that was accepted is not
\* accepted again (updatePassword, the activation link, emailChangeHashVerify).
THEOREM LayoutOneTime == ASSUME PathsAssumption, Sound PROVE PathsSpec => []OneTime
  <1>1. PathsIInv => OneTime
    BY DEF PathsIInv, PathsTypeOK, LiveIsOwn, OneTime
  <1> QED
    BY <1>1, LayoutKeepsIInv, PTL

\* And a flow accepts no hash of the other one.
THEOREM LayoutFlowsApart == ASSUME PathsAssumption, Sound PROVE PathsSpec => []FlowsApart
  <1>1. PathsIInv => FlowsApart
    BY DEF PathsIInv
  <1> QED
    BY <1>1, LayoutKeepsIInv, PTL

\* The layout of UserBase is sound.
THEOREM DefaultsAreSound ==
  ASSUME resetPaths = DEFAULT_RESET_PWD_PATHS, verifyPaths = DEFAULT_VERIFY_EMAIL_PATHS
  PROVE  Sound
  <1>1. Covers(resetPaths.resetHash, resetPaths.resetHash) /\ Covers(Of("hash"), Of("hash"))
    BY DEF Covers, DEFAULT_RESET_PWD_PATHS, Of
  <1> QED
    BY <1>1 DEF Sound, Spends, DEFAULT_RESET_PWD_PATHS, DEFAULT_VERIFY_EMAIL_PATHS, Of

\* A guard reads through a projection what the document holds, at every path that
\* the projection names: a value, a subdocument or nothing.
THEOREM ProjectionShows ==
  ASSUME PathsAssumption, NEW d, IsDocument(d), NEW paths \in SUBSET Path, NEW p \in paths
  PROVE  readPath(Selected(d, paths), p) = readPath(d, p)
  <1>1. Covers(p, p)
    BY CoversItself DEF PathsAssumption
  <1>2. p \in DOMAIN Selected(d, paths) <=> p \in DOMAIN d
    BY <1>1 DEF Selected
  <1>3. p \in DOMAIN d => Selected(d, paths)[p] = d[p]
    BY <1>2 DEF Selected
  <1>4. (\E l \in DOMAIN Selected(d, paths) : Covers(p, l)) <=> (\E l \in DOMAIN d : Covers(p, l))
    BY DEF Selected
  <1> QED
    BY <1>2, <1>3, <1>4 DEF readPath

----------------------------------------------------------------------------
(* cleanHtml                                                               *)

\* Nothing is settled at first.
LEMMA InitStrip == ASSUME StringsAssumption, StripInit PROVE StripIInv
  <1>1. Len(str) \in Nat /\ str \in Seq(Char)
    BY DEF StringsAssumption, StripInit
  <1> QED
    BY <1>1 DEF StripInit, StripIInv, StripTypeOK, TagsSoFar, OutSoFar, StandingSoFar, AtTheLoop,
                Settled, Positions, None

\* Of what is needed of the state in each of the steps.
LEMMA Types ==
  ASSUME StripIInv
  PROVE  /\ Len(str) \in Nat /\ from \in Int /\ keepFrom \in Int /\ open \in Int
         /\ \A i \in Positions : i \in Int
         /\ \A t \in tags : t = <<t[1], t[2]>> /\ t[1] \in Positions /\ t[2] \in Positions
         /\ scanned.lt \in Int /\ scanned.gt \in Int
  BY DEF StripIInv, StripTypeOK, Positions

\* What a search for '>' adds to the count.
LEMMA Counted ==
  ASSUME NEW r \in [lt : Int, gt : Int], NEW n \in Int
  PROVE  LET s == [r EXCEPT !.gt = @ + n] IN
           s \in [lt : Int, gt : Int] /\ s.lt = r.lt /\ s.gt = r.gt + n
  OBVIOUS

\* A search for '<' settles what it passes: no tag begins there.
LEMMA SearchOpenIInv == ASSUME StripIInv, SearchOpen PROVE StripIInv'
  <1> USE Types
  <1>1. /\ turn = "search" /\ str' = str /\ from' = from /\ keepFrom' = keepFrom /\ tags' = tags
        /\ open' \in {None} \cup from .. Len(str)
        /\ IsIndexOf("<", from, open')
        /\ turn' = IF open' = None THEN "done" ELSE "loop"
        /\ out' = IF open' = None THEN out \cup keepFrom .. Len(str) ELSE out
        /\ scanned' = [scanned EXCEPT !.lt = @ + Cost(from, open')]
    BY DEF SearchOpen
  <1>2. /\ from \in 1 .. Len(str) + 1 /\ keepFrom \in 1 .. from /\ out \subseteq Positions
        /\ tags \subseteq Positions \X Positions /\ scanned \in [lt : Int, gt : Int]
        /\ scanned.lt <= from - 1 /\ scanned.gt <= from /\ scanned.gt <= Len(str)
    BY <1>1 DEF StripIInv, StripTypeOK, AtTheLoop
  <1>3. Positions' = Positions /\ Settled = from - 1
    BY <1>1 DEF Positions, Settled
  <1>4. Settled' = IF open' = None THEN Len(str) ELSE open' - 1
    BY <1>1 DEF Settled
  <1>5. \A p \in Positions : from <= p /\ p <= Settled' => str[p] # "<"
    BY <1>1, <1>2, <1>4 DEF IsIndexOf, Positions, None
  <1>6. \A p, q : IsTag(p, q)' <=> IsTag(p, q)
    BY <1>1, <1>3 DEF IsTag
  <1>7. StripTypeOK'
    <2>1. Cost(from, open') \in Int
      BY <1>1, <1>2 DEF Cost, None
    <2>2. scanned' \in [lt : Int, gt : Int]
      BY <1>1, <1>2, <2>1
    <2>3. out' \subseteq Positions
      BY <1>1, <1>2 DEF Positions
    <2> QED
      BY <1>1, <1>2, <1>3, <2>2, <2>3 DEF StripIInv, StripTypeOK, None
  <1>8. TagsSoFar'
    <2>1. \A p, q \in Positions : p <= Settled' /\ IsTag(p, q) => \E t \in tags : In(p, t)
      <3> SUFFICES ASSUME NEW p \in Positions, NEW q \in Positions, p <= Settled', IsTag(p, q)
                   PROVE  \E t \in tags : In(p, t)
        OBVIOUS
      <3>1. p < from
        BY <1>2, <1>5 DEF IsTag
      <3> QED
        BY <3>1, <1>2, <1>3 DEF StripIInv, TagsSoFar
    <2> QED
      BY <2>1, <1>1, <1>3, <1>6 DEF StripIInv, TagsSoFar
  <1>9. OutSoFar'
    <2>1. out = {i \in Positions : i < keepFrom /\ \A t \in tags : ~In(i, t)}
      BY <1>1 DEF StripIInv, OutSoFar
    <2>2. CASE open' # None
      BY <2>1, <2>2, <1>1, <1>3 DEF OutSoFar
    <2>3. CASE open' = None
      <3>1. \A i \in keepFrom .. Len(str) : \A t \in tags : ~In(i, t)
        BY <1>2 DEF StripIInv, TagsSoFar, In
      <3>2. out' = {i \in Positions : \A t \in tags : ~In(i, t)}
        BY <2>1, <2>3, <3>1, <1>1, <1>2 DEF Positions
      <3> QED
        BY <2>3, <3>2, <1>1, <1>3 DEF OutSoFar
    <2> QED
      BY <2>2, <2>3
  <1>10. StandingSoFar'
    <2> SUFFICES ASSUME NEW p \in Positions, p <= Settled', str[p] = "<",
                        \A t \in tags : ~In(p, t)
                 PROVE  \/ p + 1 \in Positions /\ str[p + 1] = ">"
                        \/ \A q \in Positions : q > p => str[q] # ">"
      BY <1>1, <1>3 DEF StandingSoFar
    <2>1. p <= Settled
      BY <1>2, <1>3, <1>5
    <2> QED
      BY <2>1 DEF StripIInv, StandingSoFar
  <1>11. AtTheLoop'
    <2>1. turn' = "loop" => open' \in from .. Len(str) /\ str[open'] = "<" /\ keepFrom <= open'
      BY <1>1, <1>2 DEF IsIndexOf
    <2>2. scanned'.lt = scanned.lt + Cost(from, open') /\ scanned'.gt = scanned.gt
      BY <1>1, <1>2
    <2>3. Cost(from, open') = (IF open' = None THEN Len(str) ELSE open') - from + 1
      BY DEF Cost
    <2>4. scanned'.lt <= (IF turn' = "loop" THEN open' ELSE Len(str))
      BY <2>2, <2>3, <1>1, <1>2
    <2> QED
      BY <1>1, <1>2, <2>1, <2>2, <2>4 DEF AtTheLoop
  <1> QED
    BY <1>7, <1>8, <1>9, <1>10, <1>11 DEF StripIInv

\* What holds of the string when the body of the loop begins.
LEMMA AtTheBody ==
  ASSUME StripIInv, turn = "loop"
  PROVE  /\ open \in from .. Len(str) /\ str[open] = "<" /\ open \in Positions
         /\ from \in 1 .. Len(str) + 1 /\ keepFrom \in 1 .. from /\ keepFrom <= open
         /\ out = {i \in Positions : i < keepFrom /\ \A t \in tags : ~In(i, t)}
         /\ \A t \in tags : IsTag(t[1], t[2]) /\ t[2] < keepFrom /\ ~In(open, t)
         /\ Settled = open - 1
         /\ scanned \in [lt : Int, gt : Int] /\ scanned.lt <= open
         /\ scanned.gt <= from /\ scanned.gt <= Len(str)
  <1>1. /\ open \in from .. Len(str) /\ str[open] = "<" /\ keepFrom <= open
        /\ scanned.lt <= open /\ scanned.gt <= from /\ scanned.gt <= Len(str)
    BY DEF StripIInv, AtTheLoop
  <1>2. from \in 1 .. Len(str) + 1 /\ keepFrom \in 1 .. from /\ scanned \in [lt : Int, gt : Int]
    BY DEF StripIInv, StripTypeOK
  <1>3. \A t \in tags : IsTag(t[1], t[2]) /\ t[2] < keepFrom
    BY DEF StripIInv, TagsSoFar
  <1>4. out = {i \in Positions : i < keepFrom /\ \A t \in tags : ~In(i, t)}
    BY DEF StripIInv, OutSoFar
  <1> QED
    BY <1>1, <1>2, <1>3, <1>4, Types DEF Settled, Positions, In

\* The search for '>' when there is none: no tag begins at open or after it.
LEMMA NoCloseIInv ==
  ASSUME StripIInv, turn = "loop", IsIndexOf(">", open + 1, None),
         turn' = "done", out' = out \cup keepFrom .. Len(str),
         scanned' = [scanned EXCEPT !.gt = @ + Cost(open + 1, None)],
         UNCHANGED <<str, open, from, keepFrom, tags>>
  PROVE  StripIInv'
  <1> USE Types, AtTheBody
  <1>1. Positions' = Positions /\ Settled' = Len(str)
    BY DEF Positions, Settled
  <1>2. \A q \in Positions : q > open => str[q] # ">"
    BY DEF IsIndexOf, Positions, None
  <1>3. \A p, q : IsTag(p, q)' <=> IsTag(p, q)
    BY <1>1 DEF IsTag
  <1>4. scanned' \in [lt : Int, gt : Int] /\ scanned'.lt = scanned.lt
        /\ scanned'.gt = scanned.gt + Len(str) - open
    <2>1. Cost(open + 1, None) = Len(str) - open
      BY DEF Cost, None
    <2>2. scanned \in [lt : Int, gt : Int] /\ Len(str) - open \in Int
      BY DEF Positions
    <2>3. scanned' = [scanned EXCEPT !.gt = @ + (Len(str) - open)]
      BY <2>1
    <2>4. /\ scanned' \in [lt : Int, gt : Int] /\ scanned'.lt = scanned.lt
          /\ scanned'.gt = scanned.gt + (Len(str) - open)
      BY <2>2, <2>3, Counted
    <2>5. scanned.gt \in Int
      BY <2>2
    <2> QED
      BY <2>2, <2>4, <2>5
  <1>5. StripTypeOK'
    <2>1. out' \subseteq Positions
      BY DEF Positions
    <2> QED
      BY <1>1, <1>4, <2>1 DEF StripIInv, StripTypeOK
  <1>6. TagsSoFar'
    <2>1. \A p, q \in Positions : IsTag(p, q) => \E t \in tags : In(p, t)
      <3> SUFFICES ASSUME NEW p \in Positions, NEW q \in Positions, IsTag(p, q)
                   PROVE  \E t \in tags : In(p, t)
        OBVIOUS
      <3>1. p <= Settled
        BY <1>2 DEF IsTag
      <3> QED
        BY <3>1 DEF StripIInv, TagsSoFar
    <2> QED
      BY <2>1, <1>1, <1>3 DEF StripIInv, TagsSoFar
  <1>7. OutSoFar'
    <2>1. \A i \in keepFrom .. Len(str) : \A t \in tags : ~In(i, t)
      BY DEF In
    <2>2. out' = {i \in Positions : \A t \in tags : ~In(i, t)}
      BY <2>1 DEF Positions
    <2> QED
      BY <2>2, <1>1 DEF OutSoFar
  <1>8. StandingSoFar'
    <2> SUFFICES ASSUME NEW p \in Positions, str[p] = "<", \A t \in tags : ~In(p, t)
                 PROVE  \/ p + 1 \in Positions /\ str[p + 1] = ">"
                        \/ \A q \in Positions : q > p => str[q] # ">"
      BY <1>1, ZenonT(60) DEF StandingSoFar
    <2>1. CASE p <= Settled
      BY <2>1 DEF StripIInv, StandingSoFar
    <2>2. CASE p > Settled
      BY <2>2, <1>2
    <2> QED
      BY <2>1, <2>2
  <1>9. AtTheLoop'
    BY <1>4, SMTT(30) DEF AtTheLoop
  <1> QED
    BY <1>5, <1>6, <1>7, <1>8, <1>9 DEF StripIInv

\* '<>': open is settled, and no tag begins there.
LEMMA EmptyTagIInv ==
  ASSUME StripIInv, turn = "loop", open + 1 \in Positions, IsIndexOf(">", open + 1, open + 1),
         turn' = "search", from' = open + 1,
         scanned' = [scanned EXCEPT !.gt = @ + Cost(open + 1, open + 1)],
         UNCHANGED <<str, open, keepFrom, out, tags>>
  PROVE  StripIInv'
  <1> USE Types, AtTheBody
  <1>1. Positions' = Positions /\ Settled' = open
    BY DEF Positions, Settled
  <1>2. str[open + 1] = ">"
    BY DEF IsIndexOf, None
  <1>3. \A p, q : IsTag(p, q)' <=> IsTag(p, q)
    BY <1>1 DEF IsTag
  <1>4. scanned' \in [lt : Int, gt : Int] /\ scanned'.lt = scanned.lt
        /\ scanned'.gt = scanned.gt + 1
    <2>1. Cost(open + 1, open + 1) = 1
      BY DEF Cost, None
    <2>2. scanned \in [lt : Int, gt : Int] /\ 1 \in Int
      BY DEF Positions
    <2> QED
      BY <2>1, <2>2, SMTT(30)
  <1>5. StripTypeOK'
    BY <1>1, <1>4, SMTT(30) DEF StripIInv, StripTypeOK, Positions
  <1>6. TagsSoFar'
    <2>1. \A p, q \in Positions : p <= open /\ IsTag(p, q) => \E t \in tags : In(p, t)
      <3> SUFFICES ASSUME NEW p \in Positions, NEW q \in Positions, p <= open, IsTag(p, q)
                   PROVE  \E t \in tags : In(p, t)
        OBVIOUS
      <3>1. q > p + 1 /\ \A i \in p + 1 .. q - 1 : str[i] # ">"
        BY DEF IsTag
      <3>2. p # open
        <4> SUFFICES ASSUME p = open PROVE FALSE
          OBVIOUS
        <4>1. p + 1 \in p + 1 .. q - 1
          BY <3>1
        <4> QED
          BY <4>1, <3>1, <1>2
      <3>3. p <= Settled
        BY <3>2
      <3> QED
        BY <3>3 DEF StripIInv, TagsSoFar
    <2> QED
      BY <2>1, <1>1, <1>3 DEF StripIInv, TagsSoFar
  <1>7. OutSoFar'
    BY <1>1 DEF OutSoFar
  <1>8. StandingSoFar'
    <2> SUFFICES ASSUME NEW p \in Positions, p <= open, str[p] = "<", \A t \in tags : ~In(p, t)
                 PROVE  \/ p + 1 \in Positions /\ str[p + 1] = ">"
                        \/ \A q \in Positions : q > p => str[q] # ">"
      BY <1>1, SMTT(30) DEF StandingSoFar
    <2>1. CASE p <= Settled
      BY <2>1 DEF StripIInv, StandingSoFar
    <2>2. CASE p = open
      BY <2>2, <1>2
    <2> QED
      BY <2>1, <2>2
  <1>9. AtTheLoop'
    BY <1>4 DEF AtTheLoop, Positions
  <1> QED
    BY <1>5, <1>6, <1>7, <1>8, <1>9 DEF StripIInv

\* A tag: what is before it is kept, and all to its end is settled.
LEMMA TagIInv ==
  ASSUME StripIInv, turn = "loop", NEW close \in Positions, close > open + 1,
         IsIndexOf(">", open + 1, close),
         turn' = "search", from' = close + 1, keepFrom' = close + 1,
         out' = out \cup keepFrom .. open - 1, tags' = tags \cup {<<open, close>>},
         scanned' = [scanned EXCEPT !.gt = @ + Cost(open + 1, close)],
         UNCHANGED <<str, open>>
  PROVE  StripIInv'
  <1> USE Types, AtTheBody
  <1> DEFINE tag == <<open, close>>
  <1>1. Positions' = Positions /\ Settled' = close
    BY DEF Positions, Settled
  <1>2. IsTag(open, close)
    BY DEF IsIndexOf, IsTag, None
  <1>3. \A p, q : IsTag(p, q)' <=> IsTag(p, q)
    BY <1>1 DEF IsTag
  <1>4. scanned' \in [lt : Int, gt : Int] /\ scanned'.lt = scanned.lt
        /\ scanned'.gt = scanned.gt + close - open
    <2>1. Cost(open + 1, close) = close - open
      BY DEF Cost, None, Positions
    <2>2. scanned \in [lt : Int, gt : Int] /\ close - open \in Int
      BY DEF Positions
    <2>3. scanned' = [scanned EXCEPT !.gt = @ + (close - open)]
      BY <2>1
    <2>4. /\ scanned' \in [lt : Int, gt : Int] /\ scanned'.lt = scanned.lt
          /\ scanned'.gt = scanned.gt + (close - open)
      BY <2>2, <2>3, Counted
    <2>5. scanned.gt \in Int
      BY <2>2
    <2> QED
      BY <2>2, <2>4, <2>5
  <1>5. tag[1] = open /\ tag[2] = close /\ \A i \in Int : In(i, tag) <=> open <= i /\ i <= close
    BY DEF In
  <1>6. StripTypeOK'
    <2>1. out' \subseteq Positions
      BY DEF Positions
    <2>2. tags' \subseteq Positions \X Positions
      BY DEF StripIInv, StripTypeOK
    <2>3. from' \in 1 .. Len(str) + 1 /\ keepFrom' \in 1 .. from'
      BY DEF Positions
    <2>4. open' \in 0 .. Len(str) /\ str' \in Seq(Char)
      BY DEF StripIInv, StripTypeOK
    <2> QED
      BY <1>1, <1>4, <2>1, <2>2, <2>3, <2>4 DEF StripTypeOK
  <1>7. TagsSoFar'
    <2>1. \A t \in tags' : IsTag(t[1], t[2]) /\ t[2] < close + 1
      BY <1>2 DEF Positions
    <2>2. ASSUME NEW t \in tags', NEW u \in tags', t # u
          PROVE  t[2] < u[1] \/ u[2] < t[1]
      <3>1. \A s \in tags : s[2] < open /\ s[2] \in Int
        BY DEF Positions
      <3>2. CASE t \in tags /\ u \in tags
        BY <2>2, <3>2 DEF StripIInv, TagsSoFar
      <3>3. CASE t \in tags /\ u = tag
        BY <1>5, <3>1, <3>3
      <3>4. CASE t = tag /\ u \in tags
        BY <1>5, <3>1, <3>4
      <3> QED
        BY <2>2, <3>2, <3>3, <3>4
    <2>3. \A p, q \in Positions : p <= close /\ IsTag(p, q) => \E t \in tags' : In(p, t)
      <3> SUFFICES ASSUME NEW p \in Positions, NEW q \in Positions, p <= close, IsTag(p, q)
                   PROVE  \E t \in tags' : In(p, t)
        OBVIOUS
      <3>1. CASE p <= Settled
        BY <3>1 DEF StripIInv, TagsSoFar
      <3>2. CASE p > Settled
        BY <3>2, <1>5
      <3> QED
        BY <3>1, <3>2
    <2> QED
      BY <2>1, <2>2, <2>3, <1>1, <1>3 DEF TagsSoFar
  <1>8. OutSoFar'
    <2>1. ASSUME NEW i \in Positions
          PROVE  i \in out' <=> i < close + 1 /\ \A t \in tags' : ~In(i, t)
      <3>1. (\A t \in tags' : ~In(i, t)) <=> ((\A t \in tags : ~In(i, t)) /\ ~(open <= i /\ i <= close))
        BY <1>5
      <3>2. i >= keepFrom => \A t \in tags : ~In(i, t)
        BY DEF In
      <3> QED
        BY <3>1, <3>2, SMTT(30) DEF Positions
    <2>2. out' \subseteq Positions
      BY DEF Positions
    <2> QED
      BY <2>1, <2>2, <1>1 DEF OutSoFar
  <1>9. StandingSoFar'
    <2> SUFFICES ASSUME NEW p \in Positions, p <= close, str[p] = "<", \A t \in tags' : ~In(p, t)
                 PROVE  \/ p + 1 \in Positions /\ str[p + 1] = ">"
                        \/ \A q \in Positions : q > p => str[q] # ">"
      BY <1>1 DEF StandingSoFar
    <2>1. p <= Settled
      BY <1>5
    <2> QED
      BY <2>1 DEF StripIInv, StandingSoFar
  <1>10. AtTheLoop'
    <2>1. close \in Int /\ open < close /\ close <= Len(str)
      BY DEF Positions
    <2>2. scanned'.lt <= close /\ scanned'.gt <= Len(str) /\ scanned'.gt <= close + 1
      <3>1. /\ scanned.lt \in Int /\ scanned.gt \in Int /\ from \in Int /\ open \in Int /\ Len(str) \in Nat
            /\ scanned.lt <= open /\ scanned.gt <= from /\ from <= open
        OBVIOUS
      <3> HIDE Types, AtTheBody
      <3> QED BY <1>4, <2>1, <3>1
    <2> QED
      BY <2>1, <2>2, <1>1 DEF AtTheLoop
  <1> QED
    BY <1>6, <1>7, <1>8, <1>9, <1>10 DEF StripIInv

\* Every step keeps the invariant.
LEMMA StepStrip == StripIInv /\ [stripTags]_stripVars => StripIInv'
  <1> SUFFICES ASSUME StripIInv, [stripTags]_stripVars PROVE StripIInv'
    OBVIOUS
  <1>1. CASE SearchOpen
    BY <1>1, SearchOpenIInv
  <1>2. CASE SearchClose
    <2>1. PICK close \in {None} \cup open + 1 .. Len(str) :
            /\ IsIndexOf(">", open + 1, close)
            /\ scanned' = [scanned EXCEPT !.gt = @ + Cost(open + 1, close)]
            /\ NoClose(close) \/ EmptyTag(close) \/ Tag(close)
      BY <1>2 DEF SearchClose
    <2>2. turn = "loop" /\ UNCHANGED <<str, open>> /\ open \in Int /\ open >= 1
      BY <1>2, AtTheBody, Types DEF SearchClose
    <2>3. CASE close = None
      BY <2>1, <2>2, <2>3, NoCloseIInv DEF None, NoClose, EmptyTag, Tag
    <2>4. CASE close # None
      <3>1. close \in Positions
        BY <2>1, <2>2, <2>4, Types DEF Positions
      <3> QED
        BY <2>1, <2>2, <2>4, <3>1, EmptyTagIInv, TagIInv DEF NoClose, EmptyTag, Tag
    <2> QED
      BY <2>3, <2>4
  <1>3. CASE UNCHANGED stripVars
    BY <1>3 DEF stripVars, StripIInv, StripTypeOK, TagsSoFar, OutSoFar, StandingSoFar, AtTheLoop,
                Positions, Settled, IsTag, In
  <1> QED
    BY <1>1, <1>2, <1>3 DEF stripTags

\* The loop invariant of stripTags, for strings of any length.
THEOREM StripTagsIInv == ASSUME StringsAssumption PROVE StripSpec => []StripIInv
  <1>1. StripInit => StripIInv
    BY InitStrip
  <1> QED
    BY <1>1, StepStrip, PTL DEF StripSpec

\* cleanHtml answers what replace(/(<([^>]+)>)/g, '') answers, for every string.
THEOREM StripsLikeTheRegex == ASSUME StringsAssumption PROVE StripSpec => []LikeTheRegex
  <1>1. StripIInv => LikeTheRegex
    <2> SUFFICES ASSUME StripIInv, turn = "done" PROVE AreTheMatches
                   /\ out = {i \in Positions : \A t \in tags : ~In(i, t)}
      BY DEF LikeTheRegex
    <2>1. \A p \in Positions : p <= Settled
      BY DEF Settled, Positions, StripIInv, StripTypeOK
    <2> QED
      BY <2>1 DEF StripIInv, TagsSoFar, OutSoFar, AreTheMatches
  <1> QED
    BY <1>1, StripTagsIInv, PTL

\* No tag is left in what it answers.
THEOREM StripsEveryTag == ASSUME StringsAssumption PROVE StripSpec => []NoTagLeft
  <1>1. StripIInv => NoTagLeft
    <2> SUFFICES ASSUME StripIInv, turn = "done", NEW p \in out, str[p] = "<"
                 PROVE  \/ p + 1 \in out /\ str[p + 1] = ">"
                        \/ \A q \in Positions : q > p => str[q] # ">"
      BY DEF NoTagLeft
    <2>1. p \in Positions /\ p <= Settled /\ \A t \in tags : ~In(p, t)
      BY DEF StripIInv, OutSoFar, Settled, Positions, StripTypeOK
    <2>2. CASE p + 1 \in Positions /\ str[p + 1] = ">"
      <3>1. \A t \in tags : ~In(p + 1, t)
        <4> SUFFICES ASSUME NEW t \in tags, In(p + 1, t) PROVE FALSE
          OBVIOUS
        <4>1. t[1] = p + 1
          BY <2>1, Types DEF In, Positions
        <4> QED
          BY <4>1, <2>2 DEF StripIInv, TagsSoFar, IsTag
      <3> QED
        BY <2>2, <3>1 DEF StripIInv, OutSoFar
    <2> QED
      BY <2>1, <2>2 DEF StripIInv, StandingSoFar
  <1> QED
    BY <1>1, StripTagsIInv, PTL

\* It looks at no character more than once for '<' and once for '>'.
THEOREM StripsInLinearTime == ASSUME StringsAssumption PROVE StripSpec => []Linear
  <1>1. StripIInv => Linear
    BY Types DEF StripIInv, AtTheLoop, StripTypeOK, Linear
  <1> QED
    BY <1>1, StripTagsIInv, PTL

----------------------------------------------------------------------------
(* Upload                                                                  *)

\* What a step of another upload leaves alone.
Stands(q) ==
  UNCHANGED <<pc[q], content[q], sent[q], source[q], sizeExceeded[q], writeFailure[q], writer[q],
              temp[q], encoded[q], scan[q], target[q]>>

\* What a client sends has a size, and no more of it is sent.
LEMMA Sizes ==
  ASSUME TypeOK, NEW u \in Uploads
  PROVE  content[u].chunks \in Nat /\ sent[u] \in Nat /\ sent[u] <= content[u].chunks /\ maxFileSize \in Nat
  BY UploadAssumption DEF TypeOK

\* No file is the absence of one.
LEMMA FileIsNotNone ==
  ASSUME TypeOK, NEW u \in Uploads
  PROVE  File(u, sent[u], FALSE) # NoFile
  <1>1. sent[u] \in 0 .. MaxChunks
    BY UploadAssumption DEF TypeOK
  <1>2. File(u, sent[u], FALSE) \in [of : Uploads, chunks : 0..MaxChunks, encoded : BOOLEAN]
    BY <1>1 DEF File
  <1> QED
    BY <1>2, UploadAssumption

\* A step of one upload preserves the invariant if it keeps what is known of that one,
\* leaves the others alone, and puts no file in a place before its upload is through.
LEMMA StepOfOne ==
  ASSUME IInv, NEW u \in Uploads, TypeOK', StreamOk(u)', PlaceOk(u)',
         \A q \in Uploads \ {u} : Stands(q),
         pc[u] = "moved" => pc'[u] = "moved",
         \A n \in Names : dest'[n] # NoFile => dest'[n] = dest[n] \/ pc'[dest'[n].of] = "moved"
  PROVE  IInv'
  <1>1. ASSUME NEW q \in Uploads PROVE StreamOk(q)' /\ PlaceOk(q)'
    <2>1. CASE q = u
      BY <2>1
    <2>2. CASE q # u
      <3>1. StreamOk(q) /\ PlaceOk(q) /\ Stands(q)
        BY <2>2 DEF IInv
      <3>2. StreamOk(q)'
        BY <3>1 DEF StreamOk, Stands, InPipeline, File
      <3>3. PlaceOk(q)'
        BY <3>1 DEF PlaceOk, Stands, InPipeline, File, tempFile
      <3> QED BY <3>2, <3>3
    <2> QED BY <2>1, <2>2
  <1>2. StoreAnswersForItsFile'
    <2>1. ASSUME NEW q \in Uploads, pc'[q] = "stored"
          PROVE  /\ source'[q] = "ended" /\ content'[q].chunks <= maxFileSize
                 /\ temp'[q] = File(q, content'[q].chunks, FALSE)
      BY <1>1, <2>1 DEF StreamOk, PlaceOk, InPipeline, File
    <2>2. ASSUME NEW q \in Uploads, InPipeline(q)' PROVE ~sizeExceeded'[q] /\ ~writeFailure'[q]
      BY <1>1, <2>2 DEF StreamOk
    <2> QED
      BY <2>1, <2>2 DEF StoreAnswersForItsFile, File
  <1>3. DestOk'
    <2>1. ASSUME NEW n \in Names, dest'[n] # NoFile, dest'[n] = dest[n] PROVE pc'[dest'[n].of] = "moved"
      <3>1. pc[dest[n].of] = "moved"
        BY <2>1 DEF IInv, DestOk
      <3>2. dest[n].of \in Uploads
        BY <2>1 DEF IInv, TypeOK, Files
      <3> QED BY <2>1, <3>1, <3>2 DEF Stands
    <2> QED BY <2>1 DEF DestOk
  <1> QED
    BY <1>1, <1>2, <1>3 DEF IInv

\* A chunk is counted, and written as long as nothing has failed.
LEMMA DataIInv ==
  ASSUME IInv, NEW u \in Uploads, Data(u)
  PROVE  IInv'
<1>0. TypeOK /\ StreamOk(u) /\ PlaceOk(u)
  BY DEF IInv
<1>1. TypeOK'
  BY <1>0, UploadAssumption DEF Data, streamVars, Storing, TypeOK, File, Files, Scans
<1>2. StreamOk(u)'
  <2>1. /\ source' = source /\ writeFailure' = writeFailure /\ pc' = pc /\ content' = content
        /\ sent'[u] = sent[u] + 1 /\ source[u] = "flowing"
        /\ writer[u] # "ending" /\ ~InPipeline(u)
    BY <1>0 DEF Data, Storing, TypeOK, StreamOk
  <2>2. CASE writer[u] = "open"
    <3>1. CASE sent[u] + 1 > maxFileSize
      <4>1. sizeExceeded'[u] /\ writer'[u] = "destroyed"
        BY <1>0, <2>2, <3>1 DEF Data, TypeOK, StreamOk
      <4> QED BY <2>1, <4>1 DEF StreamOk, InPipeline
    <3>2. CASE sent[u] + 1 <= maxFileSize
      <4>1. sizeExceeded'[u] = sizeExceeded[u] /\ writer'[u] = "open" /\ temp'[u] = File(u, sent[u] + 1, FALSE)
        <5>1. ~(sent[u] + 1 > maxFileSize)
          BY <1>0, <3>2, Sizes
        <5>2. /\ sizeExceeded' = [sizeExceeded EXCEPT ![u] = @ \/ FALSE]
              /\ writer' = [writer EXCEPT ![u] = @]
              /\ temp' = [temp EXCEPT ![u] = File(u, sent[u] + 1, FALSE)]
          BY <2>2, <5>1 DEF Data
        <5> QED BY <1>0, <2>2, <5>2 DEF TypeOK
      <4> QED BY <1>0, <2>1, <2>2, <3>2, <4>1 DEF StreamOk, InPipeline, File
    <3> QED BY <1>0, <3>1, <3>2, Sizes
  <2>3. CASE writer[u] # "open"
    <3>1. writer'[u] = writer[u] /\ (sizeExceeded[u] => sizeExceeded'[u])
      BY <1>0, <2>3 DEF Data, TypeOK
    <3> QED BY <1>0, <2>1, <2>3, <3>1 DEF TypeOK, StreamOk, InPipeline
  <2> QED BY <2>2, <2>3
<1>3. PlaceOk(u)'
  BY <1>0 DEF Data, streamVars, Storing, TypeOK, StreamOk, PlaceOk, InPipeline, File, tempFile
<1>4. \A q \in Uploads \ {u} : Stands(q)
  BY <1>0 DEF Data, streamVars, Storing, TypeOK, Stands
<1>5. /\ pc[u] = "moved" => pc'[u] = "moved"
      /\ \A n \in Names : dest'[n] # NoFile => dest'[n] = dest[n] \/ pc'[dest'[n].of] = "moved"
  BY <1>0 DEF Data, streamVars, Storing, TypeOK, PlaceOk, File
<1> QED
  BY <1>1, <1>2, <1>3, <1>4, <1>5, StepOfOne

\* The file is created empty, before anything of it was sent.
LEMMA OpenedIInv ==
  ASSUME IInv, NEW u \in Uploads, Opened(u)
  PROVE  IInv'
<1>0. TypeOK /\ StreamOk(u) /\ PlaceOk(u)
  BY DEF IInv
<1>1. TypeOK'
  BY <1>0, UploadAssumption DEF Opened, streamVars, Storing, TypeOK, File, Files, Scans
<1>2. StreamOk(u)'
  BY <1>0, Sizes, FileIsNotNone DEF Opened, streamVars, Storing, TypeOK, StreamOk, InPipeline, File
<1>3. PlaceOk(u)'
  BY <1>0 DEF Opened, streamVars, Storing, TypeOK, StreamOk, PlaceOk, InPipeline, File, tempFile
<1>4. \A q \in Uploads \ {u} : Stands(q)
  BY <1>0 DEF Opened, streamVars, Storing, TypeOK, Stands
<1>5. /\ pc[u] = "moved" => pc'[u] = "moved"
      /\ \A n \in Names : dest'[n] # NoFile => dest'[n] = dest[n] \/ pc'[dest'[n].of] = "moved"
  BY <1>0 DEF Opened, streamVars, Storing, TypeOK, PlaceOk, File
<1> QED
  BY <1>1, <1>2, <1>3, <1>4, <1>5, StepOfOne

\* The whole upload has been sent.
LEMMA SourceEndsIInv ==
  ASSUME IInv, NEW u \in Uploads, SourceEnds(u)
  PROVE  IInv'
<1>0. TypeOK /\ StreamOk(u) /\ PlaceOk(u)
  BY DEF IInv
<1>1. TypeOK'
  BY <1>0, UploadAssumption DEF SourceEnds, streamVars, Storing, TypeOK, File, Files, Scans
<1>2. StreamOk(u)'
  BY <1>0, Sizes DEF SourceEnds, streamVars, Storing, TypeOK, StreamOk, InPipeline, File
<1>3. PlaceOk(u)'
  BY <1>0 DEF SourceEnds, streamVars, Storing, TypeOK, StreamOk, PlaceOk, InPipeline, File, tempFile
<1>4. \A q \in Uploads \ {u} : Stands(q)
  BY <1>0 DEF SourceEnds, streamVars, Storing, TypeOK, Stands
<1>5. /\ pc[u] = "moved" => pc'[u] = "moved"
      /\ \A n \in Names : dest'[n] # NoFile => dest'[n] = dest[n] \/ pc'[dest'[n].of] = "moved"
  BY <1>0 DEF SourceEnds, streamVars, Storing, TypeOK, PlaceOk, File
<1> QED
  BY <1>1, <1>2, <1>3, <1>4, <1>5, StepOfOne

\* A failure of the upload's stream is on record, or the writer had failed before.
LEMMA SourceFailsIInv ==
  ASSUME IInv, NEW u \in Uploads, SourceFails(u)
  PROVE  IInv'
<1>0. TypeOK /\ StreamOk(u) /\ PlaceOk(u)
  BY DEF IInv
<1>1. TypeOK'
  BY <1>0, UploadAssumption, ZenonT(120) DEF SourceFails, streamVars, Storing, TypeOK, File, Files, Scans
<1>2. StreamOk(u)'
  BY <1>0, Sizes DEF SourceFails, streamVars, Storing, TypeOK, StreamOk, InPipeline, File
<1>3. PlaceOk(u)'
  BY <1>0 DEF SourceFails, streamVars, Storing, TypeOK, StreamOk, PlaceOk, InPipeline, File, tempFile
<1>4. \A q \in Uploads \ {u} : Stands(q)
  BY <1>0 DEF SourceFails, streamVars, Storing, TypeOK, Stands
<1>5. /\ pc[u] = "moved" => pc'[u] = "moved"
      /\ \A n \in Names : dest'[n] # NoFile => dest'[n] = dest[n] \/ pc'[dest'[n].of] = "moved"
  BY <1>0 DEF SourceFails, streamVars, Storing, TypeOK, PlaceOk, File
<1> QED
  BY <1>1, <1>2, <1>3, <1>4, <1>5, StepOfOne

\* So is one of the writer.
LEMMA WriteFailsIInv ==
  ASSUME IInv, NEW u \in Uploads, WriteFails(u)
  PROVE  IInv'
<1>0. TypeOK /\ StreamOk(u) /\ PlaceOk(u)
  BY DEF IInv
<1>1. TypeOK'
  BY <1>0, UploadAssumption DEF WriteFails, streamVars, Storing, TypeOK, File, Files, Scans
<1>2. StreamOk(u)'
  BY <1>0, Sizes DEF WriteFails, streamVars, Storing, TypeOK, StreamOk, InPipeline, File
<1>3. PlaceOk(u)'
  BY <1>0 DEF WriteFails, streamVars, Storing, TypeOK, StreamOk, PlaceOk, InPipeline, File, tempFile
<1>4. \A q \in Uploads \ {u} : Stands(q)
  BY <1>0 DEF WriteFails, streamVars, Storing, TypeOK, Stands
<1>5. /\ pc[u] = "moved" => pc'[u] = "moved"
      /\ \A n \in Names : dest'[n] # NoFile => dest'[n] = dest[n] \/ pc'[dest'[n].of] = "moved"
  BY <1>0 DEF WriteFails, streamVars, Storing, TypeOK, PlaceOk, File
<1> QED
  BY <1>1, <1>2, <1>3, <1>4, <1>5, StepOfOne

\* What closes without a failure on record has ended, and is on the disk.
LEMMA CloseIInv ==
  ASSUME IInv, NEW u \in Uploads, Close(u)
  PROVE  IInv'
<1>0. TypeOK /\ StreamOk(u) /\ PlaceOk(u)
  BY DEF IInv
<1>1. TypeOK'
  BY <1>0, UploadAssumption DEF Close, CanClose, streamVars, TypeOK, File, Files, Scans
<1>2. StreamOk(u)'
  BY <1>0, Sizes DEF Close, CanClose, streamVars, TypeOK, StreamOk, InPipeline, File
<1>3. PlaceOk(u)'
  BY <1>0 DEF Close, CanClose, streamVars, TypeOK, StreamOk, PlaceOk, InPipeline, File, tempFile
<1>4. \A q \in Uploads \ {u} : Stands(q)
  BY <1>0 DEF Close, CanClose, streamVars, TypeOK, Stands
<1>5. /\ pc[u] = "moved" => pc'[u] = "moved"
      /\ \A n \in Names : dest'[n] # NoFile => dest'[n] = dest[n] \/ pc'[dest'[n].of] = "moved"
  BY <1>0 DEF Close, CanClose, streamVars, TypeOK, PlaceOk, File
<1> QED
  BY <1>1, <1>2, <1>3, <1>4, <1>5, StepOfOne

\* An upload that is refused is no longer in the pipeline.
LEMMA SettleIInv ==
  ASSUME IInv, NEW u \in Uploads, Settle(u)
  PROVE  IInv'
<1>0. TypeOK /\ StreamOk(u) /\ PlaceOk(u)
  BY DEF IInv
<1>1. TypeOK'
  BY <1>0, UploadAssumption DEF Settle, Pipeline, streamVars, Go, Removed, TypeOK, File, Files, Scans
<1>2. StreamOk(u)'
  BY <1>0, Sizes DEF Settle, Pipeline, streamVars, Go, Removed, TypeOK, StreamOk, InPipeline, File
<1>3. PlaceOk(u)'
  BY <1>0 DEF Settle, Pipeline, streamVars, Go, Removed, TypeOK, StreamOk, PlaceOk, InPipeline, File, tempFile
<1>4. \A q \in Uploads \ {u} : Stands(q)
  BY <1>0 DEF Settle, Pipeline, streamVars, Go, Removed, TypeOK, Stands
<1>5. /\ pc[u] = "moved" => pc'[u] = "moved"
      /\ \A n \in Names : dest'[n] # NoFile => dest'[n] = dest[n] \/ pc'[dest'[n].of] = "moved"
  BY <1>0 DEF Settle, Pipeline, streamVars, Go, Removed, TypeOK, PlaceOk, File
<1> QED
  BY <1>1, <1>2, <1>3, <1>4, <1>5, StepOfOne

\* Past it, the extension is allowed.
LEMMA ValidateExtensionIInv ==
  ASSUME IInv, NEW u \in Uploads, ValidateExtension(u)
  PROVE  IInv'
<1>0. TypeOK /\ StreamOk(u) /\ PlaceOk(u)
  BY DEF IInv
<1>1. TypeOK'
  <2>1. pc' \in [Uploads -> {"storing", "settling", "stored", "mime", "scan", "read", "unlink",
                            "answered", "check", "rename", "moved", "refused"}]
    BY <1>0 DEF ValidateExtension, Pipeline, streamVars, Go, Removed, ThrowFor, TypeOK
  <2>2. temp' \in [Uploads -> Files] /\ encoded' \in [Uploads -> Files]
    BY <1>0, UploadAssumption DEF ValidateExtension, Pipeline, streamVars, Go, Removed, ThrowFor, TypeOK, File, Files
  <2>3. scan' \in [Uploads -> Scans]
    BY <1>0 DEF ValidateExtension, Pipeline, streamVars, Go, Removed, ThrowFor, TypeOK, Scans
  <2>4. refusal' \in [Uploads -> {"none", "size", "stream", "extension", "type", "scanner", "image", "internal",
                                 "traversal", "taken"}]
    BY <1>0 DEF ValidateExtension, Pipeline, streamVars, Go, Removed, ThrowFor, TypeOK
  <2>5. target' \in [Uploads -> Names \cup {NoFile}]
    BY <1>0 DEF ValidateExtension, Pipeline, streamVars, Go, Removed, ThrowFor, TypeOK
  <2>6. \A q \in Uploads : writer'[q] = "closed" <=> pc'[q] # "storing"
    BY <1>0 DEF ValidateExtension, Pipeline, streamVars, Go, Removed, ThrowFor, TypeOK
  <2> QED
    BY <1>0, <2>1, <2>2, <2>3, <2>4, <2>5, <2>6 DEF ValidateExtension, Pipeline, streamVars, Go, Removed, ThrowFor, TypeOK
<1>2. StreamOk(u)'
  BY <1>0, Sizes DEF ValidateExtension, Pipeline, streamVars, Go, Removed, ThrowFor, TypeOK, StreamOk, InPipeline, File
<1>3. PlaceOk(u)'
  <2>1. content' = content
    BY DEF ValidateExtension, Pipeline
  <2>2. CASE content[u].ext \in AllowedExtensions(KindOf[u])
    <3>1. pc'[u] = "mime" /\ temp' = temp
      BY <1>0, <2>2 DEF ValidateExtension, Go, TypeOK
    <3>2. temp[u] = File(u, content[u].chunks, FALSE)
      BY <1>0 DEF ValidateExtension, PlaceOk
    <3> QED
      BY <2>1, <2>2, <3>1, <3>2 DEF PlaceOk, InPipeline, File
  <2>3. CASE content[u].ext \notin AllowedExtensions(KindOf[u])
    <3>1. pc'[u] = "refused"
      BY <1>0, <2>3 DEF ValidateExtension, Go, ThrowFor, TypeOK
    <3> QED
      BY <3>1 DEF PlaceOk, InPipeline
  <2> QED
    BY <2>2, <2>3
<1>4. \A q \in Uploads \ {u} : Stands(q)
  BY <1>0 DEF ValidateExtension, Pipeline, streamVars, Go, Removed, ThrowFor, TypeOK, Stands
<1>5. /\ pc[u] = "moved" => pc'[u] = "moved"
      /\ \A n \in Names : dest'[n] # NoFile => dest'[n] = dest[n] \/ pc'[dest'[n].of] = "moved"
  BY <1>0 DEF ValidateExtension, Pipeline, streamVars, Go, Removed, ThrowFor, TypeOK, PlaceOk, File
<1> QED
  BY <1>1, <1>2, <1>3, <1>4, <1>5, StepOfOne

\* Past it, so is the type.
LEMMA ValidateMimeTypeIInv ==
  ASSUME IInv, NEW u \in Uploads, ValidateMimeType(u)
  PROVE  IInv'
<1>0. TypeOK /\ StreamOk(u) /\ PlaceOk(u)
  BY DEF IInv
<1>1. TypeOK'
  <2>1. pc' \in [Uploads -> {"storing", "settling", "stored", "mime", "scan", "read", "unlink",
                            "answered", "check", "rename", "moved", "refused"}]
    BY <1>0 DEF ValidateMimeType, Pipeline, streamVars, Go, Removed, ThrowFor, TypeOK
  <2>2. temp' \in [Uploads -> Files] /\ encoded' \in [Uploads -> Files]
    BY <1>0, UploadAssumption DEF ValidateMimeType, Pipeline, streamVars, Go, Removed, ThrowFor, TypeOK, File, Files
  <2>3. scan' \in [Uploads -> Scans]
    BY <1>0 DEF ValidateMimeType, Pipeline, streamVars, Go, Removed, ThrowFor, TypeOK, Scans
  <2>4. refusal' \in [Uploads -> {"none", "size", "stream", "extension", "type", "scanner", "image", "internal",
                                 "traversal", "taken"}]
    BY <1>0 DEF ValidateMimeType, Pipeline, streamVars, Go, Removed, ThrowFor, TypeOK
  <2>5. target' \in [Uploads -> Names \cup {NoFile}]
    BY <1>0 DEF ValidateMimeType, Pipeline, streamVars, Go, Removed, ThrowFor, TypeOK
  <2>6. \A q \in Uploads : writer'[q] = "closed" <=> pc'[q] # "storing"
    BY <1>0 DEF ValidateMimeType, Pipeline, streamVars, Go, Removed, ThrowFor, TypeOK
  <2> QED
    BY <1>0, <2>1, <2>2, <2>3, <2>4, <2>5, <2>6 DEF ValidateMimeType, Pipeline, streamVars, Go, Removed, ThrowFor, TypeOK
<1>2. StreamOk(u)'
  BY <1>0, Sizes DEF ValidateMimeType, Pipeline, streamVars, Go, Removed, ThrowFor, TypeOK, StreamOk, InPipeline, File
<1>3. PlaceOk(u)'
  BY <1>0, ZenonT(60) DEF ValidateMimeType, Pipeline, streamVars, Go, Removed, ThrowFor, TypeOK, StreamOk, PlaceOk, InPipeline, File, tempFile
<1>4. \A q \in Uploads \ {u} : Stands(q)
  BY <1>0 DEF ValidateMimeType, Pipeline, streamVars, Go, Removed, ThrowFor, TypeOK, Stands
<1>5. /\ pc[u] = "moved" => pc'[u] = "moved"
      /\ \A n \in Names : dest'[n] # NoFile => dest'[n] = dest[n] \/ pc'[dest'[n].of] = "moved"
  BY <1>0 DEF ValidateMimeType, Pipeline, streamVars, Go, Removed, ThrowFor, TypeOK, PlaceOk, File
<1> QED
  BY <1>1, <1>2, <1>3, <1>4, <1>5, StepOfOne

\* A file that is still there afterwards was not called infected.
LEMMA ScanVirusIInv ==
  ASSUME IInv, NEW u \in Uploads, ScanVirus(u)
  PROVE  IInv'
<1>0. TypeOK /\ StreamOk(u) /\ PlaceOk(u)
  BY DEF IInv
<1>1. TypeOK'
  <2>1. pc' \in [Uploads -> {"storing", "settling", "stored", "mime", "scan", "read", "unlink",
                            "answered", "check", "rename", "moved", "refused"}]
    BY <1>0 DEF ScanVirus, Pipeline, streamVars, Go, ThrowFor, TypeOK
  <2>2. temp' \in [Uploads -> Files] /\ encoded' \in [Uploads -> Files]
    BY <1>0, UploadAssumption DEF ScanVirus, Pipeline, streamVars, Go, ThrowFor, TypeOK, File, Files
  <2>3. scan' \in [Uploads -> Scans]
    BY <1>0 DEF ScanVirus, Pipeline, streamVars, Go, ThrowFor, TypeOK, Scans
  <2>4. refusal' \in [Uploads -> {"none", "size", "stream", "extension", "type", "scanner", "image", "internal",
                                 "traversal", "taken"}]
    BY <1>0 DEF ScanVirus, Pipeline, streamVars, Go, ThrowFor, TypeOK
  <2>5. target' \in [Uploads -> Names \cup {NoFile}]
    BY <1>0 DEF ScanVirus, Pipeline, streamVars, Go, ThrowFor, TypeOK
  <2>6. \A q \in Uploads : writer'[q] = "closed" <=> pc'[q] # "storing"
    BY <1>0 DEF ScanVirus, Pipeline, streamVars, Go, ThrowFor, TypeOK
  <2> QED
    BY <1>0, <2>1, <2>2, <2>3, <2>4, <2>5, <2>6 DEF ScanVirus, Pipeline, streamVars, Go, ThrowFor, TypeOK
<1>2. StreamOk(u)'
  BY <1>0, Sizes DEF ScanVirus, Pipeline, streamVars, Go, ThrowFor, TypeOK, StreamOk, InPipeline, File
<1>3. PlaceOk(u)'
  BY <1>0, ZenonT(40) DEF ScanVirus, Pipeline, streamVars, Go, ThrowFor, TypeOK, StreamOk, PlaceOk, InPipeline, File, tempFile
<1>4. \A q \in Uploads \ {u} : Stands(q)
  BY <1>0 DEF ScanVirus, Pipeline, streamVars, Go, ThrowFor, TypeOK, Stands
<1>5. /\ pc[u] = "moved" => pc'[u] = "moved"
      /\ \A n \in Names : dest'[n] # NoFile => dest'[n] = dest[n] \/ pc'[dest'[n].of] = "moved"
  BY <1>0 DEF ScanVirus, Pipeline, streamVars, Go, ThrowFor, TypeOK, PlaceOk, File
<1> QED
  BY <1>1, <1>2, <1>3, <1>4, <1>5, StepOfOne

\* What sharp wrote without failing is the whole of the upload.
LEMMA ReEncodeIInv ==
  ASSUME IInv, NEW u \in Uploads, ReEncode(u)
  PROVE  IInv'
<1>0. TypeOK /\ StreamOk(u) /\ PlaceOk(u)
  BY DEF IInv
<1>1. PICK f \in Files, place \in {"unlink", "refused"} :
        /\ encoded' = [encoded EXCEPT ![u] = f]
        /\ pc' = [pc EXCEPT ![u] = place]
        /\ refusal' \in {refusal, [refusal EXCEPT ![u] = "image"]}
        /\ place = "unlink" => temp[u] # NoFile /\ f = File(u, temp[u].chunks, TRUE)
  <2>1. CASE /\ temp[u] # NoFile
             /\ encoded' = [encoded EXCEPT ![u] = File(u, temp[u].chunks, TRUE)]
             /\ Go(u, "unlink") /\ UNCHANGED refusal
    <3>1. File(u, temp[u].chunks, TRUE) \in Files
      BY <1>0, <2>1 DEF TypeOK, Files, File
    <3> QED BY <2>1, <3>1 DEF Go
  <2>2. CASE /\ \E n \in {NoFile, File(u, 0, TRUE)} :
                  encoded' = [encoded EXCEPT ![u] = IF temp[u] = NoFile THEN NoFile ELSE n]
             /\ ThrowFor(u, "image")
    <3>1. File(u, 0, TRUE) \in Files /\ NoFile \in Files
      BY UploadAssumption DEF Files, File
    <3> QED BY <2>2, <3>1 DEF ThrowFor, Go
  <2> QED BY <2>1, <2>2 DEF ReEncode
<1>2. /\ pc[u] = "read" /\ UNCHANGED <<temp, scan, clam, content, streamVars, target, dest>>
      /\ pc'[u] \in {"unlink", "refused"} /\ pc'[u] = place /\ encoded'[u] = f
  BY <1>0, <1>1 DEF ReEncode, Pipeline, TypeOK
<1>3. TypeOK'
  <2>1. pc' \in [Uploads -> {"storing", "settling", "stored", "mime", "scan", "read", "unlink",
                            "answered", "check", "rename", "moved", "refused"}]
    BY <1>0, <1>1 DEF TypeOK
  <2>2. encoded' \in [Uploads -> Files]
    BY <1>0, <1>1 DEF TypeOK
  <2>3. refusal' \in [Uploads -> {"none", "size", "stream", "extension", "type", "scanner", "image", "internal",
                                 "traversal", "taken"}]
    BY <1>0, <1>1 DEF TypeOK
  <2>4. \A q \in Uploads : writer'[q] = "closed" <=> pc'[q] # "storing"
    BY <1>0, <1>1, <1>2 DEF TypeOK, streamVars
  <2> QED
    BY <1>0, <1>2, <2>1, <2>2, <2>3, <2>4 DEF TypeOK, streamVars
<1>4. StreamOk(u)'
  BY <1>0, <1>2 DEF streamVars, StreamOk, InPipeline, File
<1>5. PlaceOk(u)'
  <2>1. /\ KindOf[u] = "image" /\ pc'[u] \in {"unlink", "refused"}
        /\ content[u].ext \in AllowedExtensions(KindOf[u]) /\ content[u].type \in AllowedTypes(KindOf[u])
    BY <1>0, <1>2 DEF PlaceOk, InPipeline
  <2>2. pc'[u] = "unlink" => encoded'[u] = File(u, content[u].chunks, TRUE) /\ scan[u] \in {"clean", "failed"}
    <3>1. ASSUME pc'[u] = "unlink" PROVE temp[u] = File(u, content[u].chunks, FALSE) /\ scan[u] \in {"clean", "failed"}
      BY <1>0, <1>1, <1>2, <3>1 DEF PlaceOk
    <3>2. File(u, content[u].chunks, FALSE).chunks = content[u].chunks
      BY DEF File
    <3> QED BY <1>1, <1>2, <3>1, <3>2
  <2> QED BY <1>2, <2>1, <2>2 DEF PlaceOk, InPipeline, tempFile, File, AllowedExtensions, AllowedTypes
<1>6. \A q \in Uploads \ {u} : Stands(q)
  BY <1>0, <1>1, <1>2 DEF TypeOK, Stands, streamVars
<1> QED
  BY <1>2, <1>3, <1>4, <1>5, <1>6, StepOfOne

\* Without the original, the answer names the re-encoded file.
LEMMA UnlinkOriginalIInv ==
  ASSUME IInv, NEW u \in Uploads, UnlinkOriginal(u)
  PROVE  IInv'
<1>0. TypeOK /\ StreamOk(u) /\ PlaceOk(u)
  BY DEF IInv
<1>1. TypeOK'
  <2>1. pc' \in [Uploads -> {"storing", "settling", "stored", "mime", "scan", "read", "unlink",
                            "answered", "check", "rename", "moved", "refused"}]
    BY <1>0 DEF UnlinkOriginal, Pipeline, streamVars, Go, ThrowFor, TypeOK
  <2>2. temp' \in [Uploads -> Files] /\ encoded' \in [Uploads -> Files]
    BY <1>0, UploadAssumption DEF UnlinkOriginal, Pipeline, streamVars, Go, ThrowFor, TypeOK, File, Files
  <2>3. scan' \in [Uploads -> Scans]
    BY <1>0 DEF UnlinkOriginal, Pipeline, streamVars, Go, ThrowFor, TypeOK, Scans
  <2>4. refusal' \in [Uploads -> {"none", "size", "stream", "extension", "type", "scanner", "image", "internal",
                                 "traversal", "taken"}]
    BY <1>0 DEF UnlinkOriginal, Pipeline, streamVars, Go, ThrowFor, TypeOK
  <2>5. target' \in [Uploads -> Names \cup {NoFile}]
    BY <1>0 DEF UnlinkOriginal, Pipeline, streamVars, Go, ThrowFor, TypeOK
  <2>6. \A q \in Uploads : writer'[q] = "closed" <=> pc'[q] # "storing"
    BY <1>0 DEF UnlinkOriginal, Pipeline, streamVars, Go, ThrowFor, TypeOK
  <2> QED
    BY <1>0, <2>1, <2>2, <2>3, <2>4, <2>5, <2>6 DEF UnlinkOriginal, Pipeline, streamVars, Go, ThrowFor, TypeOK
<1>2. StreamOk(u)'
  BY <1>0, Sizes DEF UnlinkOriginal, Pipeline, streamVars, Go, ThrowFor, TypeOK, StreamOk, InPipeline, File
<1>3. PlaceOk(u)'
  BY <1>0 DEF UnlinkOriginal, Pipeline, streamVars, Go, ThrowFor, TypeOK, StreamOk, PlaceOk, InPipeline, File, tempFile
<1>4. \A q \in Uploads \ {u} : Stands(q)
  BY <1>0 DEF UnlinkOriginal, Pipeline, streamVars, Go, ThrowFor, TypeOK, Stands
<1>5. /\ pc[u] = "moved" => pc'[u] = "moved"
      /\ \A n \in Names : dest'[n] # NoFile => dest'[n] = dest[n] \/ pc'[dest'[n].of] = "moved"
  BY <1>0 DEF UnlinkOriginal, Pipeline, streamVars, Go, ThrowFor, TypeOK, PlaceOk, File
<1> QED
  BY <1>1, <1>2, <1>3, <1>4, <1>5, StepOfOne

\* A destination outside of the folder is refused.
LEMMA CallMoveIInv ==
  ASSUME IInv, NEW u \in Uploads, CallMove(u)
  PROVE  IInv'
<1>0. TypeOK /\ StreamOk(u) /\ PlaceOk(u)
  BY DEF IInv
<1>1. TypeOK'
  <2>1. pc' \in [Uploads -> {"storing", "settling", "stored", "mime", "scan", "read", "unlink",
                            "answered", "check", "rename", "moved", "refused"}]
    BY <1>0 DEF CallMove, streamVars, Go, ThrowFor, TypeOK
  <2>2. temp' \in [Uploads -> Files] /\ encoded' \in [Uploads -> Files]
    BY <1>0, UploadAssumption DEF CallMove, streamVars, Go, ThrowFor, TypeOK, File, Files
  <2>3. scan' \in [Uploads -> Scans]
    BY <1>0 DEF CallMove, streamVars, Go, ThrowFor, TypeOK, Scans
  <2>4. refusal' \in [Uploads -> {"none", "size", "stream", "extension", "type", "scanner", "image", "internal",
                                 "traversal", "taken"}]
    BY <1>0 DEF CallMove, streamVars, Go, ThrowFor, TypeOK
  <2>5. target' \in [Uploads -> Names \cup {NoFile}]
    BY <1>0 DEF CallMove, streamVars, Go, ThrowFor, TypeOK
  <2>6. \A q \in Uploads : writer'[q] = "closed" <=> pc'[q] # "storing"
    BY <1>0 DEF CallMove, streamVars, Go, ThrowFor, TypeOK
  <2> QED
    BY <1>0, <2>1, <2>2, <2>3, <2>4, <2>5, <2>6 DEF CallMove, streamVars, Go, ThrowFor, TypeOK
<1>2. StreamOk(u)'
  BY <1>0, Sizes DEF CallMove, streamVars, Go, ThrowFor, TypeOK, StreamOk, InPipeline, File
<1>3. PlaceOk(u)'
  BY <1>0 DEF CallMove, streamVars, Go, ThrowFor, TypeOK, StreamOk, PlaceOk, InPipeline, File, tempFile
<1>4. \A q \in Uploads \ {u} : Stands(q)
  BY <1>0 DEF CallMove, streamVars, Go, ThrowFor, TypeOK, Stands
<1>5. /\ pc[u] = "moved" => pc'[u] = "moved"
      /\ \A n \in Names : dest'[n] # NoFile => dest'[n] = dest[n] \/ pc'[dest'[n].of] = "moved"
  BY <1>0 DEF CallMove, streamVars, Go, ThrowFor, TypeOK, PlaceOk, File
<1> QED
  BY <1>1, <1>2, <1>3, <1>4, <1>5, StepOfOne

\* Only a file that is there goes on to be renamed.
LEMMA CheckDestIInv ==
  ASSUME IInv, NEW u \in Uploads, CheckDest(u)
  PROVE  IInv'
<1>0. TypeOK /\ StreamOk(u) /\ PlaceOk(u)
  BY DEF IInv
<1>1. TypeOK'
  <2>1. pc' \in [Uploads -> {"storing", "settling", "stored", "mime", "scan", "read", "unlink",
                            "answered", "check", "rename", "moved", "refused"}]
    BY <1>0 DEF CheckDest, streamVars, Go, ThrowFor, TypeOK
  <2>2. temp' \in [Uploads -> Files] /\ encoded' \in [Uploads -> Files]
    BY <1>0, UploadAssumption DEF CheckDest, streamVars, Go, ThrowFor, TypeOK, File, Files
  <2>3. scan' \in [Uploads -> Scans]
    BY <1>0 DEF CheckDest, streamVars, Go, ThrowFor, TypeOK, Scans
  <2>4. refusal' \in [Uploads -> {"none", "size", "stream", "extension", "type", "scanner", "image", "internal",
                                 "traversal", "taken"}]
    BY <1>0 DEF CheckDest, streamVars, Go, ThrowFor, TypeOK
  <2>5. target' \in [Uploads -> Names \cup {NoFile}]
    BY <1>0 DEF CheckDest, streamVars, Go, ThrowFor, TypeOK
  <2>6. \A q \in Uploads : writer'[q] = "closed" <=> pc'[q] # "storing"
    BY <1>0 DEF CheckDest, streamVars, Go, ThrowFor, TypeOK
  <2> QED
    BY <1>0, <2>1, <2>2, <2>3, <2>4, <2>5, <2>6 DEF CheckDest, streamVars, Go, ThrowFor, TypeOK
<1>2. StreamOk(u)'
  BY <1>0, Sizes DEF CheckDest, streamVars, Go, ThrowFor, TypeOK, StreamOk, InPipeline, File
<1>3. PlaceOk(u)'
  BY <1>0 DEF CheckDest, streamVars, Go, ThrowFor, TypeOK, StreamOk, PlaceOk, InPipeline, File, tempFile
<1>4. \A q \in Uploads \ {u} : Stands(q)
  BY <1>0 DEF CheckDest, streamVars, Go, ThrowFor, TypeOK, Stands
<1>5. /\ pc[u] = "moved" => pc'[u] = "moved"
      /\ \A n \in Names : dest'[n] # NoFile => dest'[n] = dest[n] \/ pc'[dest'[n].of] = "moved"
  BY <1>0 DEF CheckDest, streamVars, Go, ThrowFor, TypeOK, PlaceOk, File
<1> QED
  BY <1>1, <1>2, <1>3, <1>4, <1>5, StepOfOne

\* The file that was answered is in its place, and its upload is through.
LEMMA RenameIInv ==
  ASSUME IInv, NEW u \in Uploads, Rename(u)
  PROVE  IInv'
<1>0. TypeOK /\ StreamOk(u) /\ PlaceOk(u)
  BY DEF IInv
<1>1. TypeOK'
  <2>1. pc' \in [Uploads -> {"storing", "settling", "stored", "mime", "scan", "read", "unlink",
                            "answered", "check", "rename", "moved", "refused"}]
    BY <1>0 DEF Rename, Go, TypeOK
  <2>2. temp' \in [Uploads -> Files] /\ encoded' \in [Uploads -> Files]
    BY <1>0 DEF Rename, TypeOK, Files
  <2>3. dest' \in [Names -> Files]
    BY <1>0 DEF Rename, tempFile, TypeOK
  <2>4. \A q \in Uploads : writer'[q] = "closed" <=> pc'[q] # "storing"
    BY <1>0 DEF Rename, streamVars, Go, TypeOK
  <2> QED
    BY <1>0, <2>1, <2>2, <2>3, <2>4 DEF Rename, streamVars, TypeOK
<1>2. StreamOk(u)'
  BY <1>0, Sizes DEF Rename, streamVars, Go, tempFile, TypeOK, StreamOk, InPipeline, File
<1>3. PlaceOk(u)'
  BY <1>0 DEF Rename, streamVars, Go, tempFile, TypeOK, StreamOk, PlaceOk, InPipeline, File, tempFile
<1>4. \A q \in Uploads \ {u} : Stands(q)
  BY <1>0 DEF Rename, streamVars, Go, tempFile, TypeOK, Stands
<1>5. /\ pc[u] = "moved" => pc'[u] = "moved"
      /\ \A n \in Names : dest'[n] # NoFile => dest'[n] = dest[n] \/ pc'[dest'[n].of] = "moved"
  BY <1>0 DEF Rename, streamVars, Go, tempFile, TypeOK, PlaceOk, File
<1> QED
  BY <1>1, <1>2, <1>3, <1>4, <1>5, StepOfOne

\* Nothing has been sent, and no file is there.
LEMMA InitUpload == Init => IInv
<1> SUFFICES ASSUME Init PROVE IInv
  OBVIOUS
<1>1. TypeOK
  <2>1. sent \in [Uploads -> 0..MaxChunks] /\ \A u \in Uploads : sent[u] <= content[u].chunks
    BY UploadAssumption DEF Init
  <2>2. /\ temp \in [Uploads -> Files] /\ encoded \in [Uploads -> Files] /\ dest \in [Names -> Files]
        /\ scan \in [Uploads -> Scans] /\ target \in [Uploads -> Names \cup {NoFile}]
    BY DEF Init, Files, Scans
  <2> QED
    BY <2>1, <2>2 DEF Init, TypeOK
<1>2. ASSUME NEW u \in Uploads PROVE StreamOk(u) /\ PlaceOk(u)
  BY <1>1, Sizes DEF Init, StreamOk, PlaceOk, InPipeline
<1>3. StoreAnswersForItsFile /\ DestOk
  BY DEF Init, StoreAnswersForItsFile, InPipeline, DestOk
<1> QED
  BY <1>1, <1>2, <1>3 DEF IInv

\* Every step is one upload's, or sets up the scanner.
LEMMA NextUpload == IInv /\ [Next]_vars => IInv'
<1> SUFFICES ASSUME IInv, [Next]_vars PROVE IInv'
  OBVIOUS
<1>1. ASSUME NEW u \in Uploads, Streaming(u) \/ WriteFails(u) PROVE IInv'
  BY <1>1, DataIInv, OpenedIInv, SourceEndsIInv, SourceFailsIInv, CloseIInv, WriteFailsIInv DEF Streaming
<1>2. ASSUME NEW u \in Uploads, Vetting(u) PROVE IInv'
  BY <1>2, SettleIInv, ValidateExtensionIInv, ValidateMimeTypeIInv, ScanVirusIInv, ReEncodeIInv,
     UnlinkOriginalIInv DEF Vetting
<1>3. ASSUME NEW u \in Uploads, Moving(u) PROVE IInv'
  BY <1>3, CallMoveIInv, CheckDestIInv, RenameIInv DEF Moving
<1>4. CASE InitClamScan \/ UNCHANGED vars
  <2>1. clam' \in BOOLEAN /\ UNCHANGED <<pc, content, streamVars, temp, encoded, scan, refusal, target, dest>>
    BY <1>4 DEF InitClamScan, vars, IInv, TypeOK
  <2>2. TypeOK' /\ StoreAnswersForItsFile' /\ DestOk'
    BY <2>1 DEF IInv, TypeOK, StoreAnswersForItsFile, DestOk, InPipeline, streamVars, File
  <2>3. ASSUME NEW u \in Uploads PROVE StreamOk(u)' /\ PlaceOk(u)'
    BY <2>1 DEF IInv, StreamOk, PlaceOk, InPipeline, streamVars, File, tempFile
  <2> QED BY <2>2, <2>3 DEF IInv
<1> QED
  BY <1>1, <1>2, <1>3, <1>4 DEF Next

\* Whatever order the events of the streams come in, and whatever fails, a stored
\* file is the whole upload, and each upload has what its place in the pipeline says.
THEOREM UploadIInv == Spec => []IInv
  BY InitUpload, NextUpload, PTL DEF Spec

\* Only Rename puts a file in its place, and what it moves is what was answered.
LEMMA ServedStep ==
  ASSUME IInv, ServedIsVetted, [Next]_vars
  PROVE  ServedIsVetted'
<1>1. ASSUME NEW u \in Uploads, Rename(u), NEW n \in Names, dest'[n] # NoFile
      PROVE  LET v == dest'[n].of
                 k == KindOf[v] IN
             /\ n \notin Traversing
             /\ dest'[n].chunks = content[v].chunks /\ content[v].chunks <= maxFileSize
             /\ content[v].ext \in AllowedExtensions(k) /\ content[v].type \in AllowedTypes(k)
             /\ k = "image" => dest'[n].encoded
             /\ scan[v] \in {"clean", "failed"}
  <2>0. TypeOK /\ StreamOk(u) /\ PlaceOk(u)
    BY DEF IInv
  <2>1. CASE n = target[u]
    <3>1. dest'[n] = tempFile(u) /\ tempFile(u) # NoFile /\ pc[u] = "rename" /\ target[u] \in Names \ Traversing
      BY <1>1, <2>0, <2>1 DEF Rename, PlaceOk, TypeOK
    <3>2. /\ tempFile(u) = File(u, content[u].chunks, KindOf[u] = "image")
          /\ scan[u] \in {"clean", "failed"}
          /\ content[u].ext \in AllowedExtensions(KindOf[u]) /\ content[u].type \in AllowedTypes(KindOf[u])
      BY <2>0, <3>1 DEF PlaceOk, InPipeline
    <3>3. content[u].chunks <= maxFileSize
      BY <2>0, <3>1 DEF StreamOk, InPipeline
    <3>4. /\ dest'[n].of = u /\ dest'[n].chunks = content[u].chunks
          /\ dest'[n].encoded = (KindOf[u] = "image")
      BY <2>1, <3>1, <3>2 DEF File
    <3> QED BY <2>1, <3>1, <3>2, <3>3, <3>4
  <2>2. CASE n # target[u]
    <3>1. dest'[n] = dest[n]
      BY <1>1, <2>0, <2>2 DEF Rename, TypeOK
    <3> QED BY <1>1, <3>1 DEF ServedIsVetted
  <2> QED BY <2>1, <2>2
<1>2. ASSUME NEW u \in Uploads, Rename(u) PROVE ServedIsVetted'
  <2>1. content' = content /\ scan' = scan
    BY <1>2 DEF Rename
  <2> QED BY <1>1, <1>2, <2>1 DEF ServedIsVetted, AllowedExtensions, AllowedTypes
<1>3. ASSUME UNCHANGED <<content, dest>>, \A v \in Uploads : pc[v] = "moved" => scan'[v] = scan[v]
      PROVE  ServedIsVetted'
  <2>1. ASSUME NEW n \in Names, dest[n] # NoFile PROVE scan'[dest[n].of] = scan[dest[n].of]
    BY <1>3, <2>1 DEF IInv, DestOk, TypeOK, Files
  <2> QED BY <1>3, <2>1 DEF ServedIsVetted, AllowedExtensions, AllowedTypes
<1>4. ASSUME NEW u \in Uploads, Streaming(u) \/ WriteFails(u) \/ Vetting(u) \/ CallMove(u) \/ CheckDest(u)
      PROVE  ServedIsVetted'
  <2>1. UNCHANGED <<content, dest>>
    BY <1>4 DEF Streaming, Vetting, Data, Opened, SourceEnds, SourceFails, WriteFails, Close, Settle,
       ValidateExtension, ValidateMimeType, ScanVirus, ReEncode, UnlinkOriginal, CallMove, CheckDest,
       Storing, Pipeline
  <2>2. CASE ScanVirus(u)
    <3>1. pc[u] = "scan" /\ \A v \in Uploads \ {u} : scan'[v] = scan[v]
      BY <2>2 DEF ScanVirus, IInv, TypeOK
    <3> QED BY <1>3, <2>1, <3>1
  <2>3. CASE ~ScanVirus(u)
    <3>1. UNCHANGED scan
      BY <1>4, <2>3 DEF Streaming, Vetting, Data, Opened, SourceEnds, SourceFails, WriteFails, Close, Settle,
         ValidateExtension, ValidateMimeType, ReEncode, UnlinkOriginal, CallMove, CheckDest, Storing, Pipeline
    <3> QED BY <1>3, <2>1, <3>1
  <2> QED BY <2>2, <2>3
<1>5. CASE InitClamScan \/ UNCHANGED vars
  <2>1. UNCHANGED <<content, dest, scan>>
    BY <1>5 DEF InitClamScan, vars
  <2> QED BY <1>3, <2>1
<1> QED
  BY <1>2, <1>4, <1>5 DEF Next, Moving

\* Nothing is served that has not been vetted: whole, within the limit, of an allowed
\* extension and type, re-encoded when it is an image, and never called infected.
THEOREM UploadServedIsVetted == Spec => []ServedIsVetted
<1>1. Init => ServedIsVetted
  BY DEF Init, ServedIsVetted
<1>2. IInv /\ ServedIsVetted /\ [Next]_vars => ServedIsVetted'
  BY ServedStep
<1> QED
  BY <1>1, <1>2, UploadIInv, PTL DEF Spec

----------------------------------------------------------------------------
(* Guarded writes                                                          *)

\* What an error of a code has to have counted.
Due(code) ==
  IF code = "CONSTRAINT_UNMAPPED" THEN {"db_constraint_unmapped_total"}
  ELSE IF code \in Internals THEN {"db_error_internal_total"}
  ELSE IF code \in TxReasons THEN txFailure(code).counts
  ELSE {}

\* What may be answered c without having answered what is not so.
TrueFor(c, code) ==
  /\ code = "NOT_FOUND" => hid[c] \/ "NOT_FOUND" \in Mapped
  /\ code = "STALE_VERSION" =>
       (saw[c] /\ row.version > expected[c]) \/ "STALE_VERSION" \in Mapped
  /\ code = "VERSION_UNCHANGED" => strict[c] /\ hid[c] /\ saw[c]

\* mapViolation: a row of the table, or one of three internal errors.
LEMMA ViolationIsDue ==
  ASSUME NEW name
  PROVE  LET m == mapViolation(name)
         IN /\ m.code \in (Internals \ {"VERSION_UNCHANGED"}) \cup Mapped
            /\ m.counts = Due(m.code)
<1>1. CASE name \notin DOMAIN table
  BY <1>1 DEF mapViolation, Unmapped, Internals, Due
<1>2. CASE name \in DOMAIN table /\ table[name].code = "INTERNAL"
  BY <1>2 DEF mapViolation, Internal, Internals, Due
<1>3. CASE name \in DOMAIN table /\ table[name].code # "INTERNAL"
  <2>1. table[name].code \in Mapped
    BY <1>3 DEF Mapped
  <2>2. table[name].code \notin Internals
    BY <2>1, TableAssumption
  <2>3. "CONSTRAINT_UNMAPPED" \in Internals
    BY DEF Internals
  <2>4. Due(table[name].code) = {}
    BY <2>1, <2>2, <2>3, TableAssumption DEF Due
  <2>5. CASE table[name].supplied \subseteq Details
    <3>1. mapViolation(name) = [code |-> table[name].code, counts |-> {}]
      BY <1>3, <2>5 DEF mapViolation, Made
    <3> QED
      BY <2>1, <2>4, <3>1
  <2>6. CASE ~(table[name].supplied \subseteq Details)
    BY <1>3, <2>6 DEF mapViolation, Internal, Internals, Due
  <2> QED
    BY <2>5, <2>6
<1> QED
  BY <1>1, <1>2, <1>3

\* Every failure of a statement or of COMMIT becomes one error, counted as is due.
LEMMA FailureIsDue ==
  ASSUME NEW e \in Failures
  PROVE  LET m == mapDbError(e)
         IN /\ m.code \in (Internals \ {"VERSION_UNCHANGED"}) \cup Mapped
            /\ m.counts = Due(m.code)
<1>1. CASE e \in [kind : {"violation"}, constraint : Constraints \cup {NoName}]
  <2>1. e.kind = "violation"
    BY <1>1
  <2>2. mapDbError(e) = mapViolation(e.constraint)
    BY <2>1 DEF mapDbError
  <2> QED
    BY <2>2, ViolationIsDue
<1>2. CASE e \in [kind : {"sqlstate", "DbConnectError", "DbTxError", "DbParseError", "unexpected"}]
  <2>1. e.kind \in {"sqlstate", "DbConnectError", "DbTxError", "DbParseError", "unexpected"}
    BY <1>2
  <2> QED
    BY <2>1 DEF mapDbError, Internal, Internals, Due
<1> QED
  BY <1>1, <1>2 DEF Failures

\* What guardVersion answers comes back from mapDbError as it is, counted before,
\* and is true.
LEMMA GuardAnswerIsDue ==
  ASSUME GuardIInv, NEW c \in Calls, stage[c] = "guard", NEW shape \in Shapes
  PROVE  LET g == GuardAnswer(shape, c)
         IN /\ mapDbError([kind |-> "family", code |-> g.code]) = Made(g.code)
            /\ g.code \in Internals \cup Codes
            /\ g.counts = Due(g.code)
            /\ TrueFor(c, g.code)
<1> DEFINE g == GuardAnswer(shape, c)
<1>1. mapDbError([kind |-> "family", code |-> g.code]) = Made(g.code)
  BY DEF mapDbError
<1>2. GuardOk(c) /\ expected[c] \in 1..row.version /\ row.version \in Nat
  BY GuardedAssumption DEF GuardIInv, LogOk, GuardTypeOK
<1>3. CASE shape # "asked"
  BY <1>1, <1>3 DEF GuardAnswer, Internal, Internals, Due, Shapes, TrueFor
<1>4. CASE shape = "asked" /\ ~Sees(c)
  <2>1. g = Made("NOT_FOUND")
    BY <1>4 DEF GuardAnswer
  <2> QED
    BY <1>1, <1>2, <1>4, <2>1 DEF Made, Internals, TxReasons, Codes, Due, TrueFor, GuardOk
<1>5. CASE shape = "asked" /\ Sees(c) /\ row.version = expected[c]
  <2>1. g = Internal("VERSION_UNCHANGED")
    BY <1>5 DEF GuardAnswer
  <2>2. strict[c] /\ hid[c] /\ saw[c]
    BY <1>2, <1>5 DEF GuardOk, Sees
  <2> QED
    BY <1>1, <2>1, <2>2 DEF Internal, Internals, Due, TrueFor
<1>6. CASE shape = "asked" /\ Sees(c) /\ row.version # expected[c]
  <2>1. g = Made("STALE_VERSION")
    BY <1>6 DEF GuardAnswer
  <2>2. saw[c] /\ row.version > expected[c]
    BY <1>2, <1>6 DEF GuardOk
  <2> QED
    BY <1>1, <2>1, <2>2 DEF Made, Internals, TxReasons, Codes, Due, TrueFor
<1> QED
  BY <1>3, <1>4, <1>5, <1>6

\* One answer more, of a call that had none.
LEMMA OneMore ==
  ASSUME NEW S, NEW c \in Calls, NEW code,
         answer \in [Calls -> {"none", "ok"} \cup Internals \cup TxReasons \cup Codes],
         answer[c] \notin S, answer' = [answer EXCEPT ![c] = code]
  PROVE  /\ Answering(S) \in Nat
         /\ Answering(S)' = Answering(S) + (IF code \in S THEN 1 ELSE 0)
<1> DEFINE T == {d \in Calls : answer[d] \in S}
           U == {d \in Calls : answer'[d] \in S}
<1>1. IsFiniteSet(T)
  BY FS_Subset, GuardedAssumption
<1>2. c \notin T /\ Cardinality(T) \in Nat
  BY <1>1, FS_CardinalityType
<1>3. U = IF code \in S THEN T \cup {c} ELSE T
  OBVIOUS
<1>4. Answering(S) = Cardinality(T) /\ Answering(S)' = Cardinality(U)
  BY DEF Answering
<1> HIDE DEF T, U
<1>5. Cardinality(T \cup {c}) = Cardinality(T) + 1
  BY <1>1, <1>2, FS_AddElement
<1> QED
  BY <1>2, <1>3, <1>4, <1>5

\* What an error does: one answer, counted as is due.
Thrown(c, code) ==
  /\ answer' = [answer EXCEPT ![c] = code]
  /\ counted' = [n \in Counters |-> counted[n] + (IF n \in Due(code) THEN 1 ELSE 0)]
  /\ stage' = [stage EXCEPT ![c] = "done"]

LEMMA ThrowIsDue ==
  ASSUME GuardTypeOK, NEW c \in Calls, NEW e, NEW first \in SUBSET Counters,
         Throw(c, e, first),
         first \cup mapDbError(e).counts = Due(mapDbError(e).code),
         first = {} \/ mapDbError(e).counts = {}
  PROVE  Thrown(c, mapDbError(e).code)
<1> DEFINE m == mapDbError(e)
<1>1. counted \in [Counters -> Nat]
  BY DEF GuardTypeOK
<1>2. counted' = [n \in Counters |->
        counted[n] + (IF n \in first THEN 1 ELSE 0) + (IF n \in m.counts THEN 1 ELSE 0)]
  BY DEF Throw
<1>3. ASSUME NEW n \in Counters
      PROVE  counted[n] + (IF n \in first THEN 1 ELSE 0) + (IF n \in m.counts THEN 1 ELSE 0)
               = counted[n] + (IF n \in Due(m.code) THEN 1 ELSE 0)
  <2> HIDE DEF m
  <2>1. n \in Due(m.code) <=> n \in first \/ n \in m.counts
    BY DEF m
  <2>2. ~(n \in first /\ n \in m.counts)
    BY DEF m
  <2>3. counted[n] \in Nat
    BY <1>1
  <2> QED
    BY <2>1, <2>2, <2>3
<1>4. counted' = [n \in Counters |-> counted[n] + (IF n \in Due(m.code) THEN 1 ELSE 0)]
  BY <1>2, <1>3
<1> QED
  BY <1>4 DEF Throw, Thrown, Goto

\* The counters follow the answers.
LEMMA ThrownCounts ==
  ASSUME GuardIInv, NEW c \in Calls, NEW code, Thrown(c, code), answer[c] = "none"
  PROVE  CountedOnce' /\ counted' \in [Counters -> Nat]
<1> DEFINE I == Internals \ {"CONSTRAINT_UNMAPPED"}
           U == {"CONSTRAINT_UNMAPPED"}
           L == {"LOCK_TIMEOUT"}
           X == {"TX_RETRY_EXHAUSTED"}
           More(S) == IF code \in S THEN 1 ELSE 0
<1>1. /\ answer \in [Calls -> {"none", "ok"} \cup Internals \cup TxReasons \cup Codes]
      /\ counted \in [Counters -> Nat] /\ CountedOnce
  BY DEF GuardIInv, GuardTypeOK
<1>2. answer' = [answer EXCEPT ![c] = code]
  BY DEF Thrown
<1>3. \A S \in {I, U, L, X} : "none" \notin S
  BY DEF Internals
<1>4. ASSUME NEW S \in {I, U, L, X}
      PROVE  Answering(S) \in Nat /\ Answering(S)' = Answering(S) + More(S)
  BY <1>1, <1>2, <1>3, OneMore
<1>5. /\ "db_error_internal_total" \in Due(code) <=> code \in I
      /\ "db_constraint_unmapped_total" \in Due(code) <=> code \in U
      /\ "db_tx_lock_timeouts_total" \in Due(code) <=> code \in L
      /\ "db_tx_retry_exhausted_total" \in Due(code) <=> code \in X
  BY DEF Due, txFailure, TxReasons, Internals
<1>6. /\ counted'["db_error_internal_total"] = counted["db_error_internal_total"] + More(I)
      /\ counted'["db_constraint_unmapped_total"] = counted["db_constraint_unmapped_total"] + More(U)
      /\ counted'["db_tx_lock_timeouts_total"] = counted["db_tx_lock_timeouts_total"] + More(L)
      /\ counted'["db_tx_retry_exhausted_total"] = counted["db_tx_retry_exhausted_total"] + More(X)
  BY <1>5 DEF Thrown, Counters
<1>7. CountedOnce'
  <2> HIDE DEF More
  <2>1. /\ counted["db_error_internal_total"] = Answering(I)
        /\ counted["db_constraint_unmapped_total"] = Answering(U)
        /\ counted["db_tx_lock_timeouts_total"] = Answering(L)
        /\ counted["db_tx_retry_exhausted_total"] = Answering(X)
    BY <1>1 DEF CountedOnce
  <2>2. /\ Answering(I)' = Answering(I) + More(I) /\ Answering(U)' = Answering(U) + More(U)
        /\ Answering(L)' = Answering(L) + More(L) /\ Answering(X)' = Answering(X) + More(X)
    BY <1>4
  <2>3. /\ counted'["db_error_internal_total"] = Answering(I)'
        /\ counted'["db_constraint_unmapped_total"] = Answering(U)'
        /\ counted'["db_tx_lock_timeouts_total"] = Answering(L)'
        /\ counted'["db_tx_retry_exhausted_total"] = Answering(X)'
    BY <1>6, <2>1, <2>2
  <2> QED
    BY <2>3 DEF CountedOnce
<1>8. counted' \in [Counters -> Nat]
  BY <1>1 DEF Thrown
<1> QED
  BY <1>7, <1>8

\* What a failed database is called: all that a client is told whose COMMIT lost
\* its answer.
Failing == {"DB_ERROR", "UNEXPECTED_ERROR"}

\* An error that says what is so keeps the invariant, whether the lock is let go
\* or stays with a COMMIT that the server decides.
LEMMA ThrownIInv ==
  ASSUME GuardIInv, NEW c \in Calls, NEW code \in Internals \cup TxReasons \cup Codes,
         Thrown(c, code), TrueFor(c, code),
         stage[c] \in {"update", "guard", "commit"},
         \/ LetGo(c) /\ lost' = lost
         \/ stage[c] = "commit" /\ code \in Failing /\ holder' = holder /\ lost' = lost \cup {c},
         UNCHANGED <<row, expected, strict, log, saw, hid>>
  PROVE  GuardIInv'
<1> USE GuardedAssumption
<1>1. /\ GuardTypeOK /\ CountedOnce /\ LockOk /\ LogOk /\ RefusalIsTrue
      /\ \A d \in Calls : GuardOk(d)
  BY DEF GuardIInv
<1>2. /\ answer' = [answer EXCEPT ![c] = code]
      /\ stage' = [stage EXCEPT ![c] = "done"]
  BY DEF Thrown
<1>3. answer[c] = "none" /\ code # "ok" /\ c \notin lost
  <2>1. code \notin {"none", "ok"}
    BY TableAssumption DEF Internals, TxReasons, Codes
  <2> QED
    BY <1>1, <2>1 DEF LockOk
<1>4. CountedOnce' /\ counted' \in [Counters -> Nat]
  BY <1>3, ThrownCounts
<1>5. GuardTypeOK'
  BY <1>1, <1>2, <1>4 DEF GuardTypeOK, LetGo
<1>6. LockOk'
  <2>1. CASE LetGo(c) /\ lost' = lost
    BY <1>1, <1>2, <1>3, <2>1 DEF LockOk, GuardTypeOK, LetGo
  <2>2. CASE /\ stage[c] = "commit" /\ code \in Failing
             /\ holder' = holder /\ lost' = lost \cup {c}
    BY <1>1, <1>2, <1>3, <2>2 DEF LockOk, GuardTypeOK, Failing
  <2> QED
    BY <2>1, <2>2
<1>7. \A e \in log : e[2] \in Calls \ {c}
  BY <1>1 DEF LogOk, GuardTypeOK
<1>8. NoLostUpdate'
  BY <1>1, <1>2, <1>3, <1>7 DEF LogOk, NoLostUpdate, GuardTypeOK
<1>9. LogOk'
  BY <1>1, <1>2, <1>3, <1>7, <1>8 DEF LogOk, GuardTypeOK
<1>10. \A d \in Calls : GuardOk(d)'
  BY <1>1, <1>2 DEF GuardOk, GuardTypeOK, Sees
<1>11. RefusalIsTrue'
  BY <1>1, <1>2 DEF RefusalIsTrue, TrueFor, GuardTypeOK
<1> QED
  BY <1>4, <1>5, <1>6, <1>9, <1>10, <1>11 DEF GuardIInv

\* A failure never says what only guardVersion may say, but by the table.
LEMMA FailureIsTrue ==
  ASSUME NEW c \in Calls, NEW e \in Failures
  PROVE  TrueFor(c, mapDbError(e).code) /\ mapDbError(e).code \in Internals \cup Codes
<1>1. mapDbError(e).code \in (Internals \ {"VERSION_UNCHANGED"}) \cup Mapped
  BY FailureIsDue
<1>2. "NOT_FOUND" \notin Internals /\ "STALE_VERSION" \notin Internals
      /\ "VERSION_UNCHANGED" \in Internals
  BY DEF Internals
<1>3. "VERSION_UNCHANGED" \notin Mapped
  BY <1>2, TableAssumption
<1> QED
  BY <1>1, <1>2, <1>3 DEF TrueFor, Codes

LEMMA FailedIInv ==
  ASSUME GuardIInv, NEW c \in Calls, NEW e \in Failures, Refuse(c, e, {}),
         stage[c] \in {"update", "guard", "commit"},
         UNCHANGED <<row, expected, strict, log, lost, saw, hid>>
  PROVE  GuardIInv'
<1>1. Throw(c, e, {}) /\ LetGo(c)
  BY DEF Refuse
<1>2. Thrown(c, mapDbError(e).code)
  BY <1>1, FailureIsDue, ThrowIsDue DEF GuardIInv
<1> QED
  BY <1>1, <1>2, FailureIsTrue, ThrownIInv

\* COMMIT loses its answer: the client hears of a failed database, the lock stays.
LEMMA CommitLostIInv ==
  ASSUME GuardIInv, NEW c \in Calls, CommitLost(c)
  PROVE  GuardIInv'
<1>1. PICK e \in [kind : {"unexpected", "sqlstate"}] : Throw(c, e, {})
  BY DEF CommitLost
<1>2. e \in Failures /\ mapDbError(e).code \in Failing
  BY <1>1 DEF Failures, mapDbError, Internal, Failing
<1>3. Thrown(c, mapDbError(e).code)
  BY <1>1, <1>2, FailureIsDue, ThrowIsDue DEF GuardIInv
<1>4. TrueFor(c, mapDbError(e).code) /\ mapDbError(e).code \in Internals \cup Codes
  BY <1>2, FailureIsTrue
<1>5. /\ stage[c] = "commit" /\ holder' = holder /\ lost' = lost \cup {c}
      /\ UNCHANGED <<row, expected, strict, log, saw, hid>>
  BY DEF CommitLost
<1> QED
  BY <1>2, <1>3, <1>4, <1>5, ThrownIInv

\* withTx gives up: its error comes back as it is, counted where it was built.
LEMMA TxFailsIInv ==
  ASSUME GuardIInv, NEW c \in Calls, TxFails(c)
  PROVE  GuardIInv'
<1>1. PICK reason \in TxReasons :
        Refuse(c, [kind |-> "family", code |-> txFailure(reason).code], txFailure(reason).counts)
  BY DEF TxFails
<1> DEFINE e == [kind |-> "family", code |-> reason]
<1>2. mapDbError(e).code = reason /\ mapDbError(e).counts = {}
  BY DEF mapDbError, Made
<1>3. reason \notin Internals \cup Codes \cup {"CONSTRAINT_UNMAPPED"}
  BY TableAssumption DEF TxReasons, Internals, Codes
<1>4. txFailure(reason).code = reason /\ txFailure(reason).counts = Due(reason)
  BY <1>3 DEF txFailure, Due
<1>5. Due(reason) \in SUBSET Counters
  BY <1>4 DEF txFailure, Counters
<1>6. Throw(c, e, Due(reason)) /\ LetGo(c)
  BY <1>1, <1>4 DEF Refuse
<1>7. Thrown(c, reason)
  <2> HIDE DEF e
  <2> QED
    BY <1>2, <1>5, <1>6, ThrowIsDue DEF GuardIInv
<1>8. TrueFor(c, reason)
  BY <1>1 DEF TrueFor, TxReasons
<1>9. /\ stage[c] \in {"update", "guard", "commit"}
      /\ UNCHANGED <<row, expected, strict, log, lost, saw, hid>>
  BY DEF TxFails
<1> QED
  BY <1>6, <1>7, <1>8, <1>9, ThrownIInv

LEMMA GuardVersionIInv ==
  ASSUME GuardIInv, NEW c \in Calls, guardVersion(c)
  PROVE  GuardIInv'
<1>1. stage[c] = "guard" /\ UNCHANGED <<row, expected, strict, log, lost, saw, hid>>
  BY DEF guardVersion
<1>2. PICK shape \in Shapes :
        Refuse(c, [kind |-> "family", code |-> GuardAnswer(shape, c).code],
               GuardAnswer(shape, c).counts)
  BY DEF guardVersion
<1> DEFINE g == GuardAnswer(shape, c)
           e == [kind |-> "family", code |-> g.code]
<1>3. /\ mapDbError(e) = Made(g.code)
      /\ g.code \in Internals \cup Codes
      /\ g.counts = Due(g.code)
      /\ TrueFor(c, g.code)
  BY <1>1, GuardAnswerIsDue
<1>4. mapDbError(e).code = g.code /\ mapDbError(e).counts = {}
  BY <1>3 DEF Made
<1>5. Due(g.code) \subseteq Counters
  BY DEF Due, txFailure, Counters
<1> HIDE DEF g
<1>6. Throw(c, e, g.counts) /\ LetGo(c)
  BY <1>2 DEF g, Refuse
<1>7. Thrown(c, g.code)
  <2> HIDE DEF e
  <2>1. g.counts \in SUBSET Counters
    BY <1>3, <1>5
  <2>2. g.counts \cup mapDbError(e).counts = Due(mapDbError(e).code)
    BY <1>3, <1>4
  <2> QED
    BY <1>4, <1>6, <2>1, <2>2, ThrowIsDue DEF GuardIInv
<1> QED
  BY <1>1, <1>3, <1>6, <1>7, ThrownIInv

----------------------------------------------------------------------------
(* Its actions                                                             *)

LEMMA GuardInitIInv == GuardInit => GuardIInv
<1> SUFFICES ASSUME GuardInit PROVE GuardIInv
  OBVIOUS
<1> USE GuardedAssumption DEF GuardInit
<1>1. row.alive = TRUE /\ row.version = 1
  OBVIOUS
<1>2. GuardTypeOK
  <2>1. row \in [alive : BOOLEAN, version : 1..MaxVersion, sees : SUBSET Calls]
    BY 1 \in 1..MaxVersion
  <2> QED
    BY <2>1 DEF GuardTypeOK
<1>3. CountedOnce
  <2>1. \A c \in Calls : answer[c] \notin Internals \cup TxReasons
    BY DEF Internals, TxReasons
  <2>2. \A S \in SUBSET (Internals \cup TxReasons) : {c \in Calls : answer[c] \in S} = {}
    BY <2>1
  <2>3. \A S \in SUBSET (Internals \cup TxReasons) : Answering(S) = 0
    BY <2>2, FS_EmptySet DEF Answering
  <2>4. /\ {"CONSTRAINT_UNMAPPED"} \subseteq Internals
        /\ {"LOCK_TIMEOUT"} \subseteq TxReasons /\ {"TX_RETRY_EXHAUSTED"} \subseteq TxReasons
    BY DEF Internals, TxReasons
  <2> QED
    BY <2>3, <2>4 DEF CountedOnce, Counters
<1>4. LockOk
  BY DEF LockOk
<1>5. LogOk
  BY DEF LogOk, NoLostUpdate
<1>6. (\A c \in Calls : GuardOk(c)) /\ RefusalIsTrue
  BY DEF GuardOk, RefusalIsTrue
<1> QED
  BY <1>2, <1>3, <1>4, <1>5, <1>6 DEF GuardIInv

\* The counters hold as long as nobody is answered an error of the kit.
LEMMA CountsKept ==
  ASSUME CountedOnce, UNCHANGED counted,
         \A c \in Calls : \A i \in Internals \cup TxReasons : answer'[c] = i <=> answer[c] = i
  PROVE  CountedOnce'
<1>1. \A S \in SUBSET (Internals \cup TxReasons) :
        {c \in Calls : answer'[c] \in S} = {c \in Calls : answer[c] \in S}
  OBVIOUS
<1>2. \A S \in SUBSET (Internals \cup TxReasons) : Answering(S)' = Answering(S)
  BY <1>1 DEF Answering
<1>3. /\ {"CONSTRAINT_UNMAPPED"} \subseteq Internals
      /\ {"LOCK_TIMEOUT"} \subseteq TxReasons /\ {"TX_RETRY_EXHAUSTED"} \subseteq TxReasons
  BY DEF Internals, TxReasons
<1> QED
  BY <1>2, <1>3 DEF CountedOnce

LEMMA LoadIInv ==
  ASSUME GuardIInv, NEW c \in Calls, Load(c)
  PROVE  GuardIInv'
<1> USE GuardedAssumption
<1>1. /\ GuardTypeOK /\ CountedOnce /\ LockOk /\ LogOk /\ RefusalIsTrue
      /\ \A d \in Calls : GuardOk(d)
  BY DEF GuardIInv
<1>2. PICK v \in 1..row.version : expected' = [expected EXCEPT ![c] = v]
  BY DEF Load
<1>3. /\ stage[c] = "load" /\ stage' = [stage EXCEPT ![c] = "update"]
      /\ strict' \in {strict, [strict EXCEPT ![c] = TRUE]}
      /\ UNCHANGED <<row, holder, answer, counted, log, lost, saw, hid>>
  BY DEF Load, Goto
<1>4. row.version \in 1..MaxVersion /\ v \in 1..MaxVersion
  BY <1>1 DEF GuardTypeOK
<1>5. GuardTypeOK'
  <2>1. expected' \in [Calls -> 0..MaxVersion]
    BY <1>1, <1>2, <1>4 DEF GuardTypeOK
  <2>2. strict' \in [Calls -> BOOLEAN] /\ stage' \in [Calls -> {"load", "update", "commit", "guard", "done"}]
    BY <1>1, <1>3 DEF GuardTypeOK
  <2> QED
    BY <1>1, <1>3, <2>1, <2>2 DEF GuardTypeOK
<1>6. CountedOnce'
  BY <1>1, <1>3, CountsKept
<1>7. answer[c] = "none" /\ holder # c
  BY <1>1, <1>3 DEF LockOk
<1>8. LockOk'
  BY <1>1, <1>2, <1>3, <1>7 DEF LockOk, GuardTypeOK
<1>9. \A e \in log : e[2] \in Calls /\ e[2] # c
  BY <1>1, <1>3 DEF LogOk, GuardTypeOK
<1>10. NoLostUpdate'
  BY <1>1, <1>2, <1>3, <1>7, <1>9 DEF LogOk, NoLostUpdate, GuardTypeOK
<1>11. LogOk'
  BY <1>1, <1>2, <1>3, <1>4, <1>9, <1>10 DEF LogOk, GuardTypeOK
<1>12. \A d \in Calls : GuardOk(d)'
  BY <1>1, <1>2, <1>3 DEF GuardOk, GuardTypeOK, Sees
<1>13. RefusalIsTrue'
  BY <1>1, <1>2, <1>3, <1>7 DEF RefusalIsTrue, GuardTypeOK
<1> QED
  BY <1>5, <1>6, <1>8, <1>11, <1>12, <1>13 DEF GuardIInv

LEMMA UpdateRowIInv ==
  ASSUME GuardIInv, NEW c \in Calls, UpdateRow(c)
  PROVE  GuardIInv'
<1> USE GuardedAssumption
<1>1. /\ GuardTypeOK /\ CountedOnce /\ LockOk /\ LogOk /\ RefusalIsTrue
      /\ \A d \in Calls : GuardOk(d)
  BY DEF GuardIInv
<1>2. /\ stage[c] = "update" /\ holder = NoCall /\ Matches(c)
      /\ UNCHANGED <<row, expected, strict, log, lost, saw, hid>>
  BY DEF UpdateRow
<1>3. \/ Refuse(c, [kind |-> "DbParseError"], {})
      \/ holder' = c /\ Goto(c, "commit") /\ UNCHANGED <<answer, counted>>
  BY DEF UpdateRow
<1>4. CASE Refuse(c, [kind |-> "DbParseError"], {})
  <2>1. [kind |-> "DbParseError"] \in Failures
    BY DEF Failures
  <2> QED
    BY <1>2, <1>4, <2>1, FailedIInv
<1>5. CASE holder' = c /\ Goto(c, "commit") /\ UNCHANGED <<answer, counted>>
  <2>1. stage' = [stage EXCEPT ![c] = "commit"]
    BY <1>5 DEF Goto
  <2>2. GuardTypeOK'
    BY <1>1, <1>2, <1>5, <2>1 DEF GuardTypeOK
  <2>3. CountedOnce'
    BY <1>1, <1>5, CountsKept
  <2>4. LockOk'
    BY <1>1, <1>2, <1>5, <2>1 DEF LockOk, GuardTypeOK, Matches
  <2>5. LogOk'
    BY <1>1, <1>2, <1>5, <2>1 DEF LogOk, NoLostUpdate, GuardTypeOK
  <2>6. (\A d \in Calls : GuardOk(d)') /\ RefusalIsTrue'
    BY <1>1, <1>2, <1>5, <2>1 DEF GuardOk, RefusalIsTrue, GuardTypeOK, Sees
  <2> QED
    BY <2>2, <2>3, <2>4, <2>5, <2>6 DEF GuardIInv
<1> QED
  BY <1>3, <1>4, <1>5

LEMMA MissIInv ==
  ASSUME GuardIInv, NEW c \in Calls, Miss(c)
  PROVE  GuardIInv'
<1> USE GuardedAssumption
<1>1. /\ GuardTypeOK /\ CountedOnce /\ LockOk /\ LogOk /\ RefusalIsTrue
      /\ \A d \in Calls : GuardOk(d)
  BY DEF GuardIInv
<1>2. /\ stage[c] = "update" /\ ~Matches(c)
      /\ stage' = [stage EXCEPT ![c] = "guard"]
      /\ saw' = [saw EXCEPT ![c] = Sees(c)] /\ hid' = [hid EXCEPT ![c] = ~Sees(c)]
      /\ UNCHANGED <<row, holder, expected, strict, answer, counted, log, lost>>
  BY DEF Miss, Goto
<1>3. Sees(c) \in BOOLEAN
  BY DEF Sees
<1>4. GuardTypeOK'
  BY <1>1, <1>2, <1>3 DEF GuardTypeOK
<1>5. CountedOnce'
  BY <1>1, <1>2, CountsKept
<1>6. answer[c] = "none"
  BY <1>1, <1>2 DEF LockOk
<1>7. LockOk'
  BY <1>1, <1>2 DEF LockOk, GuardTypeOK
<1>8. LogOk'
  BY <1>1, <1>2 DEF LogOk, NoLostUpdate, GuardTypeOK
<1>9. GuardOk(c)'
  <2>1. expected[c] \in 1..row.version /\ row.version \in Nat
    BY <1>1, <1>2 DEF LogOk, GuardTypeOK
  <2>2. saw'[c] = Sees(c) /\ hid'[c] = ~Sees(c)
    BY <1>1, <1>2 DEF GuardTypeOK
  <2>3. ASSUME row.alive, ~(row.version > expected[c])
        PROVE  strict[c] /\ ~Sees(c)
    BY <1>2, <2>1, <2>3 DEF Matches, Sees
  <2> QED
    BY <1>2, <2>2, <2>3 DEF GuardOk, Sees
<1>10. \A d \in Calls \ {c} : GuardOk(d)'
  BY <1>1, <1>2 DEF GuardOk, GuardTypeOK, Sees
<1>11. RefusalIsTrue'
  BY <1>1, <1>2, <1>6 DEF RefusalIsTrue, GuardTypeOK
<1> QED
  BY <1>4, <1>5, <1>7, <1>8, <1>9, <1>10, <1>11 DEF GuardIInv

\* The update of the holder becomes durable: with the answer, or after it was lost.
LEMMA DurableIInv ==
  ASSUME GuardIInv, NEW c \in Calls, holder = c, Durable(c), holder' = NoCall,
         \/ /\ stage[c] = "commit" /\ answer' = [answer EXCEPT ![c] = "ok"]
            /\ stage' = [stage EXCEPT ![c] = "done"]
         \/ stage[c] = "done" /\ UNCHANGED <<answer, stage>>,
         UNCHANGED <<expected, strict, counted, lost, saw, hid>>
  PROVE  GuardIInv'
<1> USE GuardedAssumption
<1>1. /\ GuardTypeOK /\ CountedOnce /\ LockOk /\ LogOk /\ RefusalIsTrue
      /\ \A d \in Calls : GuardOk(d)
  BY DEF GuardIInv
<1>2. /\ row.version < MaxVersion
      /\ row' = [row EXCEPT !.version = @ + 1]
      /\ log' = log \cup {<<row.version, c>>}
  BY DEF Durable
<1>3. row.alive /\ row.version = expected[c]
  BY <1>1 DEF LockOk
<1>4. /\ row.version \in 1..MaxVersion /\ row'.version = row.version + 1
      /\ row'.alive = row.alive /\ row'.sees = row.sees
  BY <1>1, <1>2 DEF GuardTypeOK
<1>5. /\ stage'[c] = "done"
      /\ answer'[c] = "ok" \/ (c \in lost /\ answer'[c] = answer[c] /\ answer[c] \in Failing)
      /\ \A d \in Calls \ {c} : answer'[d] = answer[d] /\ stage'[d] = stage[d]
      /\ c \in lost => answer'[c] = answer[c]
  BY <1>1 DEF GuardTypeOK, LockOk, Failing
<1>6. GuardTypeOK'
  BY <1>1, <1>2, <1>4 DEF GuardTypeOK
<1>7. CountedOnce'
  <2>1. "ok" \notin Internals \cup TxReasons /\ "none" \notin Internals \cup TxReasons
    BY DEF Internals, TxReasons
  <2>2. stage[c] = "commit" => answer[c] = "none"
    BY <1>1 DEF LockOk
  <2> QED
    BY <1>1, <2>1, <2>2, CountsKept DEF GuardTypeOK
<1>8. LockOk'
  <2>1. \A d \in Calls : stage'[d] # "commit"
    BY <1>1, <1>5 DEF LockOk
  <2>2. \A d \in Calls : stage'[d] # "done" => answer'[d] = "none"
    BY <1>1, <1>5 DEF LockOk
  <2>3. \A d \in lost : stage'[d] = "done" /\ answer'[d] \in Failing
    BY <1>1, <1>5 DEF LockOk, GuardTypeOK, Failing
  <2> QED
    BY <2>1, <2>2, <2>3 DEF LockOk, Failing
<1>9. \A e \in log : e[1] \in Nat /\ e[2] \in Calls /\ e = <<e[1], e[2]>>
  BY <1>1 DEF GuardTypeOK
<1>10. \A e \in log : e[1] = expected[e[2]] /\ e[1] < row.version /\ stage[e[2]] = "done"
  BY <1>1 DEF LogOk
<1>11. \A e \in log' : e[1] = expected'[e[2]] /\ e[1] < row'.version /\ stage'[e[2]] = "done"
  BY <1>2, <1>3, <1>4, <1>5, <1>9, <1>10
<1>12. NoLostUpdate'
  <2>1. \A d \in Calls : answer'[d] = "ok" => <<expected'[d], d>> \in log'
    BY <1>1, <1>2, <1>3, <1>5 DEF LogOk, NoLostUpdate
  <2>2. \A e \in log' : answer'[e[2]] = "ok" \/ (e[2] \in lost' /\ answer'[e[2]] \in Failing)
    BY <1>1, <1>2, <1>5, <1>9 DEF LogOk, NoLostUpdate, Failing
  <2>3. \A a, b \in log' : a[1] = b[1] => a = b
    <3>1. \A a, b \in log : a[1] = b[1] => a = b
      BY <1>1 DEF LogOk, NoLostUpdate
    <3>2. \A e \in log : e[1] # row.version
      BY <1>4, <1>9, <1>10
    <3> QED
      BY <1>2, <3>1, <3>2
  <2> QED
    BY <2>1, <2>2, <2>3 DEF NoLostUpdate, Failing
<1>13. LogOk'
  <2>1. ASSUME NEW d \in Calls, stage'[d] # "load"
        PROVE  expected'[d] \in 1..row'.version
    <3>1. expected[d] \in 1..row.version
      BY <1>1, <1>5, <2>1 DEF LogOk
    <3> QED
      BY <1>4, <3>1
  <2> QED
    BY <1>11, <1>12, <2>1 DEF LogOk
<1>14. \A d \in Calls : GuardOk(d)'
  <2> SUFFICES ASSUME NEW d \in Calls, stage'[d] = "guard" PROVE GuardOk(d)'
    BY DEF GuardOk
  <2>1. stage[d] = "guard" /\ GuardOk(d) /\ expected[d] \in 1..row.version
    BY <1>1, <1>5 DEF LogOk
  <2>2. Sees(d)' <=> Sees(d)
    BY <1>4 DEF Sees
  <2>3. row'.version > expected'[d]
    BY <1>4, <2>1
  <2> QED
    BY <1>4, <2>1, <2>2, <2>3 DEF GuardOk
<1>15. RefusalIsTrue'
  <2> SUFFICES ASSUME NEW d \in Calls
               PROVE  /\ answer'[d] = "NOT_FOUND" => hid'[d] \/ "NOT_FOUND" \in Mapped
                      /\ answer'[d] = "STALE_VERSION" =>
                           (saw'[d] /\ row'.version > expected'[d]) \/ "STALE_VERSION" \in Mapped
                      /\ answer'[d] = "VERSION_UNCHANGED" => strict'[d] /\ hid'[d] /\ saw'[d]
    BY DEF RefusalIsTrue
  <2>1. answer'[d] = "ok" \/ answer'[d] = answer[d]
    BY <1>5
  <2>2. expected[d] \in Int
    BY <1>1 DEF GuardTypeOK
  <2> QED
    BY <1>1, <1>4, <2>1, <2>2 DEF RefusalIsTrue
<1> QED
  BY <1>6, <1>7, <1>8, <1>13, <1>14, <1>15 DEF GuardIInv

LEMMA CommitIInv ==
  ASSUME GuardIInv, NEW c \in Calls, Commit(c)
  PROVE  GuardIInv'
<1>1. holder = c
  BY DEF GuardIInv, LockOk, Commit
<1> QED
  BY <1>1, DurableIInv DEF Commit, Goto

\* The lock is let go, and the call goes on or has ended.
LEMMA LetGoIInv ==
  ASSUME GuardIInv, NEW c \in Calls, LetGo(c),
         \/ stage[c] \in {"update", "guard", "commit"} /\ stage' = [stage EXCEPT ![c] = "update"]
         \/ stage[c] = "done" /\ UNCHANGED stage,
         UNCHANGED <<row, expected, strict, answer, counted, log, lost, saw, hid>>
  PROVE  GuardIInv'
<1> USE GuardedAssumption
<1>1. /\ GuardTypeOK /\ CountedOnce /\ LockOk /\ LogOk /\ RefusalIsTrue
      /\ \A d \in Calls : GuardOk(d)
  BY DEF GuardIInv
<1>2. GuardTypeOK'
  BY <1>1 DEF GuardTypeOK, LetGo
<1>3. CountedOnce'
  BY <1>1, CountsKept
<1>4. LockOk'
  BY <1>1 DEF LockOk, GuardTypeOK, LetGo
<1>5. LogOk'
  BY <1>1 DEF LogOk, NoLostUpdate, GuardTypeOK
<1>6. \A d \in Calls : GuardOk(d)'
  BY <1>1 DEF GuardOk, GuardTypeOK, Sees
<1>7. RefusalIsTrue'
  BY <1>1 DEF RefusalIsTrue
<1> QED
  BY <1>2, <1>3, <1>4, <1>5, <1>6, <1>7 DEF GuardIInv

\* The server decides a COMMIT whose answer was lost.
LEMMA ServerEndsIInv ==
  ASSUME GuardIInv, NEW c \in Calls, ServerEnds(c)
  PROVE  GuardIInv'
<1>1. /\ holder = c /\ stage[c] = "done" /\ holder' = NoCall
      /\ UNCHANGED <<stage, expected, strict, answer, counted, lost, saw, hid>>
  BY DEF ServerEnds
<1>2. CASE Durable(c)
  BY <1>1, <1>2, DurableIInv
<1>3. CASE UNCHANGED <<row, log>>
  BY <1>1, <1>3, LetGoIInv DEF LetGo
<1> QED
  BY <1>2, <1>3 DEF ServerEnds

\* Other writers leave the version, and one that deletes waits for the lock; a row
\* that is gone does not come back, and what they hide or show is noted for who is between the
\* update and the re-read.
LEMMA BecomesIInv ==
  ASSUME GuardIInv, NEW r \in [alive : BOOLEAN, version : {row.version}, sees : SUBSET Calls],
         r.alive => row.alive, holder = NoCall \/ r.alive = row.alive, Becomes(r)
  PROVE  GuardIInv'
<1> USE GuardedAssumption
<1>1. /\ GuardTypeOK /\ CountedOnce /\ LockOk /\ LogOk /\ RefusalIsTrue
      /\ \A d \in Calls : GuardOk(d)
  BY DEF GuardIInv
<1>2. /\ row' = r
      /\ saw' = [c \in Calls |-> saw[c] \/ (stage[c] = "guard" /\ r.alive /\ c \in r.sees)]
      /\ hid' = [c \in Calls |-> hid[c] \/ (stage[c] = "guard" /\ ~(r.alive /\ c \in r.sees))]
      /\ UNCHANGED <<holder, stage, expected, strict, answer, counted, log, lost>>
  BY DEF Becomes
<1>3. /\ row'.version = row.version /\ (row'.alive => row.alive)
      /\ holder = NoCall \/ row'.alive = row.alive
  BY <1>2
<1>4. GuardTypeOK'
  BY <1>1, <1>2 DEF GuardTypeOK
<1>5. CountedOnce'
  BY <1>1, <1>2, CountsKept
<1>6. LockOk'
  BY <1>1, <1>2, <1>3 DEF LockOk
<1>7. LogOk'
  BY <1>1, <1>2, <1>3 DEF LogOk, NoLostUpdate
<1>8. ASSUME NEW d \in Calls PROVE (saw[d] => saw'[d]) /\ (hid[d] => hid'[d])
  BY <1>2
<1>9. \A d \in Calls : GuardOk(d)'
  <2> SUFFICES ASSUME NEW d \in Calls, stage'[d] = "guard" PROVE GuardOk(d)'
    BY DEF GuardOk
  <2>1. Sees(d)' <=> r.alive /\ d \in r.sees
    BY <1>2 DEF Sees
  <2>2. (Sees(d)' => saw'[d]) /\ (~Sees(d)' => hid'[d])
    BY <1>2, <2>1
  <2>3. row'.alive => row'.version > expected'[d] \/ (strict'[d] /\ hid'[d])
    BY <1>1, <1>2, <1>3, <1>8 DEF GuardOk
  <2> QED
    BY <2>2, <2>3 DEF GuardOk
<1>10. RefusalIsTrue'
  BY <1>1, <1>2, <1>3, <1>8 DEF RefusalIsTrue
<1> QED
  BY <1>4, <1>5, <1>6, <1>7, <1>9, <1>10 DEF GuardIInv

LEMMA DeleteIInv ==
  ASSUME GuardIInv, Delete
  PROVE  GuardIInv'
<1>1. [row EXCEPT !.alive = FALSE] \in [alive : BOOLEAN, version : {row.version}, sees : SUBSET Calls]
  BY DEF GuardIInv, GuardTypeOK
<1> QED
  BY <1>1, BecomesIInv DEF Delete

LEMMA ShareIInv ==
  ASSUME GuardIInv, NEW c \in Calls, Share(c) \/ Hide(c)
  PROVE  GuardIInv'
<1>1. PICK r \in {[row EXCEPT !.sees = @ \cup {c}], [row EXCEPT !.sees = @ \ {c}]} :
        Becomes(r)
  BY DEF Share, Hide
<1>2. r \in [alive : BOOLEAN, version : {row.version}, sees : SUBSET Calls] /\ r.alive = row.alive
  BY DEF GuardIInv, GuardTypeOK
<1> QED
  BY <1>1, <1>2, BecomesIInv

LEMMA GuardStepIInv == GuardIInv /\ [GuardNext]_guardVars => GuardIInv'
<1> SUFFICES ASSUME GuardIInv, [GuardNext]_guardVars PROVE GuardIInv'
  OBVIOUS
<1>1. ASSUME NEW c \in Calls, UpdateRow(c) PROVE GuardIInv'
  BY <1>1, UpdateRowIInv
<1>2. ASSUME NEW c \in Calls, Load(c) PROVE GuardIInv'
  BY <1>2, LoadIInv
<1>3. ASSUME NEW c \in Calls, Miss(c) PROVE GuardIInv'
  BY <1>3, MissIInv
<1>4. ASSUME NEW c \in Calls, StatementFails(c) PROVE GuardIInv'
  BY <1>4, FailedIInv DEF StatementFails
<1>5. ASSUME NEW c \in Calls, Commit(c) PROVE GuardIInv'
  BY <1>5, CommitIInv
<1>6. ASSUME NEW c \in Calls, CommitFails(c) PROVE GuardIInv'
  BY <1>6, FailedIInv DEF CommitFails
<1>11. ASSUME NEW c \in Calls, CommitLost(c) PROVE GuardIInv'
  BY <1>11, CommitLostIInv
<1>12. ASSUME NEW c \in Calls, ServerEnds(c) PROVE GuardIInv'
  BY <1>12, ServerEndsIInv
<1>13. ASSUME NEW c \in Calls, TxFails(c) PROVE GuardIInv'
  BY <1>13, TxFailsIInv
<1>14. ASSUME NEW c \in Calls, Again(c) PROVE GuardIInv'
  BY <1>14, LetGoIInv DEF Again, Goto
<1>7. ASSUME NEW c \in Calls, guardVersion(c) PROVE GuardIInv'
  BY <1>7, GuardVersionIInv
<1>8. ASSUME NEW c \in Calls, Share(c) \/ Hide(c) PROVE GuardIInv'
  BY <1>8, ShareIInv
<1>9. CASE Delete
  BY <1>9, DeleteIInv
<1>10. CASE UNCHANGED guardVars
  <2>1. UNCHANGED <<row, holder, stage, expected, strict, answer, counted, log, lost, saw, hid>>
    BY <1>10 DEF guardVars
  <2>2. CountedOnce'
    BY <2>1, CountsKept DEF GuardIInv
  <2> QED
    BY <2>1, <2>2 DEF GuardIInv, GuardTypeOK, LockOk, LogOk, NoLostUpdate, GuardOk, Sees, RefusalIsTrue
<1> QED
  BY <1>1, <1>2, <1>3, <1>4, <1>5, <1>6, <1>7, <1>8, <1>9, <1>10,
     <1>11, <1>12, <1>13, <1>14 DEF GuardNext

\* Handlers, their errors and their counters keep the inductive invariant: the row
\* is locked by the update that matched it, also after its COMMIT lost its answer
\* and until the server has decided, each version was left by one update,
\* every internal error is counted once, and what the guard is about to say is so.
THEOREM GuardedIInv == GuardSpec => []GuardIInv
<1> QED
  BY GuardInitIInv, GuardStepIInv, PTL DEF GuardSpec

\* Of the clients that sent one version of a row at most one has its update
\* committed; ok is answered for no other update, and a client that is answered an
\* error has changed nothing, unless its COMMIT lost its answer, when the error is
\* that of a failed database.
THEOREM GuardedNoLostUpdate == GuardSpec => []NoLostUpdate
<1>1. GuardIInv => NoLostUpdate
  BY DEF GuardIInv, LogOk
<1> QED
  BY <1>1, GuardedIInv, PTL

\* What guardVersion says of an update that missed is true of the row, whatever
\* others do to it between the update and the re-read.
THEOREM GuardedRefusalIsTrue == GuardSpec => []RefusalIsTrue
<1>1. GuardIInv => RefusalIsTrue
  BY DEF GuardIInv
<1> QED
  BY <1>1, GuardedIInv, PTL

----------------------------------------------------------------------------
(* What it reads back                                                      *)

\* The column that a write has stamped is read back by its parser as it was
\* stamped; a text out of its grammar is refused.
LEMMA ReadBackIsExact ==
  ASSUME NEW column \in Columns, NEW x \in Stored(column), NEW offset \in Offsets,
         NEW readable \in BOOLEAN
  PROVE  LET read == ReadBack[column][x, offset, readable]
         IN IF readable THEN ColumnExact(column, read, x) ELSE Failed(read)
<1> DEFINE read == ReadBack[column][x, offset, readable]
           printed == IF readable THEN PrintedColumn(column, x, offset) ELSE OtherText(column)
<1>1. read = ReadOf(column, printed)
  <2>1. <<x, offset, readable>> \in Stored(column) \X Offsets \X BOOLEAN
    OBVIOUS
  <2> QED
    BY <2>1 DEF ReadBack, ReadOf
<1>2. column \in OwnTypes \cup {"text[]"} /\ offset \in Int
  BY StoredAssumption
<1> HIDE DEF read
<1>3. CASE ~readable
  BY <1>1, <1>2, <1>3, OtherIsRefused DEF read
<1>4. CASE readable /\ column = "text[]"
  <2>1. x \in Seq(Elements([kind : STRING, is : STRING]))
    BY <1>4, StoredAssumption DEF Stored, Elements
  <2>2. printed = array_out(x) /\ column \notin OwnTypes
    BY <1>4 DEF PrintedColumn, OwnTypes
  <2>3. read = ServiceParse(array_out(x))
    BY <1>1, <2>2, RegistryIs
  <2>4. read = [elements |-> x]
    BY <2>1, <2>3, TextsAreRead
  <2>5. ColumnExact(column, read, x)
    BY <1>4, <2>4 DEF ColumnExact
  <2> QED
    BY <1>4, <2>5 DEF read
<1>5. CASE readable /\ column # "text[]"
  <2>1. column \in OwnTypes /\ x \in [day : Int, ms : 0 .. MS_PER_DAY - 1, us : 0 .. 999]
    BY <1>2, <1>5, StoredAssumption DEF Stored
  <2>2. printed = PrintedColumn(column, x, offset)
    BY <1>5
  <2>3. ColumnExact(column, read, x)
    <3>1. ColumnExact(column, ReadOf(column, PrintedColumn(column, x, offset)), x)
      BY <1>2, <2>1, ColumnIsExact
    <3> QED
      BY <1>1, <2>2, <3>1
  <2> QED
    BY <1>5, <2>3 DEF read
<1> QED
  BY <1>3, <1>4, <1>5

\* Only the write itself changes what is read back of it.
LEMMA StampStep == StampIsExact /\ [GuardNext]_guardVars => StampIsExact'
<1> SUFFICES ASSUME StampIsExact, [GuardNext]_guardVars PROVE StampIsExact'
  OBVIOUS
<1>1. ASSUME NEW c \in Calls, UpdateRow(c) PROVE StampIsExact'
  <2>1. PICK column \in Columns : \E x \in Stored(column), offset \in Offsets, readable \in BOOLEAN :
          text' = [column |-> column, wrote |-> x, readable |-> readable,
                   read |-> ReadBack[column][x, offset, readable]]
    BY <1>1 DEF UpdateRow
  <2>2. PICK x \in Stored(column), offset \in Offsets, readable \in BOOLEAN :
          text' = [column |-> column, wrote |-> x, readable |-> readable,
                   read |-> ReadBack[column][x, offset, readable]]
    BY <2>1
  <2> DEFINE read == ReadBack[column][x, offset, readable]
  <2>3. IF readable THEN ColumnExact(column, read, x) ELSE Failed(read)
    BY ReadBackIsExact
  <2> HIDE DEF read
  <2>4. text'.column = column /\ text'.wrote = x /\ text'.readable = readable /\ text'.read = read
    BY <2>2 DEF read
  <2> QED
    BY <2>3, <2>4 DEF StampIsExact
<1>2. CASE text' = Unread
  BY <1>2 DEF StampIsExact
<1>3. CASE UNCHANGED guardVars
  BY <1>3 DEF StampIsExact, guardVars
<1> QED
  BY <1>1, <1>2, <1>3 DEF GuardNext

\* What a guarded write stamps is read back as it was written, in whatever zone
\* the server prints it, or the error of its parser says that it cannot be.
THEOREM GuardedStampIsExact == GuardSpec => []StampIsExact
<1>1. GuardInit => StampIsExact
  BY DEF GuardInit, StampIsExact
<1> QED
  BY <1>1, StampStep, PTL DEF GuardSpec

=============================================================================
