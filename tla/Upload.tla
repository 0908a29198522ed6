-------------------------------- MODULE Upload --------------------------------
(***************************************************************************)
(* The upload pipelines: storeUploadAsTemp writes a stream to a temporary  *)
(* file, uploadTempImage and uploadTempPdf vet it (extension, content,     *)
(* virus scan, re-encoding), and a mover puts it in its place.             *)
(*                                                                         *)
(* External: the events of the two streams of an upload, the file system,  *)
(* ClamAV (which removes an infected file by itself: removeInfected, the   *)
(* default that initClamScan gives and a service is taken to keep),        *)
(* file-type, sharp, and the caller that hands the answer to a mover.      *)
(***************************************************************************)
EXTENDS Integers, FiniteSets

CONSTANTS
  Uploads,
  KindOf,       \* "image": uploadTempImage, "pdf": uploadTempPdf
  Contents,     \* what clients send: extension, type of the content, infected, chunks
  Names,        \* the destinations callers ask for
  Traversing,   \* those with a ".." component
  maxFileSize,  \* in chunks
  MaxChunks,    \* bound on the chunks of Contents
  NoFile

ASSUME UploadAssumption ==
  /\ KindOf \in [Uploads -> {"image", "pdf"}]
  /\ Traversing \subseteq Names
  /\ maxFileSize \in Nat /\ MaxChunks \in Nat
  /\ \A c \in Contents : c.chunks \in 0..MaxChunks
  /\ NoFile \notin [of : Uploads, chunks : 0..MaxChunks, encoded : BOOLEAN]

VARIABLES
  clam,           \* clamScanInstance is there
  pc,
  content,        \* what the client sends
  sent,           \* fileSize: the chunks that 'data' has announced
  source,         \* the upload's stream: "flowing", "ended" or "failed"
  sizeExceeded, writeFailure,
  writer,         \* the write stream: "open", "ending", "destroyed" or "closed"
  temp,           \* the file at filePath
  encoded,        \* the file at finalFilepath
  scan,
  refusal,        \* why the pipeline threw, "none" while it has not
  target,         \* where the caller asks to have the file moved
  dest            \* the files in their places

streamVars == <<sent, source, sizeExceeded, writeFailure, writer>>
vars == <<clam, pc, content, streamVars, temp, encoded, scan, refusal, target, dest>>

\* A file: the upload it holds, how much of it, and whether sharp wrote it.
Files == [of : Uploads, chunks : 0..MaxChunks, encoded : BOOLEAN] \cup {NoFile}

\* What scanVirus found out: isInfected, and whether it scanned at all.
Scans == {"none", "clean", "infected", "failed"}

TypeOK ==
  /\ clam \in BOOLEAN
  /\ pc \in [Uploads -> {"storing", "settling", "stored", "mime", "scan", "read", "unlink",
                         "answered", "check", "rename", "moved", "refused"}]
  /\ content \in [Uploads -> Contents]
  /\ sent \in [Uploads -> 0..MaxChunks] /\ \A u \in Uploads : sent[u] <= content[u].chunks
  /\ source \in [Uploads -> {"flowing", "ended", "failed"}]
  /\ sizeExceeded \in [Uploads -> BOOLEAN]
  /\ writeFailure \in [Uploads -> BOOLEAN]
  /\ writer \in [Uploads -> {"open", "ending", "destroyed", "closed"}]
  /\ temp \in [Uploads -> Files] /\ encoded \in [Uploads -> Files]
  /\ scan \in [Uploads -> Scans]
  /\ refusal \in [Uploads -> {"none", "size", "stream", "extension", "type", "scanner", "image", "internal",
                              "traversal", "taken"}]
  /\ target \in [Uploads -> Names \cup {NoFile}]
  /\ dest \in [Names -> Files]
  /\ \A u \in Uploads : writer[u] = "closed" <=> pc[u] # "storing"

Init ==
  /\ clam = FALSE
  /\ content \in [Uploads -> Contents]
  /\ pc = [u \in Uploads |-> "storing"]
  /\ sent = [u \in Uploads |-> 0]
  /\ source = [u \in Uploads |-> "flowing"]
  /\ sizeExceeded = [u \in Uploads |-> FALSE]
  /\ writeFailure = [u \in Uploads |-> FALSE]
  /\ writer = [u \in Uploads |-> "open"]
  /\ temp = [u \in Uploads |-> NoFile]
  /\ encoded = [u \in Uploads |-> NoFile]
  /\ scan = [u \in Uploads |-> "none"]
  /\ refusal = [u \in Uploads |-> "none"]
  /\ target = [u \in Uploads |-> NoFile]
  /\ dest = [n \in Names |-> NoFile]

----------------------------------------------------------------------------
(* storeUploadAsTemp                                                       *)

Storing == <<clam, pc, content, encoded, scan, refusal, target, dest>>

File(u, n, isEncoded) == [of |-> u, chunks |-> n, encoded |-> isEncoded]

\* stream.on('data'): the size is counted, then the pipe writes the chunk; a
\* destroyed write stream takes no more.  The events go on after that.
Data(u) ==
  /\ source[u] = "flowing" /\ sent[u] < content[u].chunks
  /\ sent' = [sent EXCEPT ![u] = @ + 1]
  /\ LET over == ~sizeExceeded[u] /\ sent[u] + 1 > maxFileSize
         stops == over /\ writer[u] = "open" IN
       /\ sizeExceeded' = [sizeExceeded EXCEPT ![u] = @ \/ over]
       /\ writer' = [writer EXCEPT ![u] = IF stops THEN "destroyed" ELSE @]
       /\ temp' = [temp EXCEPT ![u] =
            IF writer[u] = "open" /\ ~stops THEN File(u, sent[u] + 1, FALSE) ELSE @]
  /\ UNCHANGED <<source, writeFailure>> /\ UNCHANGED Storing

\* The file is there before its first chunk is.
Opened(u) ==
  /\ writer[u] # "closed" /\ temp[u] = NoFile
  /\ temp' = [temp EXCEPT ![u] = File(u, 0, FALSE)]
  /\ UNCHANGED streamVars /\ UNCHANGED Storing

\* stream 'end': the pipe ends the write stream.
SourceEnds(u) ==
  /\ source[u] = "flowing" /\ sent[u] = content[u].chunks
  /\ source' = [source EXCEPT ![u] = "ended"]
  /\ writer' = [writer EXCEPT ![u] = IF @ = "open" THEN "ending" ELSE @]
  /\ UNCHANGED <<sent, sizeExceeded, writeFailure, temp>> /\ UNCHANGED Storing

\* Mutant: nobody listens to the errors of the upload's stream.
SourceFailsUnheard(u) ==
  /\ source[u] = "flowing"
  /\ source' = [source EXCEPT ![u] = "failed"]
  /\ UNCHANGED <<sent, sizeExceeded, writeFailure, writer, temp>> /\ UNCHANGED Storing

\* stream 'error': writeStream.destroy(error), whose 'error' is recorded; a
\* write stream that is destroyed already says nothing more.
SourceFails(u) ==
  /\ source[u] = "flowing"
  /\ source' = [source EXCEPT ![u] = "failed"]
  /\ IF writer[u] = "open"
       THEN /\ writer' = [writer EXCEPT ![u] = "destroyed"]
            /\ writeFailure' = [writeFailure EXCEPT ![u] = TRUE]
       ELSE UNCHANGED <<writer, writeFailure>>
  /\ UNCHANGED <<sent, sizeExceeded, temp>> /\ UNCHANGED Storing

\* writeStream 'error': the open or a write has failed.
WriteFails(u) ==
  /\ writer[u] \in {"open", "ending"}
  /\ writer' = [writer EXCEPT ![u] = "destroyed"]
  /\ writeFailure' = [writeFailure EXCEPT ![u] = TRUE]
  /\ UNCHANGED <<sent, source, sizeExceeded, temp>> /\ UNCHANGED Storing

\* 'finish' needs the open; a destroyed stream closes as it is.
CanClose(u) == writer[u] = "destroyed" \/ (writer[u] = "ending" /\ temp[u] # NoFile)

\* Mutant: the failures settle the promise themselves, from the callback of
\* unlink, and 'close' overtakes them.
CloseFirst(u) ==
  /\ CanClose(u)
  /\ writer' = [writer EXCEPT ![u] = "closed"]
  /\ pc' = [pc EXCEPT ![u] = "stored"]
  /\ temp' = [temp EXCEPT ![u] = IF sizeExceeded[u] \/ writeFailure[u] THEN NoFile ELSE @]
  /\ UNCHANGED <<clam, content, sent, source, sizeExceeded, writeFailure, encoded, scan, refusal, target, dest>>

\* writeStream 'close', the single settle point: with a failure on record the
\* file is unlinked first (removeThenReject).
Close(u) ==
  /\ CanClose(u)
  /\ writer' = [writer EXCEPT ![u] = "closed"]
  /\ LET reason == IF sizeExceeded[u] THEN "size" ELSE IF writeFailure[u] THEN "stream" ELSE "none" IN
       /\ refusal' = [refusal EXCEPT ![u] = reason]
       /\ pc' = [pc EXCEPT ![u] = IF reason = "none" THEN "stored" ELSE "settling"]
  /\ UNCHANGED <<clam, content, sent, source, sizeExceeded, writeFailure, temp, encoded, scan, target, dest>>

----------------------------------------------------------------------------
(* uploadTempImage and uploadTempPdf                                       *)

\* Clean-up is best effort: the file may stay, and so may the reason be another
\* when fs.remove throws; the caller gets one error for all of them.
Removed(u) == \E gone \in {NoFile, temp[u]} : temp' = [temp EXCEPT ![u] = gone]

Go(u, place) == pc' = [pc EXCEPT ![u] = place]
ThrowFor(u, reason) == refusal' = [refusal EXCEPT ![u] = reason] /\ Go(u, "refused")
Pipeline == <<clam, content, streamVars, target, dest>>

\* The callback of unlink rejects.
Settle(u) ==
  /\ pc[u] = "settling"
  /\ Removed(u) /\ Go(u, "refused")
  /\ UNCHANGED <<refusal, encoded, scan>> /\ UNCHANGED Pipeline

AllowedExtensions(kind) == IF kind = "image" THEN {".jpg", ".jpeg", ".png"} ELSE {".pdf"}
AllowedTypes(kind) == IF kind = "image" THEN {"image/jpeg", "image/png"} ELSE {"application/pdf"}

\* validateJpgPngExtension, validatePdfExtension.
ValidateExtension(u) ==
  /\ pc[u] = "stored"
  /\ IF content[u].ext \in AllowedExtensions(KindOf[u])
       THEN Go(u, "mime") /\ UNCHANGED <<temp, refusal>>
       ELSE Removed(u) /\ ThrowFor(u, "extension")
  /\ UNCHANGED <<encoded, scan>> /\ UNCHANGED Pipeline

\* Mutant: any type that file-type knows will do.
ValidateKnownType(u) ==
  /\ pc[u] = "mime"
  /\ Go(u, "scan")
  /\ UNCHANGED <<temp, refusal, encoded, scan>> /\ UNCHANGED Pipeline

\* validateMimeType.  When the file cannot be read it throws and the file stays.
ValidateMimeType(u) ==
  /\ pc[u] = "mime"
  /\ \/ /\ content[u].type \in AllowedTypes(KindOf[u])
        /\ Go(u, "scan") /\ UNCHANGED <<temp, refusal>>
     \/ /\ content[u].type \notin AllowedTypes(KindOf[u])
        /\ Removed(u) /\ ThrowFor(u, "type")
     \/ ThrowFor(u, "type") /\ UNCHANGED temp
  /\ UNCHANGED <<encoded, scan>> /\ UNCHANGED Pipeline

\* initClamScan, at any time; one that fails throws and leaves no instance.
InitClamScan ==
  /\ ~clam
  /\ clam' = TRUE
  /\ UNCHANGED <<pc, content, streamVars, temp, encoded, scan, refusal, target, dest>>

\* scanVirus: what it returns is not looked at.  Without initClamScan it throws;
\* a scan that fails is reported and the upload goes on; ClamAV removes the
\* file it finds infected.  uploadTempPdf has its answer now.
ScanVirus(u) ==
  /\ pc[u] = "scan"
  /\ \/ ~clam /\ ThrowFor(u, "scanner") /\ UNCHANGED <<scan, temp>>
     \/ /\ clam
        /\ \/ scan' = [scan EXCEPT ![u] = "failed"] /\ UNCHANGED temp
           \/ /\ scan' = [scan EXCEPT ![u] = IF content[u].infected THEN "infected" ELSE "clean"]
              /\ temp' = [temp EXCEPT ![u] = IF content[u].infected THEN NoFile ELSE @]
        /\ Go(u, IF KindOf[u] = "image" THEN "read" ELSE "answered")
        /\ UNCHANGED refusal
  /\ UNCHANGED encoded /\ UNCHANGED Pipeline

\* reEncode: the bytes are read and written at finalFilepath; either may fail,
\* a write leaving a file that is not whole.
ReEncode(u) ==
  /\ pc[u] = "read"
  /\ \/ /\ temp[u] # NoFile
        /\ encoded' = [encoded EXCEPT ![u] = File(u, temp[u].chunks, TRUE)]
        /\ Go(u, "unlink") /\ UNCHANGED refusal
     \/ /\ \E n \in {NoFile, File(u, 0, TRUE)} :
             encoded' = [encoded EXCEPT ![u] = IF temp[u] = NoFile THEN NoFile ELSE n]
        /\ ThrowFor(u, "image")
  /\ UNCHANGED <<temp, scan>> /\ UNCHANGED Pipeline

\* The unlink of the original: a failure is an internal error, both files stay.
UnlinkOriginal(u) ==
  /\ pc[u] = "unlink"
  /\ \/ temp' = [temp EXCEPT ![u] = NoFile] /\ Go(u, "answered") /\ UNCHANGED refusal
     \/ ThrowFor(u, "internal") /\ UNCHANGED temp
  /\ UNCHANGED <<encoded, scan>> /\ UNCHANGED Pipeline

----------------------------------------------------------------------------
(* moveImageFile, moveFileStaticDomain                                     *)

\* The path in the answer, and the file there.
tempFile(u) == IF KindOf[u] = "image" THEN encoded[u] ELSE temp[u]

\* assertNoTraversal, on the folders and the file name.
CallMove(u) ==
  /\ pc[u] = "answered"
  /\ \E n \in Names :
       /\ target' = [target EXCEPT ![u] = n]
       /\ IF n \in Traversing THEN ThrowFor(u, "traversal") ELSE Go(u, "check") /\ UNCHANGED refusal
  /\ UNCHANGED <<clam, content, streamVars, temp, encoded, scan, dest>>

\* fs.move: nothing may be at the destination, and then it renames.
CheckDest(u) ==
  /\ pc[u] = "check"
  /\ IF dest[target[u]] # NoFile \/ tempFile(u) = NoFile
       THEN ThrowFor(u, "taken") ELSE Go(u, "rename") /\ UNCHANGED refusal
  /\ UNCHANGED <<clam, content, streamVars, temp, encoded, scan, target, dest>>

Rename(u) ==
  /\ pc[u] = "rename"
  /\ dest' = [dest EXCEPT ![target[u]] = tempFile(u)]
  /\ IF KindOf[u] = "image"
       THEN encoded' = [encoded EXCEPT ![u] = NoFile] /\ UNCHANGED temp
       ELSE temp' = [temp EXCEPT ![u] = NoFile] /\ UNCHANGED encoded
  /\ Go(u, "moved")
  /\ UNCHANGED <<clam, content, streamVars, scan, refusal, target>>

Streaming(u) == Data(u) \/ Opened(u) \/ SourceEnds(u) \/ SourceFails(u) \/ Close(u)
Vetting(u) ==
  \/ Settle(u) \/ ValidateExtension(u) \/ ValidateMimeType(u) \/ ScanVirus(u)
  \/ ReEncode(u) \/ UnlinkOriginal(u)

Moving(u) == CallMove(u) \/ CheckDest(u) \/ Rename(u)

Next ==
  \/ \E u \in Uploads : Streaming(u) \/ WriteFails(u) \/ Vetting(u) \/ Moving(u)
  \/ InitClamScan

Spec == Init /\ [][Next]_vars

\* An upload's stream ends or fails (a client that goes away makes it fail), and
\* what was asked of the disk, the scanner or sharp comes back.
FairSpec == Spec /\ \A u \in Uploads : WF_vars(Streaming(u)) /\ WF_vars(Vetting(u) \/ Moving(u))

----------------------------------------------------------------------------
(* Properties                                                              *)

InPipeline(u) == pc[u] \notin {"storing", "settling", "refused"}

\* In whatever order the data, error and close events of the two streams come:
\* storeUploadAsTemp resolves only for an upload that arrived whole and within
\* the limit and is on the disk as it was sent; when one of them failed it
\* rejects, once, with the size as the reason whenever the limit was passed
\* before the close.
StoreAnswersForItsFile ==
  /\ \A u \in Uploads : pc[u] = "stored" =>
       /\ source[u] = "ended" /\ content[u].chunks <= maxFileSize
       /\ temp[u] = File(u, content[u].chunks, FALSE)
  /\ \A u \in Uploads : InPipeline(u) => ~sizeExceeded[u] /\ ~writeFailure[u]

\* What a mover has put in its place is the whole of one upload that arrived
\* within the limit with an allowed extension and, by its content, an allowed
\* type; an image was written by sharp; ClamAV did not call it infected; and
\* the place is below the folder.
ServedIsVetted ==
  \A n \in Names : dest[n] # NoFile =>
    LET u == dest[n].of
        k == KindOf[u] IN
    /\ n \notin Traversing
    /\ dest[n].chunks = content[u].chunks /\ content[u].chunks <= maxFileSize
    /\ content[u].ext \in AllowedExtensions(k) /\ content[u].type \in AllowedTypes(k)
    /\ k = "image" => dest[n].encoded
    /\ scan[u] \in {"clean", "failed"}

\* Every upload is answered and moved, or refused, whatever its streams do.
EveryUploadEnds == \A u \in Uploads : <>(pc[u] \in {"moved", "refused"})

----------------------------------------------------------------------------
(* What the proofs need.                                                   *)

\* Behind what a stream has sent stands the file, until something has failed.
StreamOk(u) ==
  /\ writer[u] \in {"open", "ending"} =>
       temp[u] = File(u, sent[u], FALSE) \/ (temp[u] = NoFile /\ sent[u] = 0)
  /\ (writer[u] \in {"open", "ending"} \/ InPipeline(u)) =>
       ~sizeExceeded[u] /\ ~writeFailure[u] /\ sent[u] <= maxFileSize
  /\ (writer[u] = "ending" \/ InPipeline(u)) => source[u] = "ended" /\ sent[u] = content[u].chunks
  /\ writer[u] = "destroyed" => (sizeExceeded[u] \/ writeFailure[u])

\* What the steps an upload has passed have found out, and the file it goes on with.
PlaceOk(u) ==
  LET Whole(isEncoded) == File(u, content[u].chunks, isEncoded)
      cleared == scan[u] \in {"clean", "failed"} IN
  /\ pc[u] \in {"stored", "mime", "scan"} => temp[u] = Whole(FALSE)
  /\ (InPipeline(u) /\ pc[u] # "stored") => content[u].ext \in AllowedExtensions(KindOf[u])
  /\ (InPipeline(u) /\ pc[u] \notin {"stored", "mime"}) => content[u].type \in AllowedTypes(KindOf[u])
  /\ pc[u] \in {"read", "unlink"} => KindOf[u] = "image"
  /\ (pc[u] = "read" /\ temp[u] # NoFile) => (temp[u] = Whole(FALSE) /\ cleared)
  /\ (pc[u] \in {"unlink", "answered", "check", "rename"} /\ tempFile(u) # NoFile) =>
       (tempFile(u) = Whole(KindOf[u] = "image") /\ cleared)
  /\ pc[u] \in {"check", "rename"} => target[u] \in Names \ Traversing
  /\ pc[u] = "rename" => tempFile(u) # NoFile
  /\ pc[u] = "moved" => cleared

\* A file in its place is one of an upload that is through.
DestOk == \A n \in Names : dest[n] # NoFile => pc[dest[n].of] = "moved"

\* The variables hold what they are said to, a stored file is the upload, and each
\* upload has what its place in the pipeline says: inductive.
IInv ==
  /\ TypeOK
  /\ StoreAnswersForItsFile
  /\ \A u \in Uploads : StreamOk(u) /\ PlaceOk(u)
  /\ DestOk
==============================================================================
