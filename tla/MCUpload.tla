------------------------------- MODULE MCUpload -------------------------------
(* Which pipeline each upload of Upload.cfg goes through, and what is sent: *)
(* names that tell the type of the content, of every size and health, and   *)
(* one of each kind of lie.                                                 *)
EXTENDS Upload, TLC
CONSTANTS a, b
MCKindOf == (a :> "image") @@ (b :> "pdf")
MCContent(e, t, i, n) == [ext |-> e, type |-> t, infected |-> i, chunks |-> n]
MCContents ==
  {MCContent(".png", "image/png", FALSE, n) : n \in 1..MaxChunks}
    \cup {MCContent(".pdf", "application/pdf", FALSE, n) : n \in 1..MaxChunks}
    \cup {MCContent(".png", "image/png", TRUE, 1), MCContent(".pdf", "application/pdf", TRUE, 1)}
    \cup {MCContent(".png", "application/pdf", FALSE, 1), MCContent(".pdf", "image/png", FALSE, 0)}
==============================================================================
