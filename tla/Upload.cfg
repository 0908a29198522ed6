CONSTANTS
  a = a
  b = b
  Uploads = {a, b}
  KindOf <- MCKindOf
  Contents <- MCContents
  Names = {"logo", "../logo"}
  Traversing = {"../logo"}
  maxFileSize = 1
  MaxChunks = 2
  NoFile = NoFile
SPECIFICATION FairSpec
INVARIANTS IInv ServedIsVetted
PROPERTY EveryUploadEnds
CHECK_DEADLOCK FALSE
