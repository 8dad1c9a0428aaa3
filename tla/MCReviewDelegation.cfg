SPECIFICATION ReviewSpec
CONSTANTS
  ada = ada
  A = A
  B = B
  U = U
  job1 = job1
  job2 = job2
  Unknown = U
  Proc <- One
  Lineage <- LineageOf
  Human <- NoOne
  Contents <- TwoContents
  Statuses <- InReview
  DiagEdits <- NoDiag
  Forces <- NoForce
  Commands <- UpdateAndReview
  LegacyRows <- NoLegacy
  TTLs <- NoTTL
  Job <- Jobs2
  Ask <- Asks
  Reviewer <- ReviewerOf
  Shown <- ShownOf
  MaxClock = 0
  MaxSeq = 5
  MaxTx = 1
SYMMETRY Alike
INVARIANTS OneReviewer AppliedAsReviewed ReviewerDidNoWork ReplyMatchesJournal
PROPERTIES AppliedOnce
