SPECIFICATION Spec
CONSTANTS
  ada = ada
  bob = bob
  uma = uma
  hal = hal
  A = A
  B = B
  U = U
  Unknown = U
  Proc <- Three
  Lineage <- LineageOf3
  Human <- Hal
  Contents <- OneContent
  Statuses <- ReviewRound
  DiagEdits <- NoDiag
  Forces <- NoForce
  Commands <- Reviewing
  LegacyRows <- NoLegacy
  TTLs <- NoTTL
  MaxClock = 0
  MaxSeq = 6
  MaxTx = 1
INVARIANTS ApproverIndependent CleanMeansReviewed
