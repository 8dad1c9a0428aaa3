SPECIFICATION Spec
CONSTANTS
  ada = ada
  bob = bob
  uma = uma
  hal = hal
  A = A
  B = B
  U = U
  Unknown = U
  Proc <- Two
  Lineage <- LineageOf2
  Human <- NoOne
  Contents <- OneContent
  Statuses <- ReviewRound
  DiagEdits <- NoDiag
  Forces <- NoForce
  Commands <- ReviewOrUpdate
  LegacyRows <- NoLegacy
  TTLs <- NoTTL
  MaxClock = 0
  MaxSeq = 6
  MaxTx = 1
INVARIANTS
  ApproverDidNoWork
