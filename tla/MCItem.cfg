SPECIFICATION Spec
CONSTANTS
  ada = ada
  bob = bob
  uma = uma
  hal = hal
  A = A
  B = B
  U = U
  Unknown = U
  Proc <- Mixed
  Lineage <- LineageOfMixed
  Human <- NoOne
  Contents <- TwoContents
  Statuses <- Completing
  DiagEdits <- FixDiag
  Forces <- AnyForce
  Commands <- AllCommands
  LegacyRows <- LegacySet
  TTLs <- TTL1
  MaxClock = 1
  MaxSeq = 4
  MaxTx = 1
INVARIANTS LeaseMatchesLog
PROPERTIES NoUngatedExit NoSilentRevert StaysInStep LeaseSpec LiveLeaseKept
