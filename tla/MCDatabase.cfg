SPECIFICATION DatabaseSpec
CONSTANTS
  a = a
  b = b
  Migrator <- Two
  Effect <- Sql
  Tracks <- SqlTracking
  TrackedBy = 5
  Releases = {9, 21}
  MaxUpsets = 1
  fresh = fresh
  resolved = resolved
  Broken = Broken
  Missing = Missing
  Gone = Gone
  Id = {fresh, resolved}
  FileSays <- Says
  Vocabulary = {fresh}
  Job <- Two
  HandMoves = {"in_progress", "deferred"}
  MaxRuns = 2
  Name <- Two
  e1 = e1
  e2 = e2
  Entity <- TwoEntities
  States = {"open", "in_progress"}
  MaxOps = 4
  MaxFiles = 2
SYMMETRY Symmetry
INVARIANTS SuccessMeansAllRan ViewsCurrent NeverStuck CompletedBeforeReady
PROPERTIES DismissedStays ImplementsLaggingCopy
CHECK_DEADLOCK FALSE
