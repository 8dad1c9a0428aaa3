SPECIFICATION BreadcrumbSpec
CONSTANTS
  fresh = fresh
  resolved = resolved
  Broken = Broken
  Missing = Missing
  Gone = Gone
  Id = {fresh, resolved}
  FileSays <- Says
  Vocabulary = {fresh}
  Job = {a, b}
  HandMoves = {"in_progress", "in_review", "deferred", "done"}
  MaxRuns = 1
PROPERTY PruneKeepsListed
