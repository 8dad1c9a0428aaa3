SPECIFICATION SetupSpec
ACTION_CONSTRAINT FewEdits
CONSTANTS
  None = None
  Harnesses = {"claude", "codex", "agy", "hermes", "opencode"}
  Skill = {"skill"}
  Agent = {"reviewer"}
  Event = {"start"}
  Key = {"actor", "retired"}
  Ships <- TwoReleases
  Envs <- SomeEnvs
  UserText = {"mine"}
  Value = {"x", "y"}
  MaxEdits = 2
  p = p
  q = q
  unix = unix
  windows = windows
  outer = outer
  inner = inner
  INNER = INNER
  Nowhere = Nowhere
  Project = {p, q}
  Vm = {unix, windows}
  Dir = {outer, inner, INNER}
  MatchKey <- Letters
  Under <- Below
  Caller = {a, b}
  On <- DirsOf
  Slug <- Basename
  MaxCommands = 3
INVARIANTS TheirsStand NothingLeaks InstalledMeansInstalled
PROPERTIES MovedUnseen
CHECK_DEADLOCK FALSE
