SPECIFICATION MessagingSpec
CONSTANTS
  t = t
  hook = hook
  stop = stop
  waiter = waiter
  Msg <- ThreeMsgs
  Session <- OneSession
  To <- AllToS
  Wakes <- ThreeMsgs
  Reader <- Hooks
  Of <- OfReader
  Kind <- KindOf
  Limit = 2
  Cap = 1
  MayExpire <- NoMsg
  MaxFaults = 1
  Unset = Unset
  p = p
  q = q
  v = v
  w = w
  s = s
  x = x
  y = y
  inP = inP
  inQ = inQ
  out = out
  c1 = c1
  c2 = c2
  d = d
  e = e
  SessionKey = {s}
  Dir = {inP, inQ, out}
  Project = {p, q}
  Workspace = {v, w}
  ProjectAt <- Discovered
  Ws <- WorkspaceAt
  DefaultWs = v
  Above <- Upwards
  Agent = {x, y}
  HostOf <- NoHost
  LocalHost <- LocalY
  Asked = {"any-direct-from-project"}
  Proc <- Two
  Home = {p}
  Digest <- Digests
  Clean = Clean
  Skipped = Skipped
  Runner <- Two
  MaxNotices = 3
  MaxDeaths = 1
SYMMETRY Symmetry
INVARIANTS ClaimMeansShown OnceWithoutFault OverrunBounded PolicyFollows RecurrenceIsPosted
PROPERTIES MovedInFull
CHECK_DEADLOCK FALSE
