SPECIFICATION DeliverySpec
CONSTANTS
  s = s
  t = t
  hook = hook
  stop = stop
  waiter = waiter
  Msg <- TwoMsgs
  Session <- TwoSessions
  To <- Mixed
  Wakes <- First
  Reader <- Readers3
  Of <- OfReader
  Kind <- KindOf
  Limit = 2
  Cap = 1
  MayExpire <- First
  MaxFaults = 1
  far = far
  mute = mute
  c1 = c1
  c2 = c2
  Home = Home
  Dep = {far, mute}
  Crossing = {far}
  NoTarget = NoTarget
  Default = NoTarget
  Channel <- Channels
  BatchN = 2
  MaxEvents = 2
  MaxDeaths = 1
INVARIANT OnePostPerClosing
PROPERTIES DependentsWoken EventuallyShown
