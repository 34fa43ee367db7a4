SPECIFICATION FairSpec
CONSTANTS
  p1 = p1
  p2 = p2
  t1 = t1
  t2 = t2
  Path <- MCOnePath
  Missing <- MCOneMissing
  Task <- MCTask
  None = None
  Kinds = {"content", "servers"}
  Reloads = {TRUE, FALSE}
  MaxVersion <- MCOneChange
  MaxInbox = 1
PROPERTIES EventuallyFresh EveryLoadReturns
CHECK_DEADLOCK FALSE
