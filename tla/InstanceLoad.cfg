SPECIFICATION Spec
CONSTANTS
  p1 = p1
  p2 = p2
  t1 = t1
  t2 = t2
  Path <- MCPath
  Missing <- MCMissing
  Task <- MCTask
  None = None
  Kinds = {"content", "servers"}
  Reloads = {TRUE, FALSE}
  MaxVersion <- MCMaxVersion
  MaxInbox = 1
SYMMETRY TaskSymmetry
INVARIANTS Control StaleIsCovered
PROPERTY ImplementsFreshCopy
CHECK_DEADLOCK FALSE
