SPECIFICATION FairSpec
CONSTANTS
  t1 = t1
  t2 = t2
  l1 = l1
  l2 = l2
  l3 = l3
  Task <- MCTask
  Load <- MCLoad
  None = None
  Dead = Dead
  Items <- MCItems
  MaxServer = 1
  MaxRequests = 1
  MaxKeepAlives = 2
PROPERTIES EveryCallReturns StaleIsRefreshed
CHECK_DEADLOCK FALSE
