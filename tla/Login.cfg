SPECIFICATION PartsSpec
CONSTANTS
  a1 = a1
  p1 = p1
  s1 = s1
  s2 = s2
  Account <- MCOneAccount
  Profilers <- MCProfilers
  Handler = handler
  None = None
  MaxCalls = 2
  MaxChanges = 1
  MaxFolders = 1
  MaxInbox = 1
INVARIANTS CredentialsAreCurrent NoAuthFlowBug
PROPERTIES NoRepeatedLogin EveryCallReturns SkinsAreShown
CHECK_DEADLOCK FALSE
