SPECIFICATION Spec
CONSTANTS
  Path = {a}
  MaxChanges = 2
  MaxFolders = 0
  MaxInbox = 1
INVARIANT NoDeadlock
CHECK_DEADLOCK FALSE
