SPECIFICATION PacksSpec
CONSTANTS
  Download = {config}
  Override = {}
  Mod = {}
  Yosbr = {}
  Version = {v1, v2}
  Hash = {v1, v2}
  Want <- Renewing
  Nothing = Nothing
  MaxChanges = 2
  MaxFaults = 0
PROPERTY UserChangesKept
