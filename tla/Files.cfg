SPECIFICATION FilesSpec
CONSTANTS
  d = d
  e = e
  w1 = w1
  w2 = w2
  invalid = invalid
  dir = dir
  world = world
  None = None
  WorldDir = world
  Path <- MCPath
  Target <- MCTarget
  Calls <- MCCalls
  Subdirs <- MCSubdirs
  Worlds <- MCWorld
  Link <- MCOneLink
  Setting = {1, 2}
  Torn = Torn
  Nil = Nil
  Kinds <- MCKinds
  MaxWrites = 3
  i1 = i1
  i2 = i2
  Instance <- MCInstance
  Folder = {d}
  Item = {e}
  Shared = Shared
  Missing = Missing
  Cut = Cut
  MaxTime = 3
  MaxWork = 2
  Mod = {d, e}
  Pack = {d, e}
  h1 = h1
  h2 = h2
  mrpack = mrpack
  zip = zip
  t1 = t1
  t2 = t2
  Modpack = {mrpack, zip}
  Wants <- MCWants
  Curseforge = {zip}
  Thread <- MCThread
  NoPack = NoPack
  MaxInstalls = 1
  MaxBreaks = 1
  Children = 2
  MaxLoads = 2
  MaxClicks = 3
  MaxVersion = 3
  MaxStarts = 3
SYMMETRY Symmetry
INVARIANTS SummariesAreCurrent MapsAgree WatchedBySystem UpdatesAreSafe
PROPERTIES SettingsAreKept SharedIsKept OnlyWhatWasMeant
CHECK_DEADLOCK FALSE
