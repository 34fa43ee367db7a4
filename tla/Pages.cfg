SPECIFICATION PagesSpec
CONSTANTS
  t1 = t1
  t2 = t2
  l1 = l1
  l2 = l2
  r1 = r1
  r2 = r2
  Task <- MCTask
  Load <- MCLoad
  None = None
  Dead = Dead
  Items <- MCFileItems
  MaxServer = 2
  MaxRequests = 1
  MaxKeepAlives = 2
  Matching <- MCMatching
  Type <- MCType
  Loader <- MCLoader
  Category <- MCCategory
  Project <- MCProject
  Instance <- MCSearching
  Vanilla = "vanilla"
  Contents <- MCListed
  Nil = Nil
  Limit = 2
  MaxChanges = 3
  MaxLists = 0
  IsMod = TRUE
  Files <- MCModFiles
  ModLoader <- MCModLoader
  InstanceEntry <- MCInstance
  NoLoader = "vanilla"
  Dependency <- MCProject
  Null = Null
  MaxClicks = 3
  MaxListings = 1
  Path <- MCPath
  Gzipped <- MCGzipped
  Reader <- MCReader
  Missing = Missing
  BufferSize = 2
  ChannelSize = 1
  MaxLength = 4
  MaxAsked = 2
SYMMETRY MCSymmetry
INVARIANTS HandlesAreRight HitsAreRight InstallsFit
PROPERTIES BackwardsOnlyByFallback OutputIsShown
CHECK_DEADLOCK FALSE
