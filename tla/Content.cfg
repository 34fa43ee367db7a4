SPECIFICATION ContentSpec
CONSTANTS
  h1 = h1
  h2 = h2
  h3 = h3
  f1 = f1
  f2 = f2
  A = A
  B = B
  D = D
  x = x
  y = y
  Hash <- MCHash
  Bucket <- MCBucket
  Project = {A, B}
  None = None
  NoSource = NoSource
  MaxSets = 3
  MaxFaults = 2
  Mod = {A, B, D}
  Catalogue <- MCCatalogue
  Target = {x, y}
  Nil = Nil
  MaxClicks = 3
  MaxReleases = 1
  MaxFailures = 1
  Folder = {x, y}
  Value = {x, y}
  Dir = Dir
  InstancesDir = InstancesDir
  InvalidInstanceDir = InvalidInstanceDir
  Vacant = Vacant
  Index = {1, 2}
  Generations = 4
  MaxChanges = 5
  MaxEvents = 4
PROPERTIES SourcesAreKept ContentIsThereOnce RegistryIsDisk
CHECK_DEADLOCK FALSE
