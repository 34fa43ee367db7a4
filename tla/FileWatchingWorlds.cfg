SPECIFICATION Spec
CONSTANTS
  d = d
  e = e
  w1 = w1
  w2 = w2
  invalid = invalid
  dir = dir
  world = world
  None = None
  WorldDir = world
  Path <- MCWorlds
  Target <- MCTarget
  Calls <- Nothing
  Subdirs <- MCSubdirs
  Worlds <- MCWorlds
  Link <- Nothing
PROPERTY WorldChangeMarksWorld
CHECK_DEADLOCK FALSE
