SPECIFICATION LaunchSpec
CONSTANTS
  p1 = p1
  p2 = p2
  m1 = m1
  m2 = m2
  Count = 1
  Process <- MCProcess
  Modal <- MCModal
  None = None
  Nil = Nil
  Nothing = Nothing
  HidesWindow = FALSE
  Removable = TRUE
  KillFails = TRUE
  WriteFails = FALSE
  MaxTime = 3
  MaxKills = 1
  MaxOutbox = 2
  config = config
  yosbr = yosbr
  jar = jar
  h1 = h1
  h2 = h2
  Download <- MCDownload
  Override <- MCOverride
  Mod <- MCMod
  Yosbr <- MCOverride
  Version = {1, 2}
  Hash = {h1, h2}
  Want <- MCWant
  MaxChanges = 2
  MaxFaults = 1
  t1 = t1
  t2 = t2
  a = a
  b = b
  i1 = i1
  i2 = i2
  Task <- MCTask
  Launcher <- MCLauncher
  Inode = {i1, i2}
  Permits = 1
  MaxEdits = 1
  MaxFileEdits = 1
  Java = Java
  Installer = Installer
  Output = Output
  asm = asm
  log = log
  Assets = {}
  Libraries = {asm}
  Logs = {log}
  Hashed = {Java, log}
  MaxLaunches = 2
INVARIANTS SessionIffProcesses LaunchingIsInHandler PlaytimeIsReal LibraryIsWhole DownloadersGoOn
PROPERTIES PlaytimeNeverGoesBack PacksAreKept DownloadsAreReady
