SPECIFICATION BridgeSpec
CONSTANTS
  ui = ui
  mods = mods
  worlds = worlds
  None = None
  NoSerial = NoSerial
  Sender <- MCSenders
  Slot <- MCSlots
  Modulus = 13
  MaxSerials = 5
  MaxPlain = 2
  n1 = n1
  n2 = n2
  w1 = w1
  w2 = w2
  w3 = w3
  Notifier <- MCNotifiers
  Waiter <- MCWaiters
  MaxPermits = 2
  p1 = p1
  p2 = p2
  m1 = m1
  m2 = m2
  Count = 2
  Process <- MCProcess
  Modal <- MCModal
  HidesWindow = TRUE
  Removable = FALSE
  KillFails = FALSE
  WriteFails = FALSE
  MaxTime = 0
  MaxKills = 1
  MaxOutbox = 1
INVARIANTS AskedOnce SignalIsSound GamesAreKnown
PROPERTIES EveryoneIsServed FrontendIsTold
CHECK_DEADLOCK FALSE
