SPECIFICATION EngineSpec
CONSTANTS
  Controllers = {c1, c2}
  NoController = NoController
  MaxOrders = 2
  MaxFaults = 2
  LeaseMax = 2
  ManualWindow = 1
  ReplyWait = 1
  Recognise = 2
  Stall = 1
  Rest = 1
  Interval = 1
  Slots = 1
  MaxAsked = 2
  Homes = {h1}
  NoHome = NoHome
  Nothing = Nothing
  MaxQueue = 2
  MaxCommands = 2
  MaxResets = 3
  MaxMishaps = 1
  MaxFrames = 1
  MaxTroubles = 2
INVARIANTS
  WorldKept
  EngineTypeOK
PROPERTIES
  SellsByRight
  Settles
  SessionAsIs
CHECK_DEADLOCK FALSE
