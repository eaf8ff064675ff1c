SPECIFICATION BedrockSpec
CONSTANTS
  StageTimeout = 2
  AuthTimeout = 3
  DiscoveryTimeout = 1
  CodeLife = 4
  Supported = {1, 2}
  CurrentProtocol = 2
  Advertised = {0, 1, 3}
  MaxCodes = 2
  MaxLines = 2
  Slots = {1}
  MaxRoom = 1
  MenuWait = 1
  TransferWait = 1
  ManualGuard = 2
  LongWait = 3
  SellInterval = 2
  Settling = 1
  MaxTrouble = 2
  Stabilize = 1
  Check = 2
  TeleportCheck = 3
  MaxMishaps = 4
  Places = {1, 2}
  Kinds = {"stone", "ore"}
  DigTime = 1
  RetryTime = 1
  UseTime = 1
  RequestTime = 1
  MaxAirUpdates = 1
  MaxUpsets = 4
INVARIANTS
  AgreesWithServer
  BedrockTypeOK
PROPERTIES
  SalesGoWell
  JoinEnds
  CrouchRestored
CHECK_DEADLOCK FALSE
