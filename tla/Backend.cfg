SPECIFICATION BackendSpec
CONSTANTS
  Statuses = {OFFLINE, CONNECTING, ONLINE}
  Offline = OFFLINE
  Attempting = {CONNECTING}
  Undefined = Undefined
  MaxChanges = 5
  MaxFaults = 3
  Requests = {r1, r2, r3}
  MaxRequests = 4
  MaxConfigs = 2
  MaxFailures = 2
  Queries = {q1, q2}
  Reads = {a1, a2}
  MaxSales = 2
  MaxIntervals = 2
  MaxClears = 1
  NoQuery = NoQuery
  Notices = {0, 1, 3}
  ShortNotice = 1
  SameRestart = 1
  SellLead = 1
  SellCooldown = 3
  CheckInterval = 2
  RestartChecks = 3
  CheckPeriod = 5
  Addresses = {a, b}
  Inquiries = {i1, i2}
  Threshold = 2
  MaxLogins = 4
  MaxRulings = 3
  MaxOutages = 2
  NoInquiry = NoInquiry
INVARIANTS
  RecordsAgree
  BackendTypeOK
  ReadIsFresh
  NeverSellsTooSoon
  BansInForce
PROPERTIES
  ColumnFollowsStatus
  CrouchChecksKept
CHECK_DEADLOCK FALSE
