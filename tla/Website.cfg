SPECIFICATION WebsiteSpec
CONSTANTS
  Users = {u1, u2}
  Tasks = {t1, t2}
  MaxTasks = 4
  MaxCuts = 1
  MaxJobs = 2
  MaxEvents = 2
  MaxRights = 2
  MaxSockets = 2
  MaxExtras = 1
  Editors = {e1, e2}
  MaxEdits = 3
  MaxTurns = 2
  Owners = {o1, o2}
  Reads = {r1, r2}
  MaxPatches = 2
  MaxSessions = 2
  MaxFailures = 1
  UserTabs = {n1, n2}
  MaxReleases = 2
  MaxMisses = 2
  Panels = {p1, p2}
  MaxStreams = 3
  MaxSwitches = 5
INVARIANTS
  AdminsDecide
  WebsiteTypeOK
  TextKept
  AcknowledgedShown
  DisplayedBeforeRead
  OneUpstream
PROPERTIES
  EventsAsDue
CHECK_DEADLOCK FALSE
