SPECIFICATION PagesSpec
CONSTANTS
  BatchSize = 2
  MaxEntries = 3
  Flushers = {f1}
  PageSize = 2
  MaxLogs = 2
  MaxJoins = 2
  TextOf <- Texts_
  MaxLists = 2
  MaxNews = 2
  MaxReadings = 2
  MaxBreaks = 1
  Unloaded = Unloaded
  Absent = Absent
  UploaderOf <- Uploaders_
  LastCategory = 3
  MaxMoves = 3
  MaxArrivals = 2
  MaxOrders = 1
  NoteTexts = {0, 1, 2}
  MaxKeys = 4
  MaxUpsetsOf = 2
  Accounts = {a, b}
  Elsewhere = Elsewhere
  Nobody = Nobody
  Commands = {1}
  MaxVisits = 3
  MaxAsks = 3
  Me = me
  Others = {u}
  Settings = {1, 2}
  MaxEdits = 2
  MaxSaves = 2
  MaxPanels = 2
  MaxForeign = 1
  Named = {me, u}
  Field = me
  MaxClicks = 2
  MaxFetches = 3
  MaxTyped = 2
  MaxLosses = 1
  Gone = Gone
  Unfetched = Unfetched
INVARIANTS
  PagesTypeOK
  LiveLinesKept
  NoteSaved
  UsersAsShown
PROPERTIES
  EntriesSettle
  DashboardTrue
  OnlyNeighboursMove
  AnswersStayHome
  SavedAsPressed
CHECK_DEADLOCK FALSE
