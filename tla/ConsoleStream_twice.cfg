SPECIFICATION StreamSpec
CONSTANTS
  BatchSize = 2
  MaxEntries = 3
  Flushers = {f1}
  PageSize = 2
  MaxLogs = 2
  MaxJoins = 1
  TextOf <- Texts_
INVARIANT
  ShownOnce
