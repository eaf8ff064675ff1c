SPECIFICATION FairSpec
CONSTANTS
  BaseDelay = 2
  ThrottleDelay = 3
  ThrottleCap = 7
  PacketDelay = 3
  OutageCap = 5
  StableAfter = 3
  Controllers = {c1, c2}
  NoController = NoController
  RestartDelay = 2
  HangTimeout = 4
  SignInTimeout = 5
  EntryTimeout = 2
  SilenceLimit = 3
  WatchdogInterval = 2
  OutageLease = 2
  MaxCreationFailures = 1
INVARIANTS
  TypeOK
  OneDriver
  StatusAgrees
  EveryAttemptHasDeadline
  HeardOrExcused
PROPERTIES
  FailuresRemembered
  ImplementsAccount
