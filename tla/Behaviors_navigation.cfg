SPECIFICATION BehaviorSpec
CONSTANTS
  Homes = {h1}
  NoHome = NoHome
  Nothing = Nothing
  MaxQueue = 2
  MaxCommands = 2
  MaxResets = 3
  MaxMishaps = 0
INVARIANT NavigationWins
CHECK_DEADLOCK FALSE
