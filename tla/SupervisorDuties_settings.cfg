SPECIFICATION DutiesSpec
CONSTANTS
  Notices = {0, 1, 3}
  ShortNotice = 1
  SameRestart = 1
  SellLead = 1
  SellCooldown = 3
  CheckInterval = 2
  RestartChecks = 3
  CheckPeriod = 5
INVARIANT SettingsTakeEffect
