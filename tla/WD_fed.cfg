SPECIFICATION FairSpec
CONSTANTS
  HBRESET_RETRIES = 2
  MaxPowerCycles = 2
  Feeders <- AllFeed
PROPERTY ResetByWatchdog
CHECK_DEADLOCK FALSE
