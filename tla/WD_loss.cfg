SPECIFICATION FairSpec
CONSTANTS
  HBRESET_RETRIES = 5
  MaxPowerCycles = 3
  Feeders <- AllButStart
INVARIANT ReportedFirst
PROPERTY SilenceEnds
