SPECIFICATION Spec
CONSTANTS
  Monitors = {m0}
  SecMax = 3
  Licensed = TRUE
  ShortAcks = TRUE
  SevenBis = FALSE
  MaxEvents = 2
  MaxReports = 1
  MaxLosses = 1
INVARIANT OneNumber
PROPERTY OnlyReuseLoses
