SPECIFICATION Spec
CONSTANTS
  Monitors = {m0}
  SecMax = 3
  Licensed = TRUE
  ShortAcks = FALSE
  SevenBis = FALSE
  MaxEvents = 2
  MaxReports = 0
  MaxLosses = 0
PROPERTY AckedWasReceived
