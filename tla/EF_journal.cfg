SPECIFICATION FairSpec
CONSTANTS
  Monitors = {m0}
  MacroMon = none
  Held = {}
  Internal = {2}
  DF_MAXEVENTS = 4
  IndexTop = 5
  TXEVENTBUFFERLEN = 1
  Window = 1
  MaxLogged = 5
  Pace = 1
  MaxBadWrites = 1
  MaxCrashes = 1
  MaxFormats = 0
PROPERTIES ImplementsJournal WindowDrains
