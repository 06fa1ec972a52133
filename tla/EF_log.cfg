SPECIFICATION Spec
CONSTANTS
  Monitors = {m0}
  MacroMon = m0
  Held = {3}
  Internal = {}
  DF_MAXEVENTS = 6
  IndexTop = 7
  TXEVENTBUFFERLEN = 2
  Window = 1
  MaxLogged = 7
  Pace = 1
  MaxBadWrites = 0
  MaxCrashes = 1
  MaxFormats = 1
INVARIANTS TagSound IndexUnique RestartContinues NoResend LogInOrder
