SPECIFICATION SuiteSpec
CONSTANTS
  Kinds = {"ASAL"}
  nmax = 1
  NTop = 3
  Confirmed = TRUE
  MaxRequests = 1
  MaxMeddles = 1
  MaxBoots = 1
  Second = TRUE
  RingLen = 3
  MaxEvents = 3
  MaxOther = 1
  Zones = {0, 5}
  Volts = {500, 1500, 2000, 2800, 4000}
  Debounce = 2
  MaxChanges = 3
  MaxResets = 1
  PowerOn = FALSE
  MaxButtons = 1
  MaxReboots = 0
  m0 = m0
  m1 = m1
CONSTRAINT FewMishaps
CHECK_DEADLOCK FALSE
INVARIANTS TypesOK StationKnows AlarmSaved OthersKnow OpeningsRight NotForgotten
PROPERTIES SentOnce FullDebounce OthersKeep
