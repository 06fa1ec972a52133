SPECIFICATION Spec
CONSTANTS
  Producers = {7, 10}
  Unlocked = {10}
  LogT_BUFFLEN = 3
  MaxEvents = 5
INVARIANTS PositionInside CountSound Fifo
CHECK_DEADLOCK FALSE
