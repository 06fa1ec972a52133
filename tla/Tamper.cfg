SPECIFICATION Spec
CONSTANTS
  Kinds <- OneCid
  Panels = {0, 1}
  OffSecs = 0
  SettleSecs = 0
  CommSecs = 0
  EvoSecs = 0
  MaxResets = 1
  Watched = {"word", "flag1", "byte", "record", "overlap", "shared", "clock", "orphan", "torn"}
INVARIANTS SupplySafe TampersKept
CONSTRAINT FewMishaps
