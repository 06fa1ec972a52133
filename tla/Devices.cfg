SPECIFICATION SuiteSpec
CONSTANTS
  N = 2
  Special = {2}
  Limit = 1
  ErrSize = 5
  MaxEvents = 1
  MaxLines = 1
  MaxCmds = 1
  MaxBoots = 1
  Tasks = {1, 2}
  Pages = {"cfg", "ev1", "ev2"}
  BufOf <- ThreePages
  MaxWrites = 2
  Size = 3
  Bytes = {1, 2}
  MaxRead = 3
  MaxWrite = 2
  Paced = TRUE
  Preempted = TRUE
  Testing = TRUE
  Clearing = FALSE
  RxSize = 3
  MaxIn = 8
  Kinds = {"garbled", "foreign", "status", "event"}
  Watched = {"late", "foreign", "word", "wrap", "clear", "edge", "shared", "crash", "undone",
             "forgot", "again", "special"}
INVARIANTS TypesOK ModulesReported ModulesServed
INVARIANTS Integrity CallsRight EachOnce OthersHold
PROPERTY WritesKept
CONSTRAINT FewMishaps
CHECK_DEADLOCK FALSE
