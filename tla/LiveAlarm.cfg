SPECIFICATION Spec
PROPERTIES AskedIsGiven EveryEventIsRead
CHECK_DEADLOCK FALSE
