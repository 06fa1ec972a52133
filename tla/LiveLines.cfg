SPECIFICATION Spec
PROPERTIES Settles TroubleAlarmed AllDelivered EveryEventStored EveryEventSent
CHECK_DEADLOCK FALSE
