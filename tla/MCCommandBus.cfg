CONSTANTS
  WithGui = TRUE
  Hwm = 1
  MaxInputs = 1
  MaxClients = 1
CHECK_DEADLOCK FALSE
SPECIFICATION Spec
INVARIANTS TypeOK AtMostOneAfterExit IdleFindsWindow
PROPERTIES BarrierOpens ToldAllStops
