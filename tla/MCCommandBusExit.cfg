CONSTANTS
  WithGui = FALSE
  Hwm = 2
  MaxInputs = 1
  MaxClients = 0
CHECK_DEADLOCK FALSE
SPECIFICATION Spec
PROPERTY ExitTerminates
