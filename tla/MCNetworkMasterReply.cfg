CONSTANTS
  MaxClients = 1
  CTB_MIN_SIZE = 1
CHECK_DEADLOCK FALSE
SPECIFICATION Spec
PROPERTY RequestAnswered
