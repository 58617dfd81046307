CONSTANTS
  MaxClients = 3
  CTB_MIN_SIZE = 1
CHECK_DEADLOCK FALSE
SPECIFICATION Spec
INVARIANTS TypeOK CtbExact Released
PROPERTIES ImplementsService Reaped Closes
