CONSTANTS
  MaxNodes = 2
  MaxEdges = 6
  Direct = 2
  InitSize = 3
  DegreeLimit = 5
  Dead = Dead
  Junk = Junk
SPECIFICATION MCSpec
INVARIANTS TypeOK GraphExact
