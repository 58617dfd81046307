SPECIFICATION Spec
CONSTANTS
  WithGui = TRUE
  ConsoleLines <- MCConsoleLines
  PlayerLines <- MCPlayerLines
  MaxLines = 2
CHECK_DEADLOCK FALSE
INVARIANTS TypeOK EndsTogether OneHandler HelpExact TableFits
PROPERTIES LevelAsHelped
