SPECIFICATION Spec
CONSTANTS
  Subcommands <- MCScanning
  Configs <- MCMatrix
  GAINER_LED_MATRIX = 1
  Patterns <- MCPatterns
  Dark = 0
  MaxLine = 1
  MaxCalls = 6
INVARIANTS
  ScanLineSets
CHECK_DEADLOCK FALSE
