SPECIFICATION Spec
CONSTANTS
  Subcommands <- MCSubcommands
  Configs <- MCConfigs
  GAINER_LED_MATRIX = 1
  Patterns <- MCPatterns
  Dark = 0
  MaxLine = 2
  MaxCalls = 4
INVARIANTS
  TypeOK
  ReplyIsOwn
  BoardAgrees
PROPERTIES
  ExecReturns
CHECK_DEADLOCK FALSE
