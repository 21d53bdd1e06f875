CONSTANTS
  Radix = 64
  Multipliers <- MCMultipliers
  Pads <- MCPads
  Chunks <- MCChunks
  LastChunks <- MCLastChunks
  MaxBlocks = 4
SPECIFICATION Spec
INVARIANTS
  TypeOK
  NoWordOverflows
  LimbsDoNotOverlap
PROPERTY ImplementsPoly1305
CHECK_DEADLOCK FALSE
