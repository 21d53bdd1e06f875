CONSTANTS
  CounterSpace = 4
  Lengths <- MCLengths
  FirstCounters <- MCFirstCounters
  MaxBytes = 520
  MaxStreams = 2
SPECIFICATION Spec
INVARIANTS
  TypeOK
  StreamInOrder
  IInv
PROPERTY ImplementsStream
CHECK_DEADLOCK FALSE
