CONSTANTS
  CounterSpace = 97
  Lengths <- MCLengths
  Processors <- MCProcessors
  FirstCounters <- MCFirstCounters
SPECIFICATION Spec
INVARIANTS
  TypeOK
  KeystreamInOrder
  StreamComplete
  CallerCounterKept
  IInv
PROPERTIES
  StitchedExactlyWhenItSaves
  EveryCallReturns
