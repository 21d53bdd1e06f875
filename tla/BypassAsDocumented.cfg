CONSTANTS
  CounterSpace = 97
  Lengths <- MCLengths
  Processors <- MCProcessors
  FirstCounters <- MCFirstCounters
SPECIFICATION Spec
PROPERTIES
  BypassAsDocumented
