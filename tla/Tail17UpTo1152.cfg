CONSTANTS
  CounterSpace <- MCCounterSpace
  Lengths <- MCLengths

SPECIFICATION Spec

PROPERTY Tail17UpTo1152
