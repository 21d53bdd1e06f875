CONSTANTS
  CounterSpace <- MCCounterSpace
  Lengths <- MCLengths

SPECIFICATION Spec

PROPERTY SmallSuffixIsScalar
