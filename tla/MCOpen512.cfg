CONSTANTS
  CounterSpace <- MCCounterSpace
  Lengths <- MCLengths

SPECIFICATION Spec

INVARIANTS
  TypeOK
  MacInOrder
  MacOverCiphertext
  KeystreamInOrder
  WithinRecord
  TagCoversRecord
  IInv

PROPERTY ImplementsRecord
