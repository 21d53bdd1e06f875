CONSTANTS
  CounterSpace <- MCCounterSpace
  Lengths <- MCLengths

SPECIFICATION Spec

INVARIANTS
  TypeOK
  MacInOrder
  MacOverCiphertext
  KeystreamInOrder
  WithinRecord
  TagCoversRecord
  NoDeadBranch
  IInv

PROPERTY ImplementsRecord
