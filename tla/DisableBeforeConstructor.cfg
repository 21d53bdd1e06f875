SPECIFICATION Spec
CONSTANTS
  Threads = {t1, t2}
  Processors <- MCProcessors
  MaxCalls = 2
SYMMETRY Symmetry
INVARIANT DisableForcesPortable
CHECK_DEADLOCK FALSE
