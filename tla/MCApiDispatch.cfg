SPECIFICATION Spec
CONSTANTS
  Threads = {t1, t2}
  Processors <- MCProcessors
  MaxCalls = 3
SYMMETRY Symmetry
INVARIANTS
  NeverUnsupported
  SwitchHolds
\* No call follows the last one.
CHECK_DEADLOCK FALSE
