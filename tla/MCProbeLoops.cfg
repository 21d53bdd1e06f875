SPECIFICATION Spec
CONSTANTS
  Machines <- MCMachines
  Iterations = 2
  Samples = 7
  Noise <- MCNoise
INVARIANTS
  RunsAtItsWidth
  NeverOverstates
CHECK_DEADLOCK FALSE
