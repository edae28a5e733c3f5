SPECIFICATION Spec

CONSTANTS
  N = 2
  PhaseOf <- TwoPhases
  DependsOn <- SecondWaits
  AttemptLimit = 3
  Modes = {"none"}
  Limits = {0}
  MaxRuns = 1
  MaxExpiries = 0

INVARIANT RemainingCanBeWorked

CHECK_DEADLOCK FALSE
