SPECIFICATION Spec

CONSTANTS
  N = 2
  PhaseOf <- TwoPhases
  DependsOn <- SecondWaits
  AttemptLimit = 2
  Modes = {"none", "flag", "quick"}
  Limits = {0, 1}
  MaxRuns = 2
  MaxExpiries = 1

INVARIANT TypeOK
INVARIANT PhaseOrder
INVARIANT AttemptsBounded
INVARIANT StoppedForAReason
INVARIANT ReviewedBeforeCoding
PROPERTY EveryRunEnds

\* Nothing more happens once the runs are used up and the loop has ended.
CHECK_DEADLOCK FALSE
