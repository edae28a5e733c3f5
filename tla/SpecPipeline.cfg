SPECIFICATION Spec

CONSTANTS
  MaxRetries = 3
  Flows <- AllFlows
  Origins = {"ui", "cli"}
  MaxRuns = 2

INVARIANT TypeOK
INVARIANT GoodRunSucceeds
INVARIANT SuccessIsUsable
PROPERTY EveryRunEnds

\* Nothing more happens once the specification is there or the runs are used up.
CHECK_DEADLOCK FALSE
