SPECIFICATION Spec

CONSTANTS
  Issue = {i1, i2}
  i1 = i1
  i2 = i2
  MaxIterations = 4
  MaxErrors = 2
  Threshold = 3
  MaxRuns = 2
  MaxTally = 4

INVARIANT TypeOK
INVARIANT RecurringIssuesEscalate
INVARIANT FeedbackFirst
INVARIANT ErrorsInARow
PROPERTY EveryRunEnds

\* Nothing more happens once the runs are used up and the loop has ended.
CHECK_DEADLOCK FALSE
