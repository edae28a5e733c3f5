SPECIFICATION Spec

CONSTANTS
  Planned = {s1}
  Marks = {"pending", "completed", "failed"}
  MaxAsks = 1
  MaxRuns = 2
  AsksAtRest = FALSE
  s1 = s1

CONSTRAINT Alone

INVARIANT TypeOK
INVARIANT NoWorkIsRedone
INVARIANT RestingPlanIsCurrent
PROPERTY ProgressIsShown
