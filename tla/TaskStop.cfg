SPECIFICATION Spec

CONSTANTS
  StartCalls = {s1}
  StopCalls = {x1}
  ApproveCalls = {}
  ChangeCalls = {}
  DoneCalls = {}
  MaxRequests = 2
  MaxProcs = 5
  MaxRounds = 1
  Settings <- DefaultSettings
  s1 = s1
  x1 = x1

INVARIANT StopIsFinal

\* Nothing more happens once every request is served and the task is at rest.
CHECK_DEADLOCK FALSE
