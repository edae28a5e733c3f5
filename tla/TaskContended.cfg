SPECIFICATION Spec

CONSTANTS
  StartCalls = {s1, s2}
  StopCalls = {x1}
  ApproveCalls = {a1}
  ChangeCalls = {c1}
  DoneCalls = {d1}
  MaxRequests = 2
  MaxProcs = 3
  MaxRounds = 1
  Settings <- TwoSettings
  s1 = s1
  s2 = s2
  x1 = x1
  a1 = a1
  c1 = c1
  d1 = d1

\* No liveness property is checked here.
SYMMETRY Symmetry

INVARIANT EveryProcessIsWatched
INVARIANT OneRetryPerRun
INVARIANT AgentsBounded
PROPERTY DoneStaysDone

\* Nothing more happens once every request is served and the task is at rest.
CHECK_DEADLOCK FALSE
