SPECIFICATION Spec

CONSTANTS
  StartCalls = {s1}
  StopCalls = {x1}
  ApproveCalls = {}
  ChangeCalls = {}
  DoneCalls = {}
  MaxRequests = 2
  MaxProcs = 7
  MaxRounds = 2
  Settings <- AllSettings
  s1 = s1
  x1 = x1

INVARIANT TypeOK
INVARIANT TrackingIsExact
INVARIANT StopEndsBuild
INVARIANT QuietIsSettled
PROPERTY ComesToRest
PROPERTY FollowsLifeCycle

\* Nothing more happens once every request is served and the task is at rest.
CHECK_DEADLOCK FALSE
