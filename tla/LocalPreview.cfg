\* Two previews, of one task or of two, two ports.
CONSTANTS
  Tasks = {t1, t2}
  Ports = {p1, p2}
  NoPort = NoPort
  MaxStarts = 2
SPECIFICATION Spec
INVARIANT TypeOK
INVARIANT LiveIsReachable
INVARIANT FailedIsDown
INVARIANT BuildingIsBuilt
PROPERTY EveryPreviewSettles
