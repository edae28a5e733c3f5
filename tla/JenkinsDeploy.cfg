\* Two deploys, of tasks that changed the library or of one that did not.
CONSTANTS
  Tasks = {t1, t2, t3}
  Changed = {t1, t2}
  MaxDeploys = 2
  MaxBase = 2
SPECIFICATION Spec
INVARIANT TypeOK
INVARIANT PushedIsPublished
INVARIANT BuildsWhatItPublished
INVARIANT StatusIsFinal
PROPERTY BaseIsUntouched
PROPERTY EveryDeployEnds
CHECK_DEADLOCK FALSE
