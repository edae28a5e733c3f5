\* A deploy that fails between writing the bump and committing it, and the next one.
CONSTANTS
  Tasks = {t1}
  Changed = {t1}
  MaxDeploys = 2
  MaxBase = 1
SPECIFICATION Spec
INVARIANT BumpsAreCommitted
CHECK_DEADLOCK FALSE
