CONSTANTS
  Thread = {a, b, c}
  List = {sem}
  PrioList = {}
  Level <- OneLevel
  Sem = sem
  Initial = 1
  MaxValue = 2
  Resets = {}
  Detaches = TRUE
  DetachUnarmed = FALSE
  Timed = {TRUE}
SPECIFICATION Spec
INVARIANTS ResumesThreads
CHECK_DEADLOCK FALSE
