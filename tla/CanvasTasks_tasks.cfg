\* Two runs of a node, two windows.
CONSTANTS
  Tasks = {t1, t2}
  NoTask = NoTask
  MaxWindows = 2
SPECIFICATION FairSpec
CHECK_DEADLOCK FALSE
INVARIANTS TypeOK OwnersTracked WindowLearns
PROPERTIES EndedStays TaskEnds
