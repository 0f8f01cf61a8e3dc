\* Two runs of a node, one window.
CONSTANTS
  Tasks = {t1, t2}
  NoTask = NoTask
  MaxWindows = 1
SPECIFICATION Spec
CHECK_DEADLOCK FALSE
PROPERTY MaterializedStays
