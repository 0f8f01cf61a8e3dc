\* Queued turns only, one process exit.
CONSTANTS
  DurableTurns = {a, b, c}
  DirectTurns = {}
  GoalTurns = {}
  None = None
  MaxQuestions = 1
  MaxTimers = 2
  MaxRestarts = 1
SPECIFICATION Spec
SYMMETRY Symmetry
CHECK_DEADLOCK FALSE
INVARIANTS
  TypeOK
  NoLostTurn
  SingleExecutor
  QueueOrder
PROPERTIES
  LaneSpec
  FinalRowsStay
