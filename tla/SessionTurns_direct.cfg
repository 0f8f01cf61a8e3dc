\* Queued turns and a turn sent past the queue.
CONSTANTS
  DurableTurns = {a, b}
  DirectTurns = {d}
  GoalTurns = {}
  None = None
  MaxQuestions = 1
  MaxTimers = 1
  MaxRestarts = 0
SPECIFICATION Spec
CHECK_DEADLOCK FALSE
SYMMETRY Symmetry
INVARIANTS
  RunningHasOwner
