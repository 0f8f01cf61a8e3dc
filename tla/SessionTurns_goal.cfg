\* A queued turn and a goal with two turns.
CONSTANTS
  DurableTurns = {a}
  DirectTurns = {}
  GoalTurns = {g, h}
  None = None
  MaxQuestions = 0
  MaxTimers = 1
  MaxRestarts = 0
SPECIFICATION Spec
CHECK_DEADLOCK FALSE
SYMMETRY Symmetry
INVARIANTS
  StartupExclusive
  OwnerIsLive
PROPERTY NoLostWakeup
