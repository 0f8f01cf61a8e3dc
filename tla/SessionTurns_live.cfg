\* Two queued turns under fairness, one restart.
CONSTANTS
  DurableTurns = {a, b}
  DirectTurns = {}
  GoalTurns = {}
  None = None
  MaxQuestions = 1
  MaxTimers = 1
  MaxRestarts = 1
SPECIFICATION PatientSpec
CHECK_DEADLOCK FALSE
PROPERTY AcceptedIsServed
