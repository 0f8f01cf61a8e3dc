CONSTANTS
  Dispatches = {d1, d2, d3}
  Members = {m1, m2, m3}
  Host = Host
  None = None
  MaxDispatchesPerTurn = 2
  MaxPeerCallsPerTurn = 2
  MaxSyncConsultDepth = 2
  MaxAutoMentionHops = 2
  AllowNesting = FALSE
  MaxDepth = 1
  ShortTimeout = FALSE
SPECIFICATION Spec
CHECK_DEADLOCK FALSE
SYMMETRY Symmetry
INVARIANTS TypeOK NoRing SettledIsClean NobodyRunsForTheGone BudgetsHold
PROPERTIES CanceledNeverStarts 
