CONSTANTS
  Dispatches = {d1, d2}
  Members = {m1, m2}
  Host = Host
  None = None
  MaxDispatchesPerTurn = 2
  MaxPeerCallsPerTurn = 2
  MaxSyncConsultDepth = 2
  MaxAutoMentionHops = 1
  AllowNesting = TRUE
  MaxDepth = 2
  ShortTimeout = TRUE
SPECIFICATION FairSpec
CHECK_DEADLOCK FALSE
PROPERTIES EveryDispatchEnds
