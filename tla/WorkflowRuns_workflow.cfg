CONSTANTS
  Nodes = {"a", "b", "c", "d", "e"}
  Graphs <- MCGraphs
  Keys = {"k1", "k2"}
  NoKey = "none"
  Values = {"full", "empty"}
  Truthy = {"full"}
  NoValue = NoValue
  MaxCalls = 4
SPECIFICATION Spec
CHECK_DEADLOCK FALSE
INVARIANTS TypeOK SkippedForAReason OutputsSurvive
PROPERTIES AcyclicNeverBlocks UpstreamFirst ProgressKept WorkRunsDown CallEnds
