\* Two approval requests and a question, in two sessions.
CONSTANTS
  s1 = s1
  s2 = s2
  act = act
  tool = tool
  proj = proj
  q1 = q1
  Requests = {r1, r2}
  Sessions = {s1, s2}
  Actions = {act}
  Tools = {tool}
  Projects = {proj}
  ProjectOf <- OneProject
  Global = Global
  Asks <- TwoAsks
  None = None
  Questions = {q1}
  SessionOf <- QuestionOfFirst
SPECIFICATION FairSpec
CHECK_DEADLOCK FALSE
INVARIANTS
  TypeOK
PROPERTIES
  NothingAllowedByHalf
  QuestionSpec
  AskTwiceHolds
  EveryRequestAnswered
