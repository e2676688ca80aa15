SPECIFICATION Spec
CONSTANTS
  s1 = s1
  s2 = s2
  r1 = r1
  None = None
  Servers = {s1, s2}
  Configured = {s1}
  ProactivePull = FALSE
  RegIds = {r1}
  WatchKinds = {"created", "deleted"}
  Numbering = "counting"
  MaxRequests = 2
  MaxLives = 2
PROPERTY AnswersReachTheAsker
CHECK_DEADLOCK FALSE
