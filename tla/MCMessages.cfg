SPECIFICATION MessagesSpec
CONSTANTS
  s1 = s1
  s2 = s2
  r1 = r1
  None = None
  Servers = {s1, s2}
  Configured = {s1, s2}
  n1 = n1
  n2 = n2
  RequestIds = {n1, n2}
  Reserved = {n2}
  ProactivePull = TRUE
  RegIds = {r1}
  WatchKinds = {"created", "deleted"}
  Numbering = "unique"
  MaxRequests = 2
  MaxLives = 2
INVARIANTS ClientHears AskersWillHear WatchersAreOfTheLiving
SYMMETRY ServerSymmetry
CHECK_DEADLOCK FALSE
