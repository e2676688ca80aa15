SPECIFICATION FairSpec
CONSTANTS
  s1 = s1
  s2 = s2
  p1 = p1
  p2 = p2
  Servers = {s1, s2}
  Pulls = {p1, p2}
  MaxLives = 2
  MaxDelayed = 2
  ProactivePull = TRUE
INVARIANT PushedByTheLiving
PROPERTY PullsEnd
CHECK_DEADLOCK FALSE
