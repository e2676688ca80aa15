SPECIFICATION Spec
CONSTANTS
  s1 = s1
  s2 = s2
  p1 = p1
  p2 = p2
  Servers = {s1, s2}
  Pulls = {p1, p2}
  MaxLives = 3
  MaxDelayed = 1
  ProactivePull = TRUE
INVARIANT RestartingHasNone
CHECK_DEADLOCK FALSE
