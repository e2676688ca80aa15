SPECIFICATION StayingSpec
CONSTANTS
  s1 = s1
  s2 = s2
  q1 = q1
  Servers = {s1, s2}
  Shutdowns = {q1}
  MaxSpawns = 2
PROPERTIES ShutdownAnswered
CHECK_DEADLOCK FALSE
