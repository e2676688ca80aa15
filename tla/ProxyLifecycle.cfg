SPECIFICATION FairSpec
CONSTANTS
  s1 = s1
  s2 = s2
  s3 = s3
  q1 = q1
  q2 = q2
  Servers = {s1, s2, s3}
  Shutdowns = {q1, q2}
  MaxSpawns = 3
INVARIANTS ResolvesLast ServesWhileAnyCan
PROPERTIES ExitOfOneIsSurvived AnsweredUnlessTornDown TeardownEnds
CHECK_DEADLOCK FALSE
