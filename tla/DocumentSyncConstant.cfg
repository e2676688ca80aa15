SPECIFICATION Spec
CONSTANTS
  s1 = s1
  s2 = s2
  Servers = {s1, s2}
  Routed = {s1}
  Versioning = "constant"
  MaxTexts = 3
  MaxVersion = 3
PROPERTY VersionsClimb
