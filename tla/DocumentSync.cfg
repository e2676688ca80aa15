SPECIFICATION Spec
CONSTANTS
  s1 = s1
  s2 = s2
  Servers = {s1, s2}
  Routed = {s1}
  Versioning = "climbing"
  MaxTexts = 4
  MaxVersion = 4
INVARIANTS CopiesInStep ConvergesToDisk
PROPERTIES VersionsClimb EditsDuringReadKept
