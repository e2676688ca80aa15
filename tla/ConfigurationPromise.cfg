SPECIFICATION ConfigSpec
CONSTANTS
  vue = vue
  vtsls = vtsls
  eslint = eslint
  Registered = {vtsls, eslint}
  Torn = Torn
  NotObject = NotObject
  Missing = Missing
  Bases <- SomeBases
  Locals <- NoLocals
  MaxEdits = 2
INVARIANT ChangesApply
CHECK_DEADLOCK FALSE
