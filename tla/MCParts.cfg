SPECIFICATION PartsSpec
CONSTANTS
  N = 3
  js = js
  jsx = jsx
  dotjs = dotjs
  dotjsx = dotjsx
  None = None
  Languages = {js, jsx}
  Extensions = {dotjs, dotjsx}
  MaxLength = 4
  MaxInsert = 2
  vue = vue
  vtsls = vtsls
  eslint = eslint
  Registered = {vtsls, eslint}
  Torn = Torn
  NotObject = NotObject
  Missing = Missing
  Bases <- SomeBases
  Locals <- SomeLocals
  MaxEdits = 2
  MaxAsked = 2
  MaxLives = 3
  MaxRetries = 3
  BaseDelay = 1
  MaxDelay = 3
  Window = 2
  LongestRun = 9
INVARIANTS
  RoutedAsConfigured TracksTheClient
  EveryBridgeRoutes LevelFollowsTheFiles
  NoHandlerStranded
  CrashLoopCapped OneRefundPerWindow BackoffSpreadsRestarts
PROPERTIES CrashLoopEnds ImplementsScheduler
CHECK_DEADLOCK FALSE
