SPECIFICATION FairSpec
CONSTANTS
  Debounce = 2
  MaxWait = 3
  Files = {f1, f2}
  MaxPending = 1
  MaxChanges = 4
INVARIANTS LastToldIsCurrent NothingForgotten WaitIsBounded
PROPERTIES EventsTakenUp FlushesSpacedOut
CHECK_DEADLOCK FALSE
