SPECIFICATION FairSpec
CONSTANTS
  MaxBuffer = 2
  MaxRetries = 1
  MaxMessages = 3
  MaxCrashes = 1
  MaxInputs = 4
INVARIANTS OnlyCurrentChildSpeaks CurrentChildIsAlive OneStartAtATime RequestsAccountedFor DeliveredInOrder HandshakeFirst DocumentsInStep NoAbandonedCallBuffered
PROPERTIES StopsForGood KeepsRequestPromise StartsOrStops
CHECK_DEADLOCK FALSE
