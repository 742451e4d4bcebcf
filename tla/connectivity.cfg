CONSTANTS
  SERVER_UNAVAILABLE = 2
  ONLINE_CACHE = 1
  ACTIVE_DELAY = 2
  IDLE_DELAY = 3
  MaxChains = 2
  MaxPending = 1
SPECIFICATION FairSpec
CHECK_DEADLOCK FALSE
INVARIANT WakeIsArmed LoopLives
PROPERTY EventuallyPushed NoticesServer
