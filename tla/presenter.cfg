SPECIFICATION PresenterSpec
CONSTANTS
  Adaptive = TRUE
  Reversible = TRUE
  Frames <- HoldFrames
  Confirm = 2
  BlankHold = 3
  ScrollHold = 4
  MaxTicks = 2
  MaxUnits = 2
  MaxEpoch = 1
  MaxFlips = 3
  Ids = {1, 2, 3}
  Capacity = 2
  Recent = 2
  MaxAge = 2
  MaxTaken = 2
INVARIANTS TransactionConsistent ImageIsShown FullscreenIsKnown PendingIsBounded RecoveryEarned NotificationsAccounted
PROPERTY OutputIsAtomic
