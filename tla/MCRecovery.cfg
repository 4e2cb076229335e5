CONSTANTS
  MARKET_PRICE = 1000
  STOP_PRICE <- LowestPrice
  MiniTick = 1
  Flows = {"restart", "restart_both", "restarts", "both"}
  NewRequests <- FlowsNew
  AmendRequests <- FlowsAmend
SPECIFICATION BoundedRecoverySpec
CHECK_DEADLOCK FALSE
INVARIANTS
  RestoredAsSaved
  CrossedOnlyByRestore
  OnlySellStopsStray
PROPERTIES
  CorruptOnlyByStop
  CallTerminates
