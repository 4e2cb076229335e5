CONSTANTS
  MARKET_PRICE = 1000
  STOP_PRICE <- LowestPrice
  MiniTick = 1
  Flows = {"feed", "market"}
  MaxCuts = 1
  QuantityModulus = 256
  NewRequests <- FlowsNew
  AmendRequests <- FlowsAmend
SPECIFICATION BoundedFeedSpec
CHECK_DEADLOCK FALSE
INVARIANTS
  MdFollowsEngine
