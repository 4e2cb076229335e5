CONSTANTS
  MARKET_PRICE = 1000
  STOP_PRICE <- LowestPrice
  MiniTick = 1
  Flows = {"auction"}
  NewRequests <- FlowsNew
  AmendRequests <- FlowsAmend
SPECIFICATION BoundedSpec
CHECK_DEADLOCK FALSE
PROPERTIES AuctionWithinBand
