CONSTANTS
  MARKET_PRICE = 1000
  STOP_PRICE <- LowestPrice
  MiniTick = 1
  Flows = {"limit", "stop", "auction"}
  NewRequests <- FlowsNew
  AmendRequests <- FlowsAmend
SPECIFICATION BoundedSpec
CHECK_DEADLOCK FALSE
INVARIANTS
  TypeOK
  LInv
  BooksPointToLiveOrders
  NeverCrossed
  FokAllOrNothing
  StopsLeftBehind
  HeldOnlyInCall
PROPERTIES
  FillsFollowPriority
  CorruptOnlyByEndedStop
  AuctionPaysMakers
