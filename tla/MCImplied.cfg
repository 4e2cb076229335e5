SPECIFICATION MCSpec
CONSTANTS
  Engines <- AllEngines
  Rule <- Rules
  Legs <- AllLegs
  Pips <- AllPips
  Tick <- AllTicks
  Factor = 10
  Requests <- AllFlows
  MARKET_PRICE <- Market
  MaxOrders = 5
INVARIANTS
  GroupUncrossed
  FillsAtBestPrice
  ImpliedCoversLegs
  PlanHolds
CHECK_DEADLOCK FALSE
