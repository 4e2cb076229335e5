------------------------------ MODULE MCEngine ------------------------------
(***************************************************************************)
(* Engine for TLC: order flows, each a set of requests around one part of   *)
(* the engine, and the bound on the number of orders placed in it.          *)
(***************************************************************************)
EXTENDS Engine

CONSTANT Flows \* the order flows of the run; a behaviour has one of them

VARIABLES
  flow,  \* the order flow of this behaviour
  placed \* how many orders were given an id

Prices == {1, 2}

\* Below every price of the runs, as LLONG_MIN is in the code.
LowestPrice == -1000

\* An order as a client fills it in; it displays all of its quantity.
Request(side, tc, p, q) ==
  [DefaultOrder EXCEPT !.side = side, !.time_condition = tc, !.price = p,
                       !.quantity = q, !.display_quantity = q,
                       !.type = IF p = MARKET_PRICE THEN "MARKET" ELSE "LIMIT"]
BuyStop(r, trigger, limit) ==
  [r EXCEPT !.side = "BUY_STOP", !.buy_stop_trigger_price = trigger,
            !.buy_stop_limit_price = limit]
SellStop(r, trigger, limit) ==
  [r EXCEPT !.side = "SELL_STOP", !.sell_stop_trigger_price = trigger,
            !.sell_stop_limit_price = limit]
AsAmend(r) == [r EXCEPT !.order_action = "AMEND"]

\* Orders without stops, every time condition but AUCTION.
LimitFlow ==
  {Request(s, tc, p, q) : s \in Sides, tc \in TimeConditions \ {"AUCTION", "EXPIRY"},
                          p \in Prices \cup {MARKET_PRICE}, q \in 1 .. 2}
LimitAmends ==
  {AsAmend(Request(s, "GTC", p, q)) : s \in Sides, p \in Prices, q \in 1 .. 2}

\* Requests that handle_new and handle_amend turn down, one for each check.
BadRequests ==
  {Request("BUY", "GTC", 1, 0),
   [Request("SELL", "GTC", 1, 1) EXCEPT !.display_quantity = 2],
   [Request("BUY", "GTC", MARKET_PRICE, 1) EXCEPT !.type = "LIMIT"],
   BuyStop(Request("BUY", "GTC", 1, 1), 1, MARKET_PRICE),
   BuyStop(Request("BUY", "GTC", 1, 1), 2, 1),
   SellStop(Request("SELL", "GTC", 1, 1), 1, MARKET_PRICE),
   SellStop(Request("SELL", "GTC", 1, 1), 1, 2)}

\* Orders that wait in a book, and stops of one side in every time condition
\* that ends differently when a triggered stop meets it.
StopTimeConditions == {"GTC", "IOC", "FOK", "MAKER_ONLY_REPRICE"}
StopOrders ==
  {BuyStop(Request("BUY", tc, 1, 1), p[1], p[2]) : tc \in StopTimeConditions,
     p \in {p \in Prices \X Prices : p[1] <= p[2]}}
  \cup
  {SellStop(Request("SELL", tc, 1, 1), p[1], p[2]) : tc \in StopTimeConditions,
     p \in {p \in Prices \X Prices : p[1] >= p[2]}}
StopFlow ==
  {Request(s, "GTC", p, 1) : s \in Sides, p \in Prices}
  \cup StopOrders \cup BadRequests
StopAmends == {AsAmend(r) : r \in BadRequests \cup {r \in StopOrders : r.time_condition = "IOC"}}

\* Two-sided stops among resting orders.
BothStops ==
  {[Request("BUY_SELL_STOP", tc, 1, 1) EXCEPT
      !.buy_stop_trigger_price = b[1], !.buy_stop_limit_price = b[2],
      !.sell_stop_trigger_price = a[1], !.sell_stop_limit_price = a[2]] :
     tc \in {"GTC", "IOC"},
     b \in {p \in Prices \X Prices : p[1] <= p[2]},
     a \in {p \in Prices \X Prices : p[1] >= p[2]}}
BothFlow ==
  {Request(s, "GTC", p, 1) : s \in Sides, p \in Prices} \cup BothStops

\* Repo prices of both signs.  An auction order has a price that takes every
\* order of the other side and a band inside it, as the auction client sends it.
RepoPrices == {-1, 1, 2}
AuctionOrders ==
  {[Request(s, "AUCTION", IF s = "BUY" THEN 10 ELSE -10, q) EXCEPT
      !.buy_stop_limit_price = 1, !.sell_stop_limit_price = -1] :
     s \in Sides, q \in 1 .. 2}
AuctionFlow ==
  {Request(s, "GTC", p, 1) : s \in Sides, p \in RepoPrices}
  \cup {BuyStop(Request("BUY", "GTC", 1, 1), 2, 2), SellStop(Request("SELL", "GTC", 1, 1), -1, -1)}
  \cup AuctionOrders
  \cup {BuyStop(Request("BUY", "AUCTION", 1, 1), 2, 2)}

\* Around a restart: orders of both sides, and one-sided stops that rest, that are
\* cut off when they fire, and that are repriced; or a two-sided stop; or, around
\* several restarts, buy stops that rest.
RestartFlow ==
  {Request(s, "GTC", p, 1) : s \in Sides, p \in Prices}
  \cup {BuyStop(Request("BUY", tc, 1, 1), 2, 2) : tc \in {"GTC", "IOC", "MAKER_ONLY_REPRICE"}}
  \cup {SellStop(Request("SELL", "GTC", 1, 1), 1, 1)}
RestartBothFlow ==
  {Request(s, "GTC", p, 1) : s \in Sides, p \in Prices}
  \cup {[Request("BUY_SELL_STOP", "GTC", 1, 1) EXCEPT
           !.buy_stop_trigger_price = 2, !.buy_stop_limit_price = 2,
           !.sell_stop_trigger_price = 1, !.sell_stop_limit_price = 1]}
RestartsFlow ==
  {Request(s, "GTC", p, 1) : s \in Sides, p \in Prices}
  \cup {BuyStop(Request("BUY", "GTC", 1, 1), 2, 2)}

\* For a market-data feed: limit orders that rest or are cut off, repriced
\* post-only orders and stops; or market orders among limit orders.
FeedFlow ==
  {Request(s, "GTC", p, q) : s \in Sides, p \in Prices, q \in 1 .. 2}
  \cup {Request(s, "IOC", 2, 2) : s \in Sides}
  \cup {Request("BUY", "MAKER_ONLY_REPRICE", 2, 1)}
  \cup {BuyStop(Request("BUY", "GTC", 1, 1), 2, 2), SellStop(Request("SELL", "IOC", 1, 1), 1, 1)}
MarketFlow ==
  {Request(s, "GTC", p, q) : s \in Sides, p \in Prices \cup {MARKET_PRICE}, q \in 1 .. 2}

\* An amend that is turned down, of an order that may be there.
BadAmend == AsAmend(Request("SELL", "GTC", 1, 0))

BuyAmends == {AsAmend(Request("BUY", "GTC", p, 1)) : p \in Prices}

-----------------------------------------------------------------------------
\* The requests of a flow, and the bound on the orders placed in it, the ones
\* that amends replace included.
MCNewRequests(f) ==
  CASE f = "limit" -> LimitFlow
    [] f = "stop" -> StopFlow
    [] f = "both" -> BothFlow
    [] f = "auction" -> AuctionFlow
    [] f = "restart" -> RestartFlow
    [] f = "restart_both" -> RestartBothFlow
    [] f = "restarts" -> RestartsFlow
    [] f = "feed" -> FeedFlow
    [] f = "market" -> MarketFlow
MCAmendRequests(f) ==
  CASE f = "limit" -> LimitAmends
    [] f = "stop" -> StopAmends
    [] f \in {"restart", "restart_both"} -> BuyAmends
    [] f = "feed" -> BuyAmends \cup {BadAmend}
    [] f \in {"both", "auction", "market", "restarts"} -> {}
MaxOrders(f) == IF f \in {"both", "auction"} THEN 4 ELSE 3

FlowsNew == UNION {MCNewRequests(f) : f \in Flows}
FlowsAmend == UNION {MCAmendRequests(f) : f \in Flows}

\* Requests with the orders of the flow.  The bound is on the ids that orders
\* take: cancels are never bounded.  To the engine an id that is gone is like one
\* that never was; only the market-data book may tell them apart.
Sent ==
  LET ids == IF flow \in {"feed", "market"} THEN 1 .. nextId ELSE DOMAIN odrMap \cup {nextId}
      orders == MCNewRequests(flow)
                \cup {[r EXCEPT !.order_id = id] : r \in MCAmendRequests(flow), id \in ids}
  IN {CancelRequest(id) : id \in ids}
     \cup (IF placed < MaxOrders(flow) THEN orders ELSE {})

\* Next, with these requests.
FlowNext ==
  /\ ~corrupt
  /\ \/ \E r \in Sent : Handle(r) \/ HandleAuctionStop(r)
     \/ Step

Counted == placed' = IF pc = "new" THEN placed + nextId' - nextId ELSE placed

BoundedInit == Init /\ placed = 0 /\ flow \in Flows
BoundedNext == FlowNext /\ Counted /\ UNCHANGED flow
BoundedSpec == BoundedInit /\ [][BoundedNext]_<<vars, placed, flow>> /\ Fairness
=============================================================================
