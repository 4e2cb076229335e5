------------------------------- MODULE Engine -------------------------------
(***************************************************************************)
(* The matching engine of one instrument without impliers                  *)
(* (src/matching/inc/matching/engine.hpp, order.hpp).                      *)
(*                                                                         *)
(* engine::handle runs to completion under the engine's spin mutex.  Each  *)
(* call is a chain of steps here: pc names the point the call has reached, *)
(* and a new call starts only at pc = "idle", so the steps of one call are *)
(* taken in the order of the code.  An order, wherever it is stored, is    *)
(* the C++ struct reduced to the fields the engine reads or writes.        *)
(***************************************************************************)
EXTENDS Integers, Sequences, FiniteSets

CONSTANTS
  MARKET_PRICE, \* order::MARKET_PRICE, the "no price" sentinel (LLONG_MAX)
  STOP_PRICE,   \* order::STOP_PRICE, the price of a parked stop (LLONG_MIN)
  MiniTick,     \* engine::_mini_tick
  NewRequests,  \* the orders clients send with order_action NEW
  AmendRequests \* the orders clients send with order_action AMEND

Sides == {"BUY", "SELL"}
StopSides == {"BUY_STOP", "SELL_STOP", "BUY_SELL_STOP"}
Types == {"LIMIT", "MARKET"}
TimeConditions ==
  {"GTC", "IOC", "FOK", "MAKER_ONLY", "MAKER_ONLY_REPRICE", "AUCTION", "EXPIRY"}
Actions == {"NEW", "AMEND", "CANCEL"}
LiveStates == {"OPEN", "PARTIAL_FILL"}
DoneStates ==
  {"FILLED", "CANCELED_BY_USER", "CANCELED_BY_AMEND",
   "CANCELED_BY_MARKET_ORDER_NOTHING_MATCH", "CANCELED_ALL_BY_IOC",
   "CANCELED_PARTIAL_BY_IOC", "CANCELED_BY_FOK", "CANCELED_BY_MAKER_ONLY",
   "CANCELED_ALL_BY_AUCTION", "CANCELED_PARTIAL_BY_AUCTION"}
RejectStates ==
  {"REJECT_CANCEL_ORDER_ID_NOT_FOUND", "REJECT_AMEND_ORDER_ID_NOT_FOUND",
   "REJECT_DISPLAY_QUANTITY_LARGER_THAN_QUANTITY",
   "REJECT_BUY_STOP_TRIGGER_LARGE_THAN_STOP_LIMIT",
   "REJECT_SELL_STOP_TRIGGER_LESS_THAN_STOP_LIMIT", "REJECT_QUANTITY_ZERO",
   "REJECT_LIMITE_ORDER_WITH_MARKET_PRICE",
   "REJECT_AUCTION_SUPPORT_BUY_SELL_ONLY"}
States == LiveStates \cup DoneStates \cup RejectStates

\* struct order: the fields the engine uses.
Order ==
  [order_id : Nat, side : Sides \cup StopSides, type : Types,
   time_condition : TimeConditions, order_action : Actions, price : Int,
   quantity : Nat, display_quantity : Nat, remain_quantity : Nat,
   last_match_price : Int, last_match_quantity : Nat,
   buy_stop_trigger_price : Int, buy_stop_limit_price : Int,
   sell_stop_trigger_price : Int, sell_stop_limit_price : Int,
   order_state : States, matched_type : {"MAKER", "TAKER"}]

\* order::order(): the default order a client fills in.
DefaultOrder ==
  [order_id |-> 0, side |-> "BUY", type |-> "LIMIT", time_condition |-> "GTC",
   order_action |-> "NEW", price |-> MARKET_PRICE, quantity |-> 0,
   display_quantity |-> 0, remain_quantity |-> 0, last_match_price |-> 0,
   last_match_quantity |-> 0, buy_stop_trigger_price |-> 0,
   buy_stop_limit_price |-> MARKET_PRICE, sell_stop_trigger_price |-> 0,
   sell_stop_limit_price |-> MARKET_PRICE, order_state |-> "OPEN",
   matched_type |-> "MAKER"]

ASSUME SentinelAssumption == MARKET_PRICE \in Int /\ STOP_PRICE \in Int
ASSUME TickAssumption == MiniTick \in Nat \ {0}
\* A client sends a struct with no fills of its own in it.
ASSUME RequestAssumption ==
  /\ NewRequests \subseteq {r \in Order : r.order_action = "NEW" /\ r.remain_quantity = 0}
  /\ AmendRequests \subseteq {r \in Order : r.order_action = "AMEND" /\ r.remain_quantity = 0}

VARIABLES
  odrMap,    \* _odr_map: partial function from order ids to orders
  book,      \* _bid_book ("BUY") and _ask_book ("SELL"): sets of <<price, id>>
  stopBook,  \* _bid_stop_book and _ask_stop_book: sets of <<trigger, id>>
  nextId,    \* _id
  isAuction, \* _is_auction
  cbRecords, \* _cb_records
  mutex,     \* TRUE while _mutex is held
  emitted,   \* the orders passed to _callback by the last step
  corrupt,   \* the code has run into undefined behaviour
  pc,        \* where the call in progress is; "idle" between calls
  o,         \* the order& argument of handle
  taker,     \* id of the triggered stop being matched, 0 when it is o
  mside,     \* the side on which the taker trades
  sweep,     \* which trigger_*_stop runs: "BUY" or "SELL"
  due,       \* odr_list: stop entries taken out of the stop book, to be matched
  left,      \* remain_quantity of fok_match: what its records do not cover yet
  plan       \* records of fok_match: the maker's entry, the matched quantity and
             \* what was left to cover after it

storeVars == <<odrMap, book, stopBook, nextId>>
lockVars == <<isAuction, mutex>>
fokVars == <<left, plan>>
matchVars == <<taker, mside, left, plan>>
sweepVars == <<sweep, due>>
engineVars == <<odrMap, book, stopBook, nextId, isAuction, cbRecords, mutex,
                emitted, corrupt>>
callVars == <<pc, o, taker, mside, sweep, due, left, plan>>
vars == <<engineVars, callVars>>

-----------------------------------------------------------------------------
(* Partial functions, books and their orders.                              *)

Put(f, k, x) == [i \in DOMAIN f \cup {k} |-> IF i = k THEN x ELSE f[i]]
Drop(f, k) == [i \in DOMAIN f \ {k} |-> f[i]]

Opposite(s) == IF s = "BUY" THEN "SELL" ELSE "BUY"

\* Mistake: the youngest order of a level first.
AheadNewestFirst(s, e, f) ==
  \/ IF s = "BUY" THEN e[1] > f[1] ELSE e[1] < f[1]
  \/ e[1] = f[1] /\ e[2] > f[2]

\* Key order of bid_book_type (std::greater) and ask_book_type (std::less);
\* inside a level the id_order_map runs by id.
Ahead(s, e, f) ==
  \/ IF s = "BUY" THEN e[1] > f[1] ELSE e[1] < f[1]
  \/ e[1] = f[1] /\ e[2] < f[2]

\* Key order of the stop books, which is the opposite one.
StopAhead(s, e, f) == Ahead(Opposite(s), e, f)

\* e is what _local points to after reset on the book entries b of side s.
IsTop(s, b, e) == e \in b /\ \A f \in b : f = e \/ Ahead(s, e, f)

PriceOf(e) == odrMap[e[2]].price

\* Mistake: equal prices do not trade.
CrossesStrictly(s, limit, p) ==
  \/ limit = MARKET_PRICE
  \/ IF s = "BUY" THEN p < limit ELSE p > limit

\* ~cmp(limit, p): a taker on side s with that limit trades at price p.
Crosses(s, limit, p) ==
  \/ limit = MARKET_PRICE
  \/ IF s = "BUY" THEN p <= limit ELSE p >= limit

StopLimit(s, ord) ==
  IF s = "BUY" THEN ord.buy_stop_limit_price ELSE ord.sell_stop_limit_price

\* A stop of side s with this trigger fires at best price p of the other side.
Fires(s, trigger, p) == IF s = "BUY" THEN p >= trigger ELSE p <= trigger

\* order::update_display
UpdateDisplay(ord) ==
  [ord EXCEPT !.display_quantity =
     IF @ < ord.remain_quantity THEN @ ELSE ord.remain_quantity]

\* engine::match: ord fills q at price p.
Match(ord, mtype, p, q) ==
  UpdateDisplay(
    [ord EXCEPT !.matched_type = mtype, !.last_match_price = p,
                !.last_match_quantity = q, !.remain_quantity = @ - q,
                !.order_state = IF ord.remain_quantity = q THEN "FILLED"
                                ELSE "PARTIAL_FILL"])

\* engine::callback, for the orders cbs in this order: an auction keeps them.
Callback(cbs) ==
  IF isAuction
  THEN cbRecords' = cbRecords \o cbs /\ emitted' = <<>>
  ELSE emitted' = cbs /\ UNCHANGED cbRecords

Silent == emitted' = <<>> /\ UNCHANGED cbRecords

\* erase_from_normal_book, erase_buy_stop and erase_sell_stop dereference
\* find(key) unchecked: with no level at that key the behaviour is undefined.
HasLevel(b, key) == \E e \in b : e[1] = key

\* Some entry of a book, a stop book or odr_list points to an order that is no
\* longer in _odr_map m: its next use is undefined, and the model stops here.
Dangling(m, b) ==
  \E s \in Sides : \E e \in b[s] \cup stopBook[s] \cup due : e[2] \notin DOMAIN m

-----------------------------------------------------------------------------
Init ==
  /\ odrMap = [i \in {} |-> DefaultOrder]
  /\ book = [s \in Sides |-> {}]
  /\ stopBook = [s \in Sides |-> {}]
  /\ nextId = 1
  /\ isAuction = FALSE
  /\ cbRecords = <<>>
  /\ mutex = FALSE
  /\ emitted = <<>>
  /\ corrupt = FALSE
  /\ pc = "idle"
  /\ o = DefaultOrder
  /\ taker = 0
  /\ mside = "BUY"
  /\ sweep = "BUY"
  /\ due = {}
  /\ left = 0
  /\ plan = <<>>

\* The call frame when a call is over; the C++ locals are gone.
NoCall ==
  /\ o' = DefaultOrder
  /\ taker' = 0
  /\ mside' = "BUY"
  /\ sweep' = "BUY"
  /\ due' = {}
  /\ left' = 0
  /\ plan' = <<>>

-----------------------------------------------------------------------------
(* engine::handle up to the dispatch on order_action.                      *)

CancelRequest(id) ==
  [DefaultOrder EXCEPT !.order_action = "CANCEL", !.order_id = id]

\* An amend or a cancel names an order in _odr_map, one that is not there any more,
\* or one that was never there.
Requests ==
  LET ids == 1 .. nextId
  IN NewRequests
     \cup {[r EXCEPT !.order_id = id] : r \in AmendRequests, id \in ids}
     \cup {CancelRequest(id) : id \in ids}

AuctionStop(r) == r.time_condition = "AUCTION" /\ r.side \in StopSides

\* The early return of an auction order with a stop side does not unlock.
HandleAuctionStop(r) ==
  /\ pc = "idle" /\ ~mutex
  /\ AuctionStop(r)
  /\ mutex' = TRUE
  /\ emitted' = <<[r EXCEPT !.order_state = "REJECT_AUCTION_SUPPORT_BUY_SELL_ONLY"]>>
  /\ UNCHANGED <<storeVars, isAuction, cbRecords, corrupt, callVars>>

Handle(r) ==
  /\ pc = "idle" /\ ~mutex
  /\ ~AuctionStop(r)
  /\ mutex' = TRUE
  /\ isAuction' = (r.time_condition = "AUCTION")
  /\ o' = r
  /\ pc' = CASE r.order_action = "NEW" -> "new"
             [] r.order_action = "CANCEL" -> "cancel"
             [] r.order_action = "AMEND" -> "amend"
  /\ Silent
  /\ UNCHANGED <<storeVars, corrupt, matchVars, sweepVars>>

-----------------------------------------------------------------------------
(* handle_new.                                                             *)

\* The checks of handle_new in their order.
RejectReason(ord) ==
  LET buyStop == ord.side \in {"BUY_STOP", "BUY_SELL_STOP"}
      sellStop == ord.side \in {"SELL_STOP", "BUY_SELL_STOP"}
  IN IF ord.quantity = 0 THEN "REJECT_QUANTITY_ZERO"
     ELSE IF ord.display_quantity > ord.quantity
       THEN "REJECT_DISPLAY_QUANTITY_LARGER_THAN_QUANTITY"
     ELSE IF ord.side \in Sides /\ ord.type = "LIMIT" /\ ord.price = MARKET_PRICE
       THEN "REJECT_LIMITE_ORDER_WITH_MARKET_PRICE"
     ELSE IF buyStop /\ ord.buy_stop_limit_price = MARKET_PRICE
       THEN "REJECT_LIMITE_ORDER_WITH_MARKET_PRICE"
     ELSE IF buyStop /\ ord.buy_stop_trigger_price > ord.buy_stop_limit_price
       THEN "REJECT_BUY_STOP_TRIGGER_LARGE_THAN_STOP_LIMIT"
     ELSE IF sellStop /\ ord.sell_stop_limit_price = MARKET_PRICE
       THEN "REJECT_LIMITE_ORDER_WITH_MARKET_PRICE"
     ELSE IF sellStop /\ ord.sell_stop_trigger_price < ord.sell_stop_limit_price
       THEN "REJECT_SELL_STOP_TRIGGER_LESS_THAN_STOP_LIMIT"
     ELSE "NONE"

\* Past the quantity checks a BUY or SELL has its id already, and a stop the
\* price of a parked one.
QuantityOk(ord) == ord.quantity # 0 /\ ord.display_quantity <= ord.quantity
TakesId(ord) == ord.side \in Sides /\ QuantityOk(ord)

RejectNew ==
  /\ pc = "new"
  /\ RejectReason(o) # "NONE"
  /\ o' = [o EXCEPT !.order_state = RejectReason(o), !.remain_quantity = 0,
                    !.order_id = IF TakesId(o) THEN nextId ELSE 0,
                    !.price = IF o.side \in StopSides /\ QuantityOk(o)
                              THEN STOP_PRICE ELSE @]
  /\ nextId' = IF TakesId(o) THEN nextId + 1 ELSE nextId
  /\ Callback(<<o'>>)
  /\ pc' = "done"
  /\ UNCHANGED <<odrMap, book, stopBook, lockVars, corrupt, matchVars, sweepVars>>

InitNewOrder(ord) ==
  [ord EXCEPT !.order_id = nextId, !.remain_quantity = ord.quantity,
              !.order_state = "OPEN"]

\* Mistake: a fill-or-kill order goes to normal_match.
StartMatchNoFok(s, ord) ==
  mside' = s /\ left' = ord.remain_quantity /\ plan' = <<>> /\ pc' = "match"

\* The choice between fok_match and normal_match for ord, trading on side s.
StartMatch(s, ord) ==
  /\ mside' = s
  /\ left' = ord.remain_quantity
  /\ plan' = <<>>
  /\ pc' = IF ord.time_condition = "FOK" THEN "fok" ELSE "match"

\* A BUY or SELL goes straight to the opposite book.
NewBuySell ==
  /\ pc = "new"
  /\ RejectReason(o) = "NONE"
  /\ o.side \in Sides
  /\ o' = InitNewOrder(o)
  /\ nextId' = nextId + 1
  /\ StartMatch(o.side, o')
  /\ Silent
  /\ UNCHANGED <<odrMap, book, stopBook, lockVars, corrupt, taker, sweepVars>>

\* best_ask for a buy stop, best_bid for a sell stop, has reached the trigger.
Triggered(s, trigger) ==
  \E e \in book[Opposite(s)] :
    /\ IsTop(Opposite(s), book[Opposite(s)], e)
    /\ Fires(s, trigger, PriceOf(e))

\* A stop whose trigger is reached is matched at once, at its limit price.
StopNow(s) ==
  /\ o' = [InitNewOrder(o) EXCEPT !.price = StopLimit(s, o)]
  /\ StartMatch(s, o')
  /\ Silent
  /\ UNCHANGED <<odrMap, stopBook>>

\* The stop books a stop order waits in, and its entry there.
StopEntry(s, ord) ==
  IF s = "BUY" THEN <<ord.buy_stop_trigger_price, ord.order_id>>
  ELSE <<ord.sell_stop_trigger_price, ord.order_id>>
ParkedSides(ord) ==
  CASE ord.side = "BUY_STOP" -> {"BUY"}
    [] ord.side = "SELL_STOP" -> {"SELL"}
    [] ord.side = "BUY_SELL_STOP" -> Sides

\* A stop that waits goes to _odr_map and to the its stop books.
Park ==
  /\ o' = [InitNewOrder(o) EXCEPT !.price = STOP_PRICE]
  /\ odrMap' = Put(odrMap, nextId, o')
  /\ stopBook' = [s \in Sides |-> IF s \in ParkedSides(o)
                                  THEN stopBook[s] \cup {StopEntry(s, o')}
                                  ELSE stopBook[s]]
  /\ Callback(<<o'>>)
  /\ pc' = "done"
  /\ UNCHANGED <<mside, fokVars>>

NewBuyStop ==
  /\ pc = "new"
  /\ RejectReason(o) = "NONE"
  /\ o.side = "BUY_STOP"
  /\ IF Triggered("BUY", o.buy_stop_trigger_price) THEN StopNow("BUY") ELSE Park
  /\ nextId' = nextId + 1
  /\ UNCHANGED <<book, lockVars, corrupt, taker, sweepVars>>

NewSellStop ==
  /\ pc = "new"
  /\ RejectReason(o) = "NONE"
  /\ o.side = "SELL_STOP"
  /\ IF Triggered("SELL", o.sell_stop_trigger_price) THEN StopNow("SELL") ELSE Park
  /\ nextId' = nextId + 1
  /\ UNCHANGED <<book, lockVars, corrupt, taker, sweepVars>>

\* Both sides: the sell side is also taken when there is no bid at all.
NewBuySellStop ==
  /\ pc = "new"
  /\ RejectReason(o) = "NONE"
  /\ o.side = "BUY_SELL_STOP"
  /\ IF Triggered("BUY", o.buy_stop_trigger_price) THEN StopNow("BUY")
     ELSE IF book["BUY"] = {} \/ Triggered("SELL", o.sell_stop_trigger_price)
       THEN StopNow("SELL")
     ELSE Park
  /\ nextId' = nextId + 1
  /\ UNCHANGED <<book, lockVars, corrupt, taker, sweepVars>>

-----------------------------------------------------------------------------
(* matcher::normal_match and matcher::fok_match, one iteration a step.     *)

Taker == IF taker = 0 THEN o ELSE odrMap[taker]
OppBook == book[Opposite(mside)]

\* The taker becomes ord; m is _odr_map with the other changes of the step.
SetTaker(m, ord) ==
  /\ odrMap' = IF taker = 0 THEN m ELSE Put(m, taker, ord)
  /\ o' = IF taker = 0 THEN ord ELSE o

\* matcher::top: e is the entry the taker would trade with next.
TopOpposite(e) == IsTop(Opposite(mside), OppBook, e)
Crossing(e) == TopOpposite(e) /\ Crosses(mside, Taker.price, PriceOf(e))
NoneCrosses ==
  \/ OppBook = {}
  \/ \E e \in OppBook : TopOpposite(e) /\ ~Crosses(mside, Taker.price, PriceOf(e))

\* matched_id is the next id; maker_match, with iterator::erase of a filled
\* maker, then taker_match.  A taker that meets its own entry is written after
\* its memory is freed.
Fill(e, q) ==
  LET maker == odrMap[e[2]]
      m == Match(maker, "MAKER", maker.price, q)
      t == Match(Taker, "TAKER", maker.price, q)
      rest == IF m.remain_quantity = 0 THEN Drop(odrMap, e[2]) ELSE Put(odrMap, e[2], m)
  IN /\ book' = IF m.remain_quantity = 0
                THEN [book EXCEPT ![Opposite(mside)] = @ \ {e}] ELSE book
     /\ SetTaker(rest, t)
     /\ nextId' = nextId + 1
     /\ Callback(<<m, t>>)
     /\ corrupt' = (e[2] = taker \/ Dangling(rest, book'))

\* Mistake: the whole maker is taken.
MatchedQuantityOfMaker(avail, want) == avail

\* The smaller of what the maker has and what the taker wants.
MatchedQuantity(avail, want) == IF avail < want THEN avail ELSE want

MatchTop ==
  /\ pc = "match"
  /\ Taker.remain_quantity # 0
  /\ Taker.time_condition \notin {"MAKER_ONLY", "MAKER_ONLY_REPRICE"}
  /\ \E e \in OppBook :
       /\ Crossing(e)
       /\ Fill(e, MatchedQuantity(odrMap[e[2]].remain_quantity, Taker.remain_quantity))
  /\ UNCHANGED <<stopBook, lockVars, pc, matchVars, sweepVars>>

\* The while loop of normal_match ends with nothing left to match.
MatchDone ==
  /\ pc = "match"
  /\ Taker.remain_quantity = 0
  /\ pc' = "matched"
  /\ Silent
  /\ UNCHANGED <<storeVars, lockVars, corrupt, o, matchVars, sweepVars>>

\* The taker ends in state st without going to a book.
CancelTaker(st) ==
  /\ SetTaker(odrMap, [Taker EXCEPT !.order_state = st])
  /\ Callback(<<[Taker EXCEPT !.order_state = st]>>)
  /\ pc' = "matched"
  /\ UNCHANGED <<book, stopBook, nextId, lockVars, corrupt, matchVars, sweepVars>>

CancelMakerOnly ==
  /\ pc = "match"
  /\ Taker.remain_quantity # 0
  /\ Taker.time_condition = "MAKER_ONLY"
  /\ \E e \in OppBook : Crossing(e)
  /\ CancelTaker("CANCELED_BY_MAKER_ONLY")

CancelRemainder ==
  /\ pc = "match"
  /\ Taker.remain_quantity # 0
  /\ NoneCrosses
  /\ LET all == Taker.quantity = Taker.remain_quantity
     IN \/ /\ Taker.time_condition = "IOC"
           /\ CancelTaker(IF all THEN "CANCELED_ALL_BY_IOC" ELSE "CANCELED_PARTIAL_BY_IOC")
        \/ /\ Taker.time_condition = "AUCTION"
           /\ CancelTaker(IF all THEN "CANCELED_ALL_BY_AUCTION"
                          ELSE "CANCELED_PARTIAL_BY_AUCTION")

CancelMarket ==
  /\ pc = "match"
  /\ Taker.remain_quantity # 0
  /\ NoneCrosses
  /\ Taker.time_condition \notin {"IOC", "AUCTION"}
  /\ Taker.price = MARKET_PRICE
  /\ book[mside] = {}
  /\ CancelTaker("CANCELED_BY_MARKET_ORDER_NOTHING_MATCH")

\* Mistake: the entry gets the new price, the order keeps the old one.
RepricedEntryOnly(p) == Taker

Repriced(p) == [Taker EXCEPT !.price = p]

\* The taker goes to its own book at price p, with a callback only if nothing
\* of it was filled.
Rest(p) ==
  LET ord == Repriced(p)
  IN /\ odrMap' = Put(odrMap, ord.order_id, ord)
     /\ o' = IF taker = 0 THEN ord ELSE o
     /\ book' = [book EXCEPT ![mside] = @ \cup {<<p, ord.order_id>>}]
     /\ IF ord.remain_quantity = ord.quantity THEN Callback(<<ord>>) ELSE Silent
     /\ pc' = "matched"
     /\ UNCHANGED <<stopBook, nextId, lockVars, corrupt, matchVars, sweepVars>>

\* A market order takes the best price of its own side.
RestRemainder ==
  /\ pc = "match"
  /\ Taker.remain_quantity # 0
  /\ NoneCrosses
  /\ Taker.time_condition \notin {"IOC", "AUCTION"}
  /\ \/ Taker.price # MARKET_PRICE /\ Rest(Taker.price)
     \/ /\ Taker.price = MARKET_PRICE
        /\ \E e \in book[mside] : IsTop(mside, book[mside], e) /\ Rest(PriceOf(e))

\* Post-only with repricing: one tick away from the price it would have met.
RestRepriced ==
  /\ pc = "match"
  /\ Taker.remain_quantity # 0
  /\ Taker.time_condition = "MAKER_ONLY_REPRICE"
  /\ \E e \in OppBook :
       /\ Crossing(e)
       /\ Rest(IF mside = "BUY" THEN PriceOf(e) - MiniTick ELSE PriceOf(e) + MiniTick)

\* The entries the iterator of fok_match has not passed yet.
Unplanned == OppBook \ {plan[i].entry : i \in DOMAIN plan}

FokCandidate(e) ==
  IsTop(Opposite(mside), Unplanned, e) /\ Crosses(mside, Taker.price, PriceOf(e))

\* matcher::match: record the next maker, nothing is traded yet.
FokCollect ==
  /\ pc = "fok"
  /\ left # 0
  /\ \E e \in Unplanned :
       /\ FokCandidate(e)
       /\ LET q == MatchedQuantity(odrMap[e[2]].remain_quantity, left)
          IN /\ left' = left - q
             /\ plan' = Append(plan, [entry |-> e, quantity |-> q, left |-> left - q])
  /\ Silent
  /\ UNCHANGED <<storeVars, lockVars, corrupt, pc, o, taker, mside, sweepVars>>

FokKill ==
  /\ pc = "fok"
  /\ left # 0
  /\ \/ Unplanned = {}
     \/ \E e \in Unplanned : /\ IsTop(Opposite(mside), Unplanned, e)
                             /\ ~Crosses(mside, Taker.price, PriceOf(e))
  /\ CancelTaker("CANCELED_BY_FOK")

\* The records cover the order: trade them one by one.
FokFill ==
  /\ pc = "fok"
  /\ left = 0
  /\ plan # <<>>
  /\ Fill(Head(plan).entry, Head(plan).quantity)
  /\ plan' = Tail(plan)
  /\ UNCHANGED <<stopBook, lockVars, pc, taker, mside, sweepVars, left>>

FokDone ==
  /\ pc = "fok"
  /\ left = 0
  /\ plan = <<>>
  /\ pc' = "matched"
  /\ Silent
  /\ UNCHANGED <<storeVars, lockVars, corrupt, o, matchVars, sweepVars>>

\* Mistake: the stops are triggered only by a taker that filled something.
MatchReturnIfFilled ==
  /\ pc = "matched"
  /\ IF taker # 0 THEN pc' = "fire" /\ UNCHANGED sweep
     ELSE IF o.remain_quantity # o.quantity THEN pc' = "sweep" /\ sweep' = "SELL"
     ELSE pc' = "done" /\ UNCHANGED sweep
  /\ taker' = 0 /\ left' = 0 /\ plan' = <<>>
  /\ Silent
  /\ UNCHANGED <<storeVars, lockVars, corrupt, o, mside, due>>

\* Back in handle_new, which runs the stop triggers only if something is left,
\* or back in the loop of trigger_*_stop.
MatchReturn ==
  /\ pc = "matched"
  /\ IF taker # 0 THEN pc' = "fire" /\ UNCHANGED sweep
     ELSE IF o.remain_quantity > 0 THEN pc' = "sweep" /\ sweep' = "SELL"
     ELSE pc' = "done" /\ UNCHANGED sweep
  /\ taker' = 0
  /\ left' = 0
  /\ plan' = <<>>
  /\ Silent
  /\ UNCHANGED <<storeVars, lockVars, corrupt, o, mside, due>>

-----------------------------------------------------------------------------
(* trigger_buy_stop and trigger_sell_stop.                                 *)

DueStops == {e \in stopBook[sweep] : Triggered(sweep, e[1])}

\* One round of the do loop: the stops reached now are collected, and the
\* entries gone leave the stop book.
CollectStops(gone) ==
  /\ pc = "sweep"
  /\ DueStops # {}
  /\ due' = DueStops
  /\ stopBook' = [stopBook EXCEPT ![sweep] = @ \ gone]
  /\ pc' = "fire"
  /\ Silent
  /\ UNCHANGED <<odrMap, book, nextId, lockVars, corrupt, o, matchVars, sweep>>

\* A mistake: no stop leaves its book.
SweepStopsKeepAll == CollectStops({})

SweepStops == CollectStops(DueStops)

\* handle_new triggers the sell stops, then the buy stops; handle_cancel only
\* the stops of the side opposite to the order it removed.
SweepReturn ==
  /\ pc = "sweep"
  /\ DueStops = {}
  /\ IF o.order_action # "NEW" THEN pc' = "erase" /\ UNCHANGED sweep
     ELSE IF sweep = "SELL" THEN sweep' = "BUY" /\ UNCHANGED pc
     ELSE pc' = "done" /\ UNCHANGED sweep
  /\ Silent
  /\ UNCHANGED <<storeVars, lockVars, corrupt, o, matchVars, due>>

\* The next order of odr_list is matched in place, at its limit price.
FireStop ==
  /\ pc = "fire"
  /\ \E e \in due :
       /\ \A f \in due : f = e \/ StopAhead(sweep, e, f)
       /\ odrMap' = [odrMap EXCEPT ![e[2]].price = StopLimit(sweep, odrMap[e[2]])]
       /\ taker' = e[2]
       /\ due' = due \ {e}
       /\ StartMatch(sweep, odrMap[e[2]])
  /\ Silent
  /\ UNCHANGED <<book, stopBook, nextId, lockVars, corrupt, o, sweep>>

FireReturn ==
  /\ pc = "fire"
  /\ due = {}
  /\ pc' = "sweep"
  /\ Silent
  /\ UNCHANGED <<storeVars, lockVars, corrupt, o, matchVars, sweepVars>>

-----------------------------------------------------------------------------
(* handle_cancel and handle_amend.                                         *)

CancelUnknown ==
  /\ pc = "cancel"
  /\ o.order_id \notin DOMAIN odrMap
  /\ o' = [o EXCEPT !.order_state = "REJECT_CANCEL_ORDER_ID_NOT_FOUND",
                    !.remain_quantity = 0]
  /\ Callback(<<o'>>)
  /\ pc' = "done"
  /\ UNCHANGED <<storeVars, lockVars, corrupt, matchVars, sweepVars>>

\* The canceled order is reported; it stays in _odr_map until the erase.
CancelReport(ori) ==
  LET ord == [ori EXCEPT !.order_state = IF o.order_action = "CANCEL"
                                         THEN "CANCELED_BY_USER" ELSE "CANCELED_BY_AMEND"]
  IN Callback(<<ord>>) /\ odrMap' = [odrMap EXCEPT ![o.order_id] = ord]

\* Mistake: a parked stop is looked for in a normal book.
IsParkedNever(ord) == FALSE

IsParked(ord) == ord.side \in StopSides /\ ord.price = STOP_PRICE

\* The book handle_cancel looks in for an order that is not parked.
RestingSide(ord) ==
  IF \/ ord.side \in {"BUY", "BUY_STOP"}
     \/ ord.side = "BUY_SELL_STOP" /\ ord.price = ord.buy_stop_limit_price
  THEN "BUY" ELSE "SELL"

\* Mistake: only the buy side of a parked stop is taken out.
UnparkedBuyOnly(ord) == [stopBook EXCEPT !["BUY"] = @ \ {StopEntry("BUY", ord)}]

\* The stop books without the entries of ord.
Unparked(ord) ==
  [s \in Sides |-> IF s \in ParkedSides(ord) THEN stopBook[s] \ {StopEntry(s, ord)}
                  ELSE stopBook[s]]

CancelParked ==
  /\ pc = "cancel"
  /\ o.order_id \in DOMAIN odrMap
  /\ LET ori == odrMap[o.order_id]
     IN /\ IsParked(ori)
        /\ CancelReport(ori)
        /\ stopBook' = Unparked(ori)
        /\ corrupt' = \E s \in ParkedSides(ori) :
                        ~HasLevel(stopBook[s], StopEntry(s, ori)[1])
  /\ pc' = "erase"
  /\ UNCHANGED <<book, nextId, lockVars, o, matchVars, sweepVars>>

\* The order is alone on the best level of its book.
OnlyBest(s, ord) ==
  \E e \in book[s] :
    /\ IsTop(s, book[s], e) /\ e[1] = ord.price
    /\ \A f \in book[s] : f[1] = e[1] => f = e

CancelResting ==
  /\ pc = "cancel"
  /\ o.order_id \in DOMAIN odrMap
  /\ LET ori == odrMap[o.order_id]
         s == RestingSide(ori)
     IN /\ ~IsParked(ori)
        /\ CancelReport(ori)
        /\ book' = [book EXCEPT ![s] = @ \ {<<ori.price, ori.order_id>>}]
        /\ corrupt' = ~HasLevel(book[s], ori.price)
        /\ IF OnlyBest(s, ori) THEN pc' = "sweep" /\ sweep' = Opposite(s)
           ELSE pc' = "erase" /\ UNCHANGED sweep
  /\ UNCHANGED <<stopBook, nextId, lockVars, o, matchVars, due>>

\* _odr_map.erase(it), then the return to handle or to handle_amend.
EraseCanceled ==
  /\ pc = "erase"
  /\ odrMap' = Drop(odrMap, o.order_id)
  /\ corrupt' = (o.order_id \notin DOMAIN odrMap \/ Dangling(odrMap', book))
  /\ IF o.order_action = "CANCEL" THEN pc' = "done" /\ UNCHANGED o
     ELSE pc' = "new" /\ o' = [o EXCEPT !.order_id = 0, !.order_action = "NEW"]
  /\ Silent
  /\ UNCHANGED <<book, stopBook, nextId, lockVars, matchVars, sweepVars>>

AmendReason(ord) ==
  IF ord.quantity = 0 THEN "REJECT_QUANTITY_ZERO"
  ELSE IF ord.display_quantity > ord.quantity
    THEN "REJECT_DISPLAY_QUANTITY_LARGER_THAN_QUANTITY"
  ELSE IF ord.order_id \notin DOMAIN odrMap THEN "REJECT_AMEND_ORDER_ID_NOT_FOUND"
  ELSE "NONE"

RejectAmend ==
  /\ pc = "amend"
  /\ AmendReason(o) # "NONE"
  /\ o' = [o EXCEPT !.order_state = AmendReason(o), !.remain_quantity = 0]
  /\ Callback(<<o'>>)
  /\ pc' = "done"
  /\ UNCHANGED <<storeVars, lockVars, corrupt, matchVars, sweepVars>>

\* order::can_amend: the same flags and prices, and no more than what remains.
CanAmend(new, ori) ==
  /\ new.side = ori.side /\ new.type = ori.type
  /\ new.time_condition = ori.time_condition
  /\ new.side \in Sides => new.price = ori.price
  /\ new.side \in {"BUY_STOP", "BUY_SELL_STOP"} =>
       /\ new.buy_stop_limit_price = ori.buy_stop_limit_price
       /\ new.buy_stop_trigger_price = ori.buy_stop_trigger_price
  /\ new.side \in {"SELL_STOP", "BUY_SELL_STOP"} =>
       /\ new.sell_stop_limit_price = ori.sell_stop_limit_price
       /\ new.sell_stop_trigger_price = ori.sell_stop_trigger_price
  /\ new.quantity <= ori.remain_quantity

AmendInPlace ==
  /\ pc = "amend"
  /\ AmendReason(o) = "NONE"
  /\ CanAmend(o, odrMap[o.order_id])
  /\ odrMap' = [odrMap EXCEPT ![o.order_id].order_action = "AMEND",
                              ![o.order_id].quantity = o.quantity,
                              ![o.order_id].display_quantity = o.display_quantity,
                              ![o.order_id].remain_quantity = o.quantity]
  /\ Callback(<<odrMap'[o.order_id]>>)
  /\ pc' = "done"
  /\ UNCHANGED <<book, stopBook, nextId, lockVars, corrupt, o, matchVars, sweepVars>>

AmendReplace ==
  /\ pc = "amend"
  /\ AmendReason(o) = "NONE"
  /\ ~CanAmend(o, odrMap[o.order_id])
  /\ odrMap' = [odrMap EXCEPT ![o.order_id].order_action = "AMEND"]
  /\ pc' = "cancel"
  /\ Silent
  /\ UNCHANGED <<book, stopBook, nextId, lockVars, corrupt, o, matchVars, sweepVars>>

-----------------------------------------------------------------------------
(* The end of engine::handle.                                              *)

\* The one price of the auction's records; they keep theirs when every record
\* is the auction order's own cancel.
Traded ==
  {i \in DOMAIN cbRecords : cbRecords[i].order_state \notin
     {"CANCELED_ALL_BY_AUCTION", "CANCELED_PARTIAL_BY_AUCTION"}}

\* Mistake: the first record sets the price.
FirstTraded == CHOOSE i \in Traded : \A j \in Traded : i <= j

LastTraded == CHOOSE i \in Traded : \A j \in Traded : j <= i

AuctionPrice ==
  LET p == cbRecords[LastTraded].last_match_price
  IN CASE o.side = "BUY" /\ o.remain_quantity # 0 -> o.buy_stop_limit_price
       [] o.side = "BUY" /\ o.remain_quantity = 0 -> IF p < 0 THEN 0 ELSE p
       [] o.side = "SELL" /\ o.remain_quantity # 0 -> o.sell_stop_limit_price
       [] o.side = "SELL" /\ o.remain_quantity = 0 -> IF p > 0 THEN 0 ELSE p

FlushAuction ==
  /\ pc = "done"
  /\ isAuction
  /\ isAuction' = FALSE
  /\ emitted' = IF Traded = {} THEN cbRecords
                ELSE [i \in DOMAIN cbRecords |->
                        [cbRecords[i] EXCEPT !.last_match_price = AuctionPrice]]
  /\ cbRecords' = <<>>
  /\ UNCHANGED <<storeVars, mutex, corrupt, callVars>>

\* Mistake: handle returns with the mutex held.
UnlockForgotten ==
  /\ pc = "done" /\ ~isAuction /\ pc' = "idle"
  /\ NoCall /\ Silent
  /\ UNCHANGED <<storeVars, lockVars, corrupt>>

Unlock ==
  /\ pc = "done"
  /\ ~isAuction
  /\ mutex' = FALSE
  /\ pc' = "idle"
  /\ NoCall
  /\ Silent
  /\ UNCHANGED <<storeVars, isAuction, corrupt>>

\* The rest of a call once it has started.
Step ==
  \/ RejectNew \/ NewBuySell \/ NewBuyStop \/ NewSellStop \/ NewBuySellStop
  \/ MatchTop \/ MatchDone \/ CancelMakerOnly \/ CancelRemainder \/ CancelMarket
  \/ RestRemainder \/ RestRepriced
  \/ FokCollect \/ FokKill \/ FokFill \/ FokDone \/ MatchReturn
  \/ SweepStops \/ SweepReturn \/ FireStop \/ FireReturn
  \/ CancelUnknown \/ CancelParked \/ CancelResting \/ EraseCanceled
  \/ RejectAmend \/ AmendInPlace \/ AmendReplace
  \/ FlushAuction \/ Unlock

\* Nothing is said about the program after undefined behaviour.
Next ==
  /\ ~corrupt
  /\ \/ \E r \in Requests : Handle(r) \/ HandleAuctionStop(r)
     \/ Step

\* The thread that calls handle is not stopped inside it.
Fairness == WF_vars(~corrupt /\ Step)

Spec == Init /\ [][Next]_vars /\ Fairness

-----------------------------------------------------------------------------
(* Properties.                                                             *)

Pcs == {"idle", "new", "cancel", "amend", "match", "fok", "matched", "sweep",
        "fire", "erase", "done"}
Entries == Int \X Nat
Records == [entry : Entries, quantity : Nat, left : Nat]

\* Every variable has its type, an order is filed under its own id, and ids in
\* use were handed out.
TypeOK ==
  /\ odrMap \in [DOMAIN odrMap -> Order]
  /\ \A i \in DOMAIN odrMap : odrMap[i].order_id = i /\ i \in Nat /\ 0 < i /\ i < nextId
  /\ book \in [Sides -> SUBSET Entries]
  /\ stopBook \in [Sides -> SUBSET Entries]
  /\ nextId \in Nat /\ nextId > 0
  /\ isAuction \in BOOLEAN
  /\ cbRecords \in Seq(Order)
  /\ mutex \in BOOLEAN
  /\ emitted \in Seq(Order)
  /\ corrupt \in BOOLEAN
  /\ pc \in Pcs
  /\ o \in Order
  /\ taker \in Nat
  /\ mside \in Sides
  /\ sweep \in Sides
  /\ due \in SUBSET Entries
  /\ left \in Nat
  /\ plan \in Seq(Records)

\* Requests without the two-sided stop, the only order that can wait in both
\* stop books at once.
NoBothStops == \A r \in NewRequests \cup AmendRequests : r.side # "BUY_SELL_STOP"

\* Every entry of a book is the one entry of a live order: it is in _odr_map, on
\* the side and at the price handle_cancel will look it up by, with quantity left.
BooksPointToLiveOrders ==
  ~corrupt => \A s \in Sides : \A e \in book[s] :
    /\ e[2] \in DOMAIN odrMap
    /\ LET ord == odrMap[e[2]]
       IN /\ ord.price = e[1] /\ RestingSide(ord) = s
          /\ ord.remain_quantity > 0
          /\ ord.order_state \in LiveStates

\* After every step of every call no bid reaches an ask: what could trade has
\* traded before anything is put in a book.
NeverCrossed ==
  ~corrupt => \A b \in book["BUY"], a \in book["SELL"] : PriceOf(b) < PriceOf(a)

\* Every fill is with an order that no other order of the opposite book beats on
\* price, nor on age at its price, and within the taker's limit; also when
\* fok_match trades the records it collected before.
FillsFollowPriority ==
  [][\A e \in OppBook :
       (/\ pc \in {"match", "fok"}
        /\ \/ e[2] \notin DOMAIN odrMap'
           \/ odrMap'[e[2]].remain_quantity < odrMap[e[2]].remain_quantity)
       => IF mside = "BUY"
          THEN /\ Taker.price >= e[1] \/ Taker.price = MARKET_PRICE
               /\ \A f \in OppBook : f[1] > e[1] \/ (f[1] = e[1] /\ f[2] >= e[2])
          ELSE /\ Taker.price <= e[1] \/ Taker.price = MARKET_PRICE
               /\ \A f \in OppBook : f[1] < e[1] \/ (f[1] = e[1] /\ f[2] >= e[2])]_vars

\* A fill-or-kill order ends all filled or untouched.
FokAllOrNothing ==
  ~corrupt /\ pc = "matched" /\ Taker.time_condition = "FOK" =>
    \/ Taker.remain_quantity = 0 /\ Taker.order_state = "FILLED"
    \/ Taker.remain_quantity = Taker.quantity /\ Taker.order_state = "CANCELED_BY_FOK"

\* An order that was matched and has something left triggers sell stops, then buy
\* stops.  When a sell stop stays behind that the best bid has reached, all bids are
\* stops of the second pass.  (An order that is parked, or filled, triggers none.)
StopsLeftBehind ==
  pc = "done" /\ o.order_action = "NEW" /\ o.remain_quantity > 0 /\ o.price # STOP_PRICE =>
    /\ \A e \in stopBook["BUY"] : ~Triggered("BUY", e[1])
    /\ (\E e \in stopBook["SELL"] : Triggered("SELL", e[1])) =>
         \A b \in book["BUY"] : odrMap[b[2]].side = "BUY_STOP"

\* Undefined behaviour is only reached by a cancel or an amend of a stop order
\* that was triggered and has ended: such an order is never taken out of _odr_map.
CorruptOnlyByEndedStop ==
  [][corrupt' =>
       /\ pc = "cancel"
       /\ odrMap[o.order_id].side \in StopSides
       /\ odrMap[o.order_id].order_state \in DoneStates]_vars

\* The mutex is held outside a call only after the early return of handle that
\* rejects an auction order with a stop side.
HeldOnlyInCall ==
  mutex /\ pc = "idle" =>
    \E i \in DOMAIN emitted : emitted[i].order_state = "REJECT_AUCTION_SUPPORT_BUY_SELL_ONLY"

\* An auction order that is filled completely reports the price of its last
\* fill, 0 if that has the wrong sign, for every record: no maker is reported
\* at a price worse than its own.  (Of auctions that are new orders: one that
\* amends an order also reports, as a record, that order with its old fill.)
AuctionPaysMakers ==
  [][pc = "done" /\ isAuction /\ o.order_state = "FILLED" =>
       \A i \in DOMAIN emitted' :
         emitted'[i].matched_type = "MAKER" /\ emitted'[i].last_match_quantity > 0 =>
           IF o.side = "BUY" THEN emitted'[i].last_match_price >= emitted'[i].price
           ELSE emitted'[i].last_match_price <= emitted'[i].price]_vars

\* The auction client sets buy_stop_limit_price and sell_stop_limit_price "to set
\* lower/upper price band for auction": the prices an auction reports respect it.
AuctionWithinBand ==
  [][pc = "done" /\ isAuction =>
       \A i \in DOMAIN emitted' :
         emitted'[i].order_state \in {"FILLED", "PARTIAL_FILL"} =>
           IF o.side = "BUY" THEN emitted'[i].last_match_price <= o.buy_stop_limit_price
           ELSE emitted'[i].last_match_price >= o.sell_stop_limit_price]_vars

\* Every call ends: the loops of normal_match, fok_match and the do loops of the
\* stop triggers terminate.
CallTerminates == pc # "idle" ~> (pc = "idle" \/ corrupt)

-----------------------------------------------------------------------------
(* The inductive invariant behind the theorems of EngineProofs, for request  *)
(* sets without two-sided stops.                                            *)

\* The side a one-sided order trades on.
TradeSide(ord) == IF ord.side \in {"BUY", "BUY_STOP"} THEN "BUY" ELSE "SELL"

\* What the control state says about the order in hand: which handler runs,
\* whether a stop is being matched and whether odr_list can hold anything.
CallInv ==
  /\ o.side # "BUY_SELL_STOP" /\ (isAuction => o.side \in Sides)
  /\ \A i \in DOMAIN odrMap : odrMap[i].side # "BUY_SELL_STOP"
  /\ pc \in {"new", "match", "fok", "matched"} /\ taker = 0 => o.order_action = "NEW"
  /\ taker # 0 => pc \in {"match", "fok", "matched"} /\ taker \in DOMAIN odrMap
  /\ taker = 0 /\ pc # "fire" => due = {}
  /\ pc \in {"match", "fok"} /\ taker = 0 =>
       o.order_id \notin DOMAIN odrMap /\ 0 < o.order_id /\ o.order_id < nextId
  /\ pc \in {"match", "fok"} => TradeSide(Taker) = mside

\* A book entry is filed at the price and on the side of an order in _odr_map
\* with something left.
RestingInv ==
  \A s \in Sides : \A e \in book[s] :
    /\ e[2] \in DOMAIN odrMap
    /\ odrMap[e[2]].price = e[1]
    /\ TradeSide(odrMap[e[2]]) = s
    /\ odrMap[e[2]].remain_quantity > 0

\* A stop entry belongs to an untouched stop order of that side.
Waiting(s, e) ==
  /\ e[2] \in DOMAIN odrMap
  /\ e = StopEntry(s, odrMap[e[2]])
  /\ odrMap[e[2]].side \in StopSides
  /\ TradeSide(odrMap[e[2]]) = s
  /\ odrMap[e[2]].remain_quantity = odrMap[e[2]].quantity
  /\ odrMap[e[2]].quantity > 0
StopInv ==
  /\ \A s \in Sides : \A e \in stopBook[s] : Waiting(s, e)
  /\ \A e \in due : Waiting(sweep, e) /\ e \notin stopBook[sweep]

\* No order is in a book and at the same time a stop, or the order in hand.
ApartInv ==
  /\ \A s \in Sides : \A e \in book[s] : \A t \in Sides :
       \A f \in stopBook[t] \cup due : e[2] # f[2]
  /\ pc \in {"match", "fok"} => \A s \in Sides :
       \A e \in book[s] \cup stopBook[s] \cup due : e[2] # taker

UncrossedInv == \A b \in book["BUY"], a \in book["SELL"] : b[1] < a[1]

\* The records of fok_match: distinct makers of the opposite book that can
\* deliver, and quantities that add up to what the taker wants.
PlanInv ==
  pc = "fok" =>
    /\ \A i \in DOMAIN plan :
         /\ plan[i].entry \in OppBook
         /\ plan[i].quantity <= odrMap[plan[i].entry[2]].remain_quantity
    /\ \A i, j \in DOMAIN plan : i # j => plan[i].entry # plan[j].entry
    /\ plan = <<>> => left = Taker.remain_quantity
    /\ plan # <<>> => /\ plan[1].quantity + plan[1].left = Taker.remain_quantity
                      /\ plan[Len(plan)].left = left
    /\ \A i \in DOMAIN plan : i + 1 \in DOMAIN plan =>
         plan[i].left = plan[i + 1].quantity + plan[i + 1].left

\* While fok_match collects nothing is traded; afterwards only a full fill ends it.
FokInv ==
  /\ pc = "fok" => /\ left # 0 => Taker.remain_quantity = Taker.quantity
                   /\ Taker.remain_quantity = 0 => Taker.order_state = "FILLED"
                   /\ Taker.time_condition = "FOK"
  /\ pc = "match" => Taker.time_condition # "FOK"
  /\ FokAllOrNothing

IInv ==
  /\ TypeOK
  /\ ~corrupt => /\ CallInv /\ RestingInv /\ StopInv /\ ApartInv
                 /\ PlanInv /\ FokInv

-----------------------------------------------------------------------------
(* What the other theorems need besides IInv.                               *)

\* A stop taken from odr_list trades on the side that is being triggered; only a
\* cancel or an amend gets to handle_cancel.
FiredInv ==
  /\ pc \in {"match", "fok"} /\ taker # 0 => mside = sweep /\ Taker.side \in StopSides
  /\ pc \in {"cancel", "amend", "erase"} => o.order_action # "NEW"

\* fok_match records makers in the order of the book and within the limit, and
\* each but the last one with all it has.
RecordedInv ==
  pc = "fok" => \A i \in DOMAIN plan :
    /\ Crosses(mside, Taker.price, plan[i].entry[1])
    /\ \A f \in OppBook : Ahead(Opposite(mside), plan[i].entry, f)
                          \/ \E j \in 1 .. i : f = plan[j].entry
    /\ i < Len(plan) \/ left # 0 =>
         plan[i].quantity = odrMap[plan[i].entry[2]].remain_quantity

\* The second pass of handle_new over the stops, with the buy stops.
SecondPass ==
  /\ o.order_action = "NEW" /\ sweep = "BUY"
  /\ pc \in {"sweep", "fire"} \/ (pc \in {"match", "fok", "matched"} /\ taker # 0)
SellStopsQuiet == \A e \in stopBook["SELL"] : ~Triggered("SELL", e[1])
OnlyStopsBid == \A b \in book["BUY"] : odrMap[b[2]].side = "BUY_STOP"
PassInv == SecondPass => SellStopsQuiet \/ OnlyStopsBid

JInv == IInv /\ StopsLeftBehind /\ (~corrupt => FiredInv /\ RecordedInv /\ PassInv)

\* No price or limit a client sends is within a tick of the price of a parked stop.
PricesAboveStop ==
  /\ MARKET_PRICE > STOP_PRICE + MiniTick
  /\ \A r \in NewRequests \cup AmendRequests :
       /\ r.price > STOP_PRICE + MiniTick
       /\ r.buy_stop_limit_price > STOP_PRICE + MiniTick
       /\ r.sell_stop_limit_price > STOP_PRICE + MiniTick

\* Only the stops that wait have the price of a parked stop: no limit, no price
\* in a book and no price of an order still to be matched is that low.
LimitInv ==
  /\ \A s \in Sides : StopLimit(s, o) > STOP_PRICE + MiniTick
  /\ \A i \in DOMAIN odrMap : \A s \in Sides : StopLimit(s, odrMap[i]) > STOP_PRICE + MiniTick
  /\ (pc = "new" \/ o.order_action # "NEW") /\ o.side \in Sides =>
       o.price > STOP_PRICE + MiniTick
  /\ pc \in {"match", "fok"} => Taker.price > STOP_PRICE + MiniTick
  /\ \A e \in book["SELL"] : e[1] > STOP_PRICE + MiniTick
  /\ \A e \in book["BUY"] : e[1] > STOP_PRICE
  /\ \A s \in Sides : \A e \in stopBook[s] \cup due : odrMap[e[2]].price = STOP_PRICE

\* What can still trade is live: the orders in the books, the stops that wait or
\* are due, and the order being matched until it is filled.
LiveInv ==
  /\ \A s \in Sides : \A e \in book[s] \cup stopBook[s] \cup due :
       odrMap[e[2]].order_state \in LiveStates
  /\ pc \in {"match", "fok"} =>
       IF Taker.remain_quantity > 0 THEN Taker.order_state \in LiveStates
       ELSE Taker.order_state = "FILLED"

\* The points of a cancel or an amend at which its order is out of the books.
Canceling ==
  /\ o.order_action # "NEW"
  /\ pc \in {"sweep", "fire", "match", "fok", "matched", "erase"}

\* An order in _odr_map is being matched, rests, waits, or is a triggered stop that
\* ended; or it is the order that is being canceled.
FiledInv ==
  /\ Canceling => /\ o.order_id \in DOMAIN odrMap /\ o.order_id # taker
                  /\ odrMap[o.order_id].order_state \in {"CANCELED_BY_USER", "CANCELED_BY_AMEND"}
  /\ \A i \in DOMAIN odrMap :
       LET ord == odrMap[i]
           s == TradeSide(ord)
       IN IF ord.order_state \in LiveStates
          THEN \/ i = taker /\ pc \in {"match", "fok"}
               \/ <<ord.price, i>> \in book[s]
               \/ /\ ord.side \in StopSides /\ ord.price = STOP_PRICE
                  /\ StopEntry(s, ord) \in stopBook[s] \cup due
          ELSE /\ ord.order_state \in DoneStates
               /\ \/ ord.side \in StopSides /\ ord.price # STOP_PRICE
                  \/ Canceling /\ i = o.order_id

KInv == JInv /\ (~corrupt => LimitInv /\ LiveInv /\ FiledInv)

\* No client amends an order into an auction order.
NoAuctionAmends == \A r \in AmendRequests : r.time_condition # "AUCTION"

\* The last of the auction's records is a fill, at a price that is as good as the
\* own price of every maker before it.
PaidInv ==
  cbRecords # <<>> =>
    LET last == cbRecords[Len(cbRecords)]
    IN /\ last.order_state \in {"FILLED", "PARTIAL_FILL"}
       /\ \A i \in DOMAIN cbRecords :
            cbRecords[i].matched_type = "MAKER" /\ cbRecords[i].last_match_quantity > 0 =>
              IF o.side = "BUY" THEN last.last_match_price >= cbRecords[i].price
              ELSE last.last_match_price <= cbRecords[i].price

\* The makers still to come are not better than that price.
NextInv ==
  cbRecords # <<>> => \A e \in OppBook :
    LET last == cbRecords[Len(cbRecords)]
    IN IF o.side = "BUY" THEN last.last_match_price <= e[1] ELSE last.last_match_price >= e[1]

\* An auction is one new order with records of its own; while it is matched, and
\* when it ends filled, they are fills only.
AuctionInv ==
  /\ ~isAuction => cbRecords = <<>>
  /\ isAuction =>
       /\ pc # "idle" /\ o.order_action = "NEW" /\ o.time_condition = "AUCTION"
       /\ pc = "new" => cbRecords = <<>>
       /\ pc = "match" /\ taker = 0 => PaidInv /\ NextInv
       /\ o.order_state = "FILLED" /\ pc # "new" =>
            /\ taker = 0 /\ pc \in {"match", "matched", "done"} /\ o.remain_quantity = 0
            /\ PaidInv /\ cbRecords # <<>>

LInv == KInv /\ (~corrupt => AuctionInv)
=============================================================================
