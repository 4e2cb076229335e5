---------------------------- MODULE EngineProofs ----------------------------
(***************************************************************************)
(* Proofs about Engine: the inductive invariant IInv, and from it type     *)
(* correctness, the uncrossed book, books without stale entries and        *)
(* all-or-nothing fills, for every set of requests without two-sided stops *)
(* and every bound; then JInv, KInv and LInv, which extend it.  The last   *)
(* two sections are about EngineRecovery without stops and about MdFeed.   *)
(***************************************************************************)
EXTENDS EngineRecovery, MdFeed, SumProofs, SequenceTheorems

-----------------------------------------------------------------------------
(* Lemmas about the operators of Engine.                                   *)

\* The fields of an order that engine::match and the handlers never change.
Same(a, b) ==
  /\ a.order_id = b.order_id /\ a.side = b.side /\ a.time_condition = b.time_condition
  /\ a.order_action = b.order_action /\ a.quantity = b.quantity
  /\ a.buy_stop_trigger_price = b.buy_stop_trigger_price
  /\ a.sell_stop_trigger_price = b.sell_stop_trigger_price

\* A fill of at most what is left yields an order with that much less left.
LEMMA MatchFacts ==
  ASSUME NEW ord \in Order, NEW mtype \in {"MAKER", "TAKER"}, NEW p \in Int,
         NEW q \in Nat, q <= ord.remain_quantity
  PROVE  /\ Match(ord, mtype, p, q) \in Order
         /\ Same(Match(ord, mtype, p, q), ord)
         /\ Match(ord, mtype, p, q).price = ord.price
         /\ Match(ord, mtype, p, q).remain_quantity = ord.remain_quantity - q
         /\ Match(ord, mtype, p, q).remain_quantity = 0 =>
              Match(ord, mtype, p, q).order_state = "FILLED"
<1> DEFINE st == IF ord.remain_quantity = q THEN "FILLED" ELSE "PARTIAL_FILL"
           r == [ord EXCEPT !.matched_type = mtype, !.last_match_price = p,
                            !.last_match_quantity = q, !.remain_quantity = @ - q,
                            !.order_state = st]
<1>1. st \in States
  BY DEF States, LiveStates, DoneStates
<1>2. ord.remain_quantity - q \in Nat
  BY DEF Order
<1>3. r \in Order
  BY <1>1, <1>2 DEF Order
<1>4. /\ Same(r, ord) /\ r.price = ord.price
      /\ r.remain_quantity = ord.remain_quantity - q /\ r.order_state = st
  BY <1>1, <1>2 DEF Order, Same
<1> HIDE DEF r, st
<1>5. /\ UpdateDisplay(r) \in Order /\ Same(UpdateDisplay(r), r)
      /\ UpdateDisplay(r).price = r.price
      /\ UpdateDisplay(r).remain_quantity = r.remain_quantity
      /\ UpdateDisplay(r).order_state = r.order_state
  BY <1>3 DEF UpdateDisplay, Order, Same
<1>6. Match(ord, mtype, p, q) = UpdateDisplay(r)
  BY DEF Match, r, st
<1>7. st = IF ord.remain_quantity = q THEN "FILLED" ELSE "PARTIAL_FILL"
  BY DEF st
<1> QED
  BY <1>2, <1>4, <1>5, <1>6, <1>7 DEF Same, Order

\* An order that only changes its state.
LEMMA StateFacts ==
  ASSUME NEW ord \in Order, NEW st \in States
  PROVE  LET new == [ord EXCEPT !.order_state = st]
         IN /\ new \in Order /\ Same(new, ord) /\ new.price = ord.price
            /\ new.remain_quantity = ord.remain_quantity /\ new.order_state = st
  BY DEF Order, Same

\* An order that only changes its price.
LEMMA PriceFacts ==
  ASSUME NEW ord \in Order, NEW p \in Int
  PROVE  LET new == [ord EXCEPT !.price = p]
         IN /\ new \in Order /\ Same(new, ord) /\ new.price = p
            /\ new.remain_quantity = ord.remain_quantity
            /\ new.order_state = ord.order_state
  BY DEF Order, Same

\* init_new_order yields an open order with a fresh id and all of it left.
LEMMA InitFacts ==
  ASSUME NEW ord \in Order, nextId \in Nat
  PROVE  LET new == InitNewOrder(ord)
         IN /\ new \in Order /\ new.order_id = nextId
            /\ new.remain_quantity = ord.quantity /\ new.quantity = ord.quantity
            /\ new.side = ord.side /\ new.time_condition = ord.time_condition
            /\ new.order_action = ord.order_action
            /\ new.order_state = "OPEN"
            /\ new.buy_stop_trigger_price = ord.buy_stop_trigger_price
            /\ new.sell_stop_trigger_price = ord.sell_stop_trigger_price
            /\ new.buy_stop_limit_price = ord.buy_stop_limit_price
            /\ new.sell_stop_limit_price = ord.sell_stop_limit_price
  BY DEF InitNewOrder, Order, States, LiveStates

\* The default order is an order.
LEMMA DefaultFacts ==
  DefaultOrder \in Order /\ DefaultOrder.side = "BUY"
  BY SentinelAssumption DEF DefaultOrder, Order, States, LiveStates, Sides, StopSides,
     Types, TimeConditions, Actions

\* Fields an order has, without opening Order again.
LEMMA FieldFacts ==
  ASSUME NEW ord \in Order
  PROVE  /\ ord.price \in Int /\ ord.quantity \in Nat /\ ord.remain_quantity \in Nat
         /\ ord.order_id \in Nat /\ ord.side \in Sides \cup StopSides
         /\ ord.buy_stop_limit_price \in Int /\ ord.sell_stop_limit_price \in Int
         /\ ord.buy_stop_trigger_price \in Int /\ ord.sell_stop_trigger_price \in Int
         /\ ord.order_action \in Actions /\ ord.display_quantity \in Nat
  BY DEF Order

-----------------------------------------------------------------------------
(* Every step keeps IInv: first what groups of actions have in common.      *)

\* A client's request is an order that is not a two-sided stop.
LEMMA RequestFacts ==
  ASSUME NoBothStops, TypeOK, NEW r \in Requests
  PROVE  r \in Order /\ r.side # "BUY_SELL_STOP"
<1> DEFINE ids == 1 .. nextId
<1>0. ids \subseteq Nat
  BY DEF TypeOK
<1>1. CASE r \in NewRequests
  BY <1>1, RequestAssumption DEF NoBothStops
<1>2. ASSUME NEW a \in AmendRequests, NEW id \in ids, r = [a EXCEPT !.order_id = id]
      PROVE  r \in Order /\ r.side # "BUY_SELL_STOP"
  <2>1. a \in Order /\ a.side # "BUY_SELL_STOP"
    BY RequestAssumption DEF NoBothStops
  <2> QED
    BY <1>0, <1>2, <2>1 DEF Order
<1>3. ASSUME NEW id \in ids, r = CancelRequest(id)
      PROVE  r \in Order /\ r.side # "BUY_SELL_STOP"
  <2>1. id \in Nat /\ "CANCEL" \in Actions
    BY <1>0 DEF Actions
  <2>2. r = [DefaultOrder EXCEPT !.order_action = "CANCEL", !.order_id = id]
    BY <1>3 DEF CancelRequest
  <2>3. r \in Order
    BY <2>1, <2>2, DefaultFacts DEF Order
  <2>4. r.side = DefaultOrder.side
    BY <2>2, DefaultFacts DEF Order
  <2> QED
    BY <2>3, <2>4, DefaultFacts
<1> QED
  BY <1>1, <1>2, <1>3 DEF Requests

\* Steps that leave the stores and odr_list alone keep what is said of them.
LEMMA StoresKept ==
  ASSUME RestingInv, StopInv, ApartInv,
         UNCHANGED <<odrMap, book, stopBook, sweep, due>>, pc' \notin {"match", "fok"}
  PROVE  RestingInv' /\ StopInv' /\ ApartInv'
<1>1. RestingInv'
  BY DEF RestingInv, TradeSide
<1>2. StopInv'
  BY DEF StopInv, Waiting, StopEntry, TradeSide
<1>3. ApartInv'
  BY DEF ApartInv
<1> QED
  BY <1>1, <1>2, <1>3

\* Nothing is claimed about the taker outside the matching loops.
LEMMA NoTaker ==
  ASSUME pc' \notin {"match", "fok", "matched"}
  PROVE  PlanInv' /\ FokInv'
  BY DEF PlanInv, FokInv, FokAllOrNothing

\* A call starts with an order of the client and everything else untouched.
LEMMA HandleOk ==
  ASSUME IInv, ~corrupt, NoBothStops, NEW r \in Requests, Handle(r)
  PROVE  IInv'
<1>1. r \in Order /\ r.side # "BUY_SELL_STOP"
  BY RequestFacts DEF IInv
<1>2. /\ pc' \in {"new", "cancel", "amend"} /\ (pc' = "new" => r.order_action = "NEW")
      /\ pc = "idle"
  BY <1>1 DEF Handle, Order, Actions
<1>3. /\ UNCHANGED <<odrMap, book, stopBook, nextId, cbRecords, corrupt>>
      /\ UNCHANGED <<taker, mside, sweep, due, left, plan>>
      /\ o' = r /\ emitted' = <<>> /\ mutex' = TRUE /\ isAuction' \in BOOLEAN
  BY DEF Handle, Silent, storeVars, matchVars, sweepVars
<1>4. isAuction' => o'.side \in Sides
  BY <1>1 DEF AuctionStop, Order, Handle
<1>5. TypeOK'
  <2>1. pc' \in Pcs /\ o' \in Order /\ mutex' \in BOOLEAN
    BY <1>1, <1>2, <1>3 DEF Pcs
  <2> QED
    BY <1>3, <2>1 DEF IInv, TypeOK
<1>6. CallInv'
  BY <1>1, <1>2, <1>3, <1>4 DEF IInv, CallInv
<1> QED
  BY <1>2, <1>3, <1>5, <1>6, StoresKept, NoTaker DEF IInv

\* The early return of handle changes nothing but the mutex.
LEMMA HandleAuctionStopOk ==
  ASSUME IInv, ~corrupt, NoBothStops, NEW r \in Requests, HandleAuctionStop(r)
  PROVE  IInv'
<1>1. r \in Order
  BY RequestFacts DEF IInv
<1>2. emitted' \in Seq(Order)
  <2>1. "REJECT_AUCTION_SUPPORT_BUY_SELL_ONLY" \in States
    BY DEF States, RejectStates
  <2> QED
    BY <1>1, <2>1, StateFacts DEF HandleAuctionStop
<1>3. /\ UNCHANGED <<odrMap, book, stopBook, nextId, isAuction, cbRecords, corrupt>>
      /\ UNCHANGED <<pc, o, taker, mside, sweep, due, left, plan>>
      /\ mutex' = TRUE /\ pc = "idle"
  BY DEF HandleAuctionStop, storeVars, callVars
<1>4. TypeOK'
  BY <1>2, <1>3 DEF IInv, TypeOK
<1>5. CallInv'
  BY <1>3 DEF IInv, CallInv
<1> QED
  BY <1>3, <1>4, <1>5, StoresKept, NoTaker DEF IInv

\* A callback passes orders on, at once or at the end of the auction.
LEMMA CallbackFacts ==
  ASSUME cbRecords \in Seq(Order), NEW cbs \in Seq(Order), Callback(cbs)
  PROVE  cbRecords' \in Seq(Order) /\ emitted' \in Seq(Order)
<1>1. cbRecords \o cbs \in Seq(Order)
  BY ConcatProperties
<1>2. CASE isAuction
  BY <1>1, <1>2, SMTT(30) DEF Callback
<1>3. CASE ~isAuction
  BY <1>3 DEF Callback
<1> QED
  BY <1>2, <1>3

\* The reject reasons are order states.
LEMMA ReasonFacts ==
  ASSUME NEW ord
  PROVE  RejectReason(ord) # "NONE" => RejectReason(ord) \in States
  BY DEF RejectReason, States, RejectStates

\* handle_new turns the order down; at most an id is used up.
LEMMA RejectNewOk ==
  ASSUME IInv, ~corrupt, RejectNew
  PROVE  IInv'
<1>1. /\ UNCHANGED <<odrMap, book, stopBook, isAuction, mutex, corrupt>>
      /\ UNCHANGED <<taker, mside, sweep, due, left, plan>>
      /\ pc = "new" /\ pc' = "done" /\ nextId' \in {nextId, nextId + 1}
      /\ Callback(<<o'>>)
  BY DEF RejectNew, lockVars, matchVars, sweepVars
<1>2. o' \in Order /\ o'.side = o.side
  <2>1. RejectReason(o) \in States /\ o \in Order /\ nextId \in Nat
    BY ReasonFacts DEF RejectNew, IInv, TypeOK
  <2> DEFINE id == IF TakesId(o) THEN nextId ELSE 0
             p == IF o.side \in StopSides /\ QuantityOk(o) THEN STOP_PRICE ELSE o.price
  <2>2. id \in Nat /\ p \in Int
    BY <2>1, SentinelAssumption, FieldFacts
  <2>3. o' = [o EXCEPT !.order_state = RejectReason(o), !.remain_quantity = 0,
                       !.order_id = id, !.price = p]
    BY <2>1 DEF RejectNew, Order
  <2> QED
    <3> HIDE DEF id, p
    <3> QED
      BY <2>1, <2>2, <2>3 DEF Order
<1>3. cbRecords' \in Seq(Order) /\ emitted' \in Seq(Order)
  <2>1. <<o'>> \in Seq(Order) /\ cbRecords \in Seq(Order)
    BY <1>2 DEF IInv, TypeOK
  <2> QED
    BY <1>1, <2>1, CallbackFacts
<1>4. TypeOK'
  BY <1>1, <1>2, <1>3 DEF IInv, TypeOK, Pcs
<1>5. CallInv'
  BY <1>1, <1>2 DEF IInv, CallInv
<1> QED
  BY <1>1, <1>4, <1>5, StoresKept, NoTaker DEF IInv

\* handle_cancel and handle_amend turn the request down.
LEMMA RejectCallOk ==
  ASSUME IInv, ~corrupt, CancelUnknown \/ RejectAmend
  PROVE  IInv'
<1>1. /\ UNCHANGED <<odrMap, book, stopBook, nextId, isAuction, mutex, corrupt>>
      /\ UNCHANGED <<taker, mside, sweep, due, left, plan>>
      /\ pc \in {"cancel", "amend"} /\ pc' = "done"
      /\ Callback(<<o'>>)
  BY DEF CancelUnknown, RejectAmend, storeVars, lockVars, matchVars, sweepVars
<1>2. o' \in Order /\ o'.side = o.side
  <2>1. o \in Order
    BY DEF IInv, TypeOK
  <2>2. CASE CancelUnknown
    <3>1. "REJECT_CANCEL_ORDER_ID_NOT_FOUND" \in States
      BY DEF States, RejectStates
    <3> QED
      BY <2>1, <2>2, <3>1 DEF CancelUnknown, Order
  <2>3. CASE RejectAmend
    <3>1. AmendReason(o) # "NONE" => AmendReason(o) \in States
      BY DEF AmendReason, States, RejectStates
    <3> QED
      BY <2>1, <2>3, <3>1 DEF RejectAmend, Order
  <2> QED
    BY <2>2, <2>3
<1>3. cbRecords' \in Seq(Order) /\ emitted' \in Seq(Order)
  <2>1. <<o'>> \in Seq(Order) /\ cbRecords \in Seq(Order)
    BY <1>2 DEF IInv, TypeOK
  <2> QED
    BY <1>1, <2>1, CallbackFacts
<1>4. TypeOK'
  BY <1>1, <1>2, <1>3 DEF IInv, TypeOK, Pcs
<1>5. CallInv'
  BY <1>1, <1>2 DEF IInv, CallInv
<1> QED
  BY <1>1, <1>4, <1>5, StoresKept, NoTaker DEF IInv

\* The matching loops end; the taker is what they left.
LEMMA LoopDoneOk ==
  ASSUME IInv, ~corrupt, MatchDone \/ FokDone
  PROVE  IInv'
<1>1. /\ UNCHANGED <<odrMap, book, stopBook, nextId, isAuction, cbRecords, mutex, corrupt>>
      /\ UNCHANGED <<o, taker, mside, sweep, due, left, plan>>
      /\ pc \in {"match", "fok"} /\ pc' = "matched" /\ emitted' = <<>>
      /\ pc = "fok" => left = 0 /\ plan = <<>>
  BY DEF MatchDone, FokDone, Silent, storeVars, lockVars, matchVars, sweepVars
<1>2. TypeOK'
  BY <1>1 DEF IInv, TypeOK, Pcs
<1>3. CallInv'
  BY <1>1 DEF IInv, CallInv
<1>4. PlanInv' /\ FokInv'
  BY <1>1 DEF IInv, PlanInv, FokInv, FokAllOrNothing, Taker
<1> QED
  BY <1>1, <1>2, <1>3, <1>4, StoresKept DEF IInv

\* Back in handle_new or in a stop trigger.
LEMMA MatchReturnOk ==
  ASSUME IInv, ~corrupt, MatchReturn
  PROVE  IInv'
<1>1. /\ UNCHANGED <<odrMap, book, stopBook, nextId, isAuction, cbRecords, mutex, corrupt>>
      /\ UNCHANGED <<o, mside, due>>
      /\ taker' = 0 /\ left' = 0 /\ plan' = <<>> /\ emitted' = <<>>
      /\ pc = "matched" /\ pc' \in {"fire", "sweep", "done"}
      /\ taker # 0 => pc' = "fire" /\ sweep' = sweep
      /\ taker = 0 => pc' # "fire"
      /\ sweep' \in {"SELL", sweep}
  BY DEF MatchReturn, Silent, storeVars, lockVars
<1>2. TypeOK'
  <2>1. pc' \in Pcs /\ sweep' \in Sides
    BY <1>1 DEF Pcs, IInv, TypeOK, Sides
  <2>2. plan' \in Seq(Records) /\ emitted' \in Seq(Order)
    BY <1>1
  <2> QED
    BY <1>1, <2>1, <2>2 DEF IInv, TypeOK
<1>3. taker = 0 => due = {}
  BY <1>1 DEF IInv, CallInv
<1>4. CallInv'
  BY <1>1, <1>3 DEF IInv, CallInv
<1>5. RestingInv'
  BY <1>1 DEF IInv, RestingInv, TradeSide
<1>6. StopInv'
  BY <1>1, <1>3 DEF IInv, StopInv, Waiting, StopEntry, TradeSide
<1>7. ApartInv'
  BY <1>1 DEF IInv, ApartInv
<1> QED
  BY <1>1, <1>2, <1>4, <1>5, <1>6, <1>7, NoTaker DEF IInv

\* A stop trigger finds nothing more to do.
LEMMA SweepReturnOk ==
  ASSUME IInv, ~corrupt, SweepReturn \/ FireReturn
  PROVE  IInv'
<1>1. /\ UNCHANGED <<odrMap, book, stopBook, nextId, isAuction, cbRecords, mutex, corrupt>>
      /\ UNCHANGED <<o, taker, mside, due, left, plan>>
      /\ emitted' = <<>> /\ sweep' \in {"BUY", sweep}
      /\ pc \in {"sweep", "fire"} /\ pc' \in {"erase", "sweep", "done"}
      /\ pc = "fire" => due = {}
  BY DEF SweepReturn, FireReturn, Silent, storeVars, lockVars, matchVars, sweepVars
<1>2. due = {}
  BY <1>1 DEF IInv, CallInv
<1>3. TypeOK'
  <2>1. pc' \in Pcs /\ sweep' \in Sides
    BY <1>1 DEF Pcs, IInv, TypeOK, Sides
  <2> QED
    BY <1>1, <2>1 DEF IInv, TypeOK
<1>4. CallInv'
  BY <1>1, <1>2 DEF IInv, CallInv
<1>5. RestingInv'
  BY <1>1 DEF IInv, RestingInv, TradeSide
<1>6. StopInv'
  BY <1>1, <1>2 DEF IInv, StopInv, Waiting, StopEntry, TradeSide
<1>7. ApartInv'
  BY <1>1 DEF IInv, ApartInv
<1> QED
  BY <1>1, <1>3, <1>4, <1>5, <1>6, <1>7, NoTaker DEF IInv

\* handle returns.
LEMMA UnlockOk ==
  ASSUME IInv, ~corrupt, Unlock
  PROVE  IInv'
<1>1. /\ UNCHANGED <<odrMap, book, stopBook, nextId, isAuction, cbRecords, corrupt>>
      /\ o' = DefaultOrder /\ taker' = 0 /\ mside' = "BUY" /\ sweep' = "BUY" /\ due' = {}
      /\ left' = 0 /\ plan' = <<>> /\ emitted' = <<>> /\ mutex' = FALSE
      /\ pc = "done" /\ pc' = "idle"
  BY DEF Unlock, NoCall, Silent, storeVars
<1>2. TypeOK'
  <2>1. pc' \in Pcs /\ sweep' \in Sides /\ mside' \in Sides
    BY <1>1 DEF Pcs, Sides
  <2>2. plan' \in Seq(Records) /\ emitted' \in Seq(Order) /\ o' \in Order
    BY <1>1, DefaultFacts
  <2> QED
    BY <1>1, <2>1, <2>2 DEF IInv, TypeOK
<1>3. CallInv'
  BY <1>1, DefaultFacts DEF IInv, CallInv, Sides
<1>4. RestingInv'
  BY <1>1 DEF IInv, RestingInv, TradeSide
<1>5. StopInv'
  BY <1>1 DEF IInv, StopInv, Waiting, StopEntry, TradeSide
<1>6. ApartInv'
  BY <1>1 DEF IInv, ApartInv
<1> QED
  BY <1>1, <1>2, <1>3, <1>4, <1>5, <1>6, NoTaker DEF IInv

\* The last traded record of an auction exists when there is one.
LEMMA LastTradedFacts ==
  ASSUME cbRecords \in Seq(Order), Traded # {}
  PROVE  LastTraded \in DOMAIN cbRecords
<1> DEFINE n == Len(cbRecords)
           R == OpToRel(<, Nat)
           T == {k \in Nat : n - k \in Traded}
<1>1. Traded \subseteq 1 .. n /\ DOMAIN cbRecords = 1 .. n /\ n \in Nat
  BY DEF Traded
<1> HIDE DEF n, R
<1>2. T \subseteq Nat /\ T # {}
  <2>1. PICK i \in Traded : TRUE
    OBVIOUS
  <2>2. n - i \in Nat /\ n - (n - i) = i
    BY <1>1, <2>1
  <2> QED
    BY <2>1, <2>2
<1> HIDE DEF T
<1>3. IsWellFoundedOn(R, Nat)
  BY NatLessThanWellFounded DEF R
<1>4. PICK k \in T : \A j \in T : <<j, k>> \notin R
  BY <1>2, <1>3, WFMin
<1>5. \A j \in T : ~(j < k)
  BY <1>2, <1>4 DEF R, OpToRel
<1>6. n - k \in Traded /\ \A j \in Traded : j <= n - k
  <2>1. ASSUME NEW j \in Traded PROVE j <= n - k
    <3>1. n - j \in T
      BY <1>1 DEF T
    <3> QED
      BY <1>1, <1>2, <1>5, <3>1
  <2> QED
    BY <2>1 DEF T
<1> QED
  BY <1>1, <1>6 DEF LastTraded

\* The price of the auction is a price.
LEMMA AuctionPriceFacts ==
  ASSUME cbRecords \in Seq(Order), Traded # {}, o \in Order, o.side \in Sides
  PROVE  AuctionPrice \in Int
<1>1. cbRecords[LastTraded] \in Order
  BY LastTradedFacts, ElementOfSeq
<1>2. cbRecords[LastTraded].last_match_price \in Int
  BY <1>1 DEF Order
<1>3. o.buy_stop_limit_price \in Int /\ o.sell_stop_limit_price \in Int
  BY FieldFacts
<1> QED
  BY <1>2, <1>3 DEF AuctionPrice, Sides

\* The records of an auction are passed on, at its price.
LEMMA FlushAuctionOk ==
  ASSUME IInv, ~corrupt, FlushAuction
  PROVE  IInv'
<1>1. /\ UNCHANGED <<odrMap, book, stopBook, nextId, mutex, corrupt>>
      /\ UNCHANGED <<pc, o, taker, mside, sweep, due, left, plan>>
      /\ isAuction' = FALSE /\ cbRecords' = <<>> /\ pc = "done"
  BY DEF FlushAuction, storeVars, callVars
<1>2. cbRecords \in Seq(Order) /\ o \in Order /\ o.side \in Sides
  BY DEF FlushAuction, IInv, TypeOK, CallInv
<1>3. emitted' \in Seq(Order)
  <2>1. CASE Traded = {}
    BY <1>2, <2>1 DEF FlushAuction
  <2>2. CASE Traded # {}
    <3>1. AuctionPrice \in Int
      BY <1>2, <2>2, AuctionPriceFacts
    <3>2. \A r \in Order : [r EXCEPT !.last_match_price = AuctionPrice] \in Order
      BY <3>1 DEF Order
    <3>3. \A i \in DOMAIN cbRecords :
            [cbRecords[i] EXCEPT !.last_match_price = AuctionPrice] \in Order
      BY <1>2, <3>2, ElementOfSeq
    <3>4. DOMAIN cbRecords = 1 .. Len(cbRecords) /\ Len(cbRecords) \in Nat
      BY <1>2
    <3> DEFINE out == [i \in DOMAIN cbRecords |->
                         [cbRecords[i] EXCEPT !.last_match_price = AuctionPrice]]
    <3>5. out \in [1 .. Len(cbRecords) -> Order]
      BY <3>3, <3>4
    <3> HIDE DEF out
    <3>6. out \in Seq(Order)
      BY <3>4, <3>5, SeqDef
    <3> QED
      BY <2>2, <3>6 DEF FlushAuction, out
  <2> QED
    BY <2>1, <2>2
<1>4. TypeOK'
  <2>1. cbRecords' \in Seq(Order)
    BY <1>1
  <2>2. isAuction' \in BOOLEAN
    BY <1>1
  <2> QED
    BY <1>1, <1>3, <2>1, <2>2 DEF IInv, TypeOK
<1>5. CallInv'
  BY <1>1 DEF IInv, CallInv
<1> QED
  BY <1>1, <1>4, <1>5, StoresKept, NoTaker DEF IInv

\* An order handle_new accepts has a quantity.
LEMMA AcceptFacts ==
  ASSUME NEW ord, RejectReason(ord) = "NONE"
  PROVE  ord.quantity # 0
  BY DEF RejectReason

\* handle_new starts to match the order in hand, or a stop at its limit price.
LEMMA StartOk ==
  ASSUME IInv, ~corrupt, pc = "new", NEW s \in Sides, TradeSide(o) = s, o.quantity # 0,
         o' \in Order, o'.order_id = nextId, o'.side = o.side,
         o'.time_condition = o.time_condition, o'.order_action = o.order_action,
         o'.remain_quantity = o.quantity, o'.quantity = o.quantity,
         StartMatch(s, o'), Silent, nextId' = nextId + 1,
         UNCHANGED <<odrMap, book, stopBook, isAuction, mutex, corrupt, taker, sweep, due>>
  PROVE  IInv'
<1>1. /\ mside' = s /\ left' = o.quantity /\ plan' = <<>>
      /\ pc' \in {"match", "fok"} /\ (pc' = "fok" <=> o'.time_condition = "FOK")
      /\ emitted' = <<>> /\ cbRecords' = cbRecords
  BY DEF StartMatch, Silent
<1>2. taker = 0 /\ due = {} /\ o.order_action = "NEW"
  BY DEF IInv, CallInv
<1>3. nextId \in Nat /\ nextId > 0 /\ \A i \in DOMAIN odrMap : i \in Nat /\ i # nextId
  BY DEF IInv, TypeOK
<1>4. TypeOK'
  <2>1. left' \in Nat /\ plan' \in Seq(Records) /\ emitted' \in Seq(Order)
    BY <1>1, FieldFacts DEF IInv, TypeOK
  <2>2. pc' \in Pcs
    BY <1>1 DEF Pcs
  <2>3. nextId' \in Nat /\ nextId' > 0
    BY <1>3
  <2>4. \A i \in DOMAIN odrMap : i < nextId'
    BY DEF IInv, TypeOK
  <2> QED
    BY <1>1, <2>1, <2>2, <2>3, <2>4 DEF IInv, TypeOK
<1>5. Taker' = o'
  BY <1>2 DEF Taker
<1>6. CallInv'
  BY <1>1, <1>2, <1>3, <1>5 DEF IInv, CallInv, TradeSide
<1>7. RestingInv'
  BY DEF IInv, RestingInv, TradeSide
<1>8. StopInv'
  BY DEF IInv, StopInv, Waiting, StopEntry, TradeSide
<1>9. ApartInv'
  <2>1. \A t \in Sides : \A e \in book[t] \cup stopBook[t] \cup due : e[2] # 0
    BY DEF IInv, TypeOK, RestingInv, StopInv, Waiting
  <2> QED
    BY <1>2, <2>1 DEF IInv, ApartInv
<1>10. PlanInv'
  BY <1>1, <1>5 DEF PlanInv
<1>11. FokInv'
  BY <1>1, <1>5 DEF FokInv, FokAllOrNothing
<1> QED
  BY <1>4, <1>6, <1>7, <1>8, <1>9, <1>10, <1>11 DEF IInv

\* A BUY or SELL goes to the opposite book.
LEMMA NewBuySellOk ==
  ASSUME IInv, ~corrupt, NewBuySell
  PROVE  IInv'
<1>1. /\ pc = "new" /\ o.side \in Sides /\ o' = InitNewOrder(o) /\ o.quantity # 0
      /\ StartMatch(o.side, o') /\ Silent /\ nextId' = nextId + 1
      /\ UNCHANGED <<odrMap, book, stopBook, isAuction, mutex, corrupt, taker, sweep, due>>
  BY AcceptFacts DEF NewBuySell, lockVars, sweepVars
<1>2. TradeSide(o) = o.side
  BY <1>1 DEF TradeSide, Sides
<1>3. o \in Order /\ nextId \in Nat
  BY DEF IInv, TypeOK
<1> QED
  BY <1>1, <1>2, <1>3, InitFacts, StartOk

\* A stop order is matched at once, at its limit price, or waits in _odr_map and
\* its stop book.
LEMMA NewStopOk ==
  ASSUME IInv, ~corrupt, NEW s \in Sides, o.side \in StopSides, TradeSide(o) = s,
         pc = "new", RejectReason(o) = "NONE", StopNow(s) \/ Park,
         nextId' = nextId + 1,
         UNCHANGED <<book, isAuction, mutex, corrupt, taker, sweep, due>>
  PROVE  IInv'
<1>1. o \in Order /\ nextId \in Nat /\ o.quantity # 0 /\ o.side # "BUY_SELL_STOP"
  BY AcceptFacts DEF IInv, TypeOK, CallInv
<1>2. CASE StopNow(s)
  <2>1. StopLimit(s, o) \in Int
    BY <1>1, FieldFacts DEF StopLimit
  <2>2. /\ o' = [InitNewOrder(o) EXCEPT !.price = StopLimit(s, o)]
        /\ StartMatch(s, o') /\ Silent /\ UNCHANGED <<odrMap, stopBook>>
    BY <1>2 DEF StopNow
  <2>3. InitNewOrder(o) \in Order
    BY <1>1, InitFacts
  <2>4. /\ o' \in Order /\ Same(o', InitNewOrder(o))
        /\ o'.remain_quantity = InitNewOrder(o).remain_quantity
    BY <2>1, <2>2, <2>3, PriceFacts
  <2>5. /\ o'.order_id = nextId /\ o'.side = o.side /\ o'.time_condition = o.time_condition
        /\ o'.order_action = o.order_action /\ o'.quantity = o.quantity
        /\ o'.remain_quantity = o.quantity
    BY <1>1, <2>4, InitFacts DEF Same
  <2> QED
    BY <1>1, <2>2, <2>4, <2>5, StartOk
<1>3. CASE Park
  <2>1. /\ o' = [InitNewOrder(o) EXCEPT !.price = STOP_PRICE]
        /\ odrMap' = Put(odrMap, nextId, o')
        /\ stopBook' = [t \in Sides |-> IF t \in ParkedSides(o)
                                        THEN stopBook[t] \cup {StopEntry(t, o')}
                                        ELSE stopBook[t]]
        /\ Callback(<<o'>>) /\ pc' = "done" /\ UNCHANGED <<mside, left, plan>>
    BY <1>3 DEF Park, fokVars
  <2>2. InitNewOrder(o) \in Order
    BY <1>1, InitFacts
  <2>3. /\ o' \in Order /\ Same(o', InitNewOrder(o))
        /\ o'.remain_quantity = InitNewOrder(o).remain_quantity
    BY <2>1, <2>2, PriceFacts, SentinelAssumption
  <2>4. /\ o'.order_id = nextId /\ o'.side = o.side /\ o'.quantity = o.quantity
        /\ o'.remain_quantity = o.quantity
    BY <1>1, <2>3, InitFacts DEF Same
  <2>5. ParkedSides(o) = {s}
    BY <1>1 DEF ParkedSides, TradeSide, StopSides
  <2>6. /\ stopBook'[s] = stopBook[s] \cup {StopEntry(s, o')}
        /\ \A t \in Sides : t # s => stopBook'[t] = stopBook[t]
        /\ stopBook' \in [Sides -> SUBSET Entries]
    <3>1. StopEntry(s, o') \in Entries
      BY <2>3, FieldFacts DEF StopEntry, Entries
    <3> QED
      BY <2>1, <2>5, <3>1 DEF IInv, TypeOK
  <2>7. /\ odrMap' \in [DOMAIN odrMap' -> Order] /\ DOMAIN odrMap' = DOMAIN odrMap \cup {nextId}
        /\ odrMap'[nextId] = o' /\ \A i \in DOMAIN odrMap : odrMap'[i] = odrMap[i]
    <3>1. odrMap \in [DOMAIN odrMap -> Order] /\ nextId \notin DOMAIN odrMap
      BY DEF IInv, TypeOK
    <3>2. odrMap' = Put(odrMap, nextId, o')
      BY <2>1
    <3>3. /\ DOMAIN Put(odrMap, nextId, o') = DOMAIN odrMap \cup {nextId}
          /\ Put(odrMap, nextId, o') \in [DOMAIN Put(odrMap, nextId, o') -> Order]
          /\ Put(odrMap, nextId, o')[nextId] = o'
          /\ \A i \in DOMAIN odrMap : i # nextId => Put(odrMap, nextId, o')[i] = odrMap[i]
      BY <2>3, <3>1 DEF Put
    <3> QED
      BY <3>1, <3>2, <3>3
  <2>8. taker = 0 /\ due = {}
    BY DEF IInv, CallInv
  <2>9. TypeOK'
    <3>1. cbRecords' \in Seq(Order) /\ emitted' \in Seq(Order)
      <4>1. <<o'>> \in Seq(Order) /\ cbRecords \in Seq(Order)
        BY <2>3 DEF IInv, TypeOK
      <4> QED
        BY <2>1, <4>1, CallbackFacts
    <3>2. pc' \in Pcs /\ nextId' \in Nat /\ nextId' > 0
      BY <1>1, <2>1 DEF Pcs
    <3>3. \A i \in DOMAIN odrMap' : odrMap'[i].order_id = i /\ i \in Nat /\ 0 < i /\ i < nextId'
      BY <2>4, <2>7 DEF IInv, TypeOK
    <3> QED
      BY <2>1, <2>3, <2>6, <2>7, <3>1, <3>2, <3>3 DEF IInv, TypeOK
  <2>10. CallInv'
    <3>1. isAuction' => o'.side \in Sides
      BY <2>4 DEF IInv, CallInv
    <3>2. \A i \in DOMAIN odrMap' : odrMap'[i].side # "BUY_SELL_STOP"
      BY <1>1, <2>4, <2>7 DEF IInv, CallInv
    <3> QED
      BY <1>1, <2>1, <2>4, <2>8, <3>1, <3>2 DEF CallInv
  <2>11. RestingInv'
    BY <2>7 DEF IInv, RestingInv, TradeSide
  <2>12. ASSUME NEW e, e = StopEntry(s, o')
         PROVE  Waiting(s, e)'
    <3>1. e[2] = nextId
      BY <2>4, <2>12 DEF StopEntry
    <3>2. o'.quantity > 0
      BY <1>1, <2>4, FieldFacts
    <3> QED
      BY <2>4, <2>7, <2>12, <3>1, <3>2 DEF Waiting, TradeSide
  <2>13. ASSUME NEW t \in Sides, NEW e \in stopBook[t]
         PROVE  Waiting(t, e)'
    BY <2>7 DEF IInv, StopInv, Waiting
  <2>14. StopInv'
    BY <2>6, <2>8, <2>12, <2>13 DEF StopInv
  <2>15. ApartInv'
    <3>1. StopEntry(s, o')[2] = nextId
      BY <2>4 DEF StopEntry
    <3>2. \A t \in Sides : \A e \in book[t] : e[2] # nextId
      BY DEF IInv, TypeOK, RestingInv
    <3>3. ApartInv /\ ~(pc' \in {"match", "fok"}) /\ UNCHANGED <<book, due>>
      BY <2>1, <2>8 DEF IInv
    <3>4. \A t \in Sides : \A f \in stopBook'[t] \cup due' : f \in stopBook[t] \cup due \/ f[2] = nextId
      BY <2>6, <3>1, <3>3
    <3> QED
      BY <3>2, <3>3, <3>4 DEF ApartInv
  <2> QED
    BY <2>1, <2>9, <2>10, <2>11, <2>14, <2>15, NoTaker DEF IInv
<1> QED
  BY <1>2, <1>3

\* The three handlers of stop orders; a two-sided stop is not among the requests.
LEMMA NewStopsOk ==
  ASSUME IInv, ~corrupt, NewBuyStop \/ NewSellStop \/ NewBuySellStop
  PROVE  IInv'
<1>1. CASE NewBuyStop
  <2>1. TradeSide(o) = "BUY" /\ "BUY" \in Sides /\ o.side \in StopSides
    BY <1>1 DEF NewBuyStop, TradeSide, Sides, StopSides
  <2>2. /\ pc = "new" /\ RejectReason(o) = "NONE" /\ nextId' = nextId + 1
        /\ StopNow("BUY") \/ Park
        /\ UNCHANGED <<book, isAuction, mutex, corrupt, taker, sweep, due>>
    BY <1>1 DEF NewBuyStop, lockVars, sweepVars
  <2> QED
    BY <2>1, <2>2, NewStopOk
<1>2. CASE NewSellStop
  <2>1. TradeSide(o) = "SELL" /\ "SELL" \in Sides /\ o.side \in StopSides
    BY <1>2 DEF NewSellStop, TradeSide, Sides, StopSides
  <2>2. /\ pc = "new" /\ RejectReason(o) = "NONE" /\ nextId' = nextId + 1
        /\ StopNow("SELL") \/ Park
        /\ UNCHANGED <<book, isAuction, mutex, corrupt, taker, sweep, due>>
    BY <1>2 DEF NewSellStop, lockVars, sweepVars
  <2> QED
    BY <2>1, <2>2, NewStopOk
<1>3. CASE NewBuySellStop
  BY <1>3 DEF NewBuySellStop, IInv, CallInv
<1> QED
  BY <1>1, <1>2, <1>3

-----------------------------------------------------------------------------
(* The matching loops.                                                     *)

\* The taker of a matching loop is an order, under its own id if it is a stop.
LEMMA TakerFacts ==
  ASSUME TypeOK, CallInv
  PROVE  Taker \in Order /\ (taker # 0 => Taker.order_id = taker)
  BY DEF TypeOK, CallInv, Taker

\* The state of _odr_map, the order in hand and the taker after SetTaker, which
\* changes nothing but the taker.
LEMMA SetTakerFacts ==
  ASSUME TypeOK, CallInv, NEW ord \in Order, SetTaker(odrMap, ord), taker' = taker,
         Same(ord, Taker)
  PROVE  /\ odrMap' \in [DOMAIN odrMap -> Order] /\ DOMAIN odrMap' = DOMAIN odrMap
         /\ \A i \in DOMAIN odrMap : i # taker => odrMap'[i] = odrMap[i]
         /\ \A i \in DOMAIN odrMap : Same(odrMap'[i], odrMap[i])
         /\ o' \in Order /\ Same(o', o)
         /\ Taker' = ord
<1>1. CASE taker = 0
  BY <1>1 DEF TypeOK, SetTaker, Taker, Same
<1>2. CASE taker # 0
  BY <1>2 DEF TypeOK, CallInv, SetTaker, Taker, Put, Same
<1> QED
  BY <1>1, <1>2

\* The taker is canceled; a fill-or-kill order only by fok_match, untouched.
LEMMA CancelTakerOk ==
  ASSUME IInv, ~corrupt, pc \in {"match", "fok"}, NEW st \in States, CancelTaker(st),
         pc = "fok" => /\ st = "CANCELED_BY_FOK"
                       /\ Taker.remain_quantity = Taker.quantity
  PROVE  IInv'
<1> DEFINE ord == [Taker EXCEPT !.order_state = st]
<1>1. TypeOK /\ CallInv /\ RestingInv /\ StopInv /\ ApartInv /\ FokInv
  BY DEF IInv
<1>2. /\ ord \in Order /\ Same(ord, Taker) /\ ord.price = Taker.price
      /\ ord.remain_quantity = Taker.remain_quantity /\ ord.order_state = st
  BY <1>1, TakerFacts, StateFacts
<1>3. /\ UNCHANGED <<book, stopBook, nextId, isAuction, mutex, corrupt>>
      /\ UNCHANGED <<taker, mside, sweep, due, left, plan>>
      /\ SetTaker(odrMap, ord) /\ Callback(<<ord>>) /\ pc' = "matched"
  BY DEF CancelTaker, lockVars, matchVars, sweepVars
<1> HIDE DEF ord
<1>4. /\ odrMap' \in [DOMAIN odrMap -> Order] /\ DOMAIN odrMap' = DOMAIN odrMap
      /\ \A i \in DOMAIN odrMap : i # taker => odrMap'[i] = odrMap[i]
      /\ \A i \in DOMAIN odrMap : Same(odrMap'[i], odrMap[i])
      /\ o' \in Order /\ Same(o', o) /\ Taker' = ord
  BY <1>1, <1>2, <1>3, SetTakerFacts
<1>5. TypeOK'
  <2>1. cbRecords' \in Seq(Order) /\ emitted' \in Seq(Order)
    <3>1. <<ord>> \in Seq(Order) /\ cbRecords \in Seq(Order)
      BY <1>1, <1>2 DEF TypeOK
    <3> QED
      BY <1>3, <3>1, CallbackFacts
  <2>2. pc' \in Pcs
    BY <1>3 DEF Pcs
  <2>3. \A i \in DOMAIN odrMap' : odrMap'[i].order_id = i
    BY <1>1, <1>4 DEF TypeOK, Same
  <2> QED
    BY <1>1, <1>3, <1>4, <2>1, <2>2, <2>3 DEF TypeOK
<1>6. CallInv'
  <2>1. isAuction' => o'.side \in Sides
    BY <1>1, <1>3, <1>4 DEF CallInv, Same
  <2>2. \A i \in DOMAIN odrMap' : odrMap'[i].side # "BUY_SELL_STOP"
    BY <1>1, <1>4 DEF CallInv, Same
  <2> QED
    BY <1>1, <1>3, <1>4, <2>1, <2>2 DEF CallInv, Same
<1>7. \A t \in Sides : \A e \in book[t] \cup stopBook[t] \cup due :
        e[2] \in DOMAIN odrMap => odrMap'[e[2]] = odrMap[e[2]]
  BY <1>1, <1>4 DEF ApartInv
<1>8. RestingInv'
  BY <1>1, <1>3, <1>4, <1>7 DEF RestingInv
<1>9. StopInv'
  <2>1. \A t \in Sides : \A e \in stopBook[t] \cup due : Waiting(t, e) => Waiting(t, e)'
    BY <1>4, <1>7 DEF Waiting
  <2> QED
    BY <1>1, <1>3, <2>1 DEF StopInv, TypeOK
<1>10. ApartInv'
  BY <1>1, <1>3 DEF ApartInv
<1>11. PlanInv' /\ FokInv'
  BY <1>1, <1>2, <1>3, <1>4 DEF PlanInv, FokInv, FokAllOrNothing, Same
<1> QED
  BY <1>5, <1>6, <1>8, <1>9, <1>10, <1>11 DEF IInv

\* The places where a taker is canceled.
LEMMA CancelsOk ==
  ASSUME IInv, ~corrupt, CancelMakerOnly \/ CancelRemainder \/ CancelMarket \/ FokKill
  PROVE  IInv'
<1>1. {"CANCELED_BY_MAKER_ONLY", "CANCELED_ALL_BY_IOC", "CANCELED_PARTIAL_BY_IOC",
       "CANCELED_ALL_BY_AUCTION", "CANCELED_PARTIAL_BY_AUCTION",
       "CANCELED_BY_MARKET_ORDER_NOTHING_MATCH", "CANCELED_BY_FOK"} \subseteq States
  BY DEF States, DoneStates
<1>2. CASE pc = "match"
  <2>1. PICK st \in States : CancelTaker(st)
    BY <1>1, <1>2 DEF CancelMakerOnly, CancelRemainder, CancelMarket, FokKill
  <2> QED
    BY <1>2, <2>1, CancelTakerOk
<1>3. CASE pc # "match"
  <2>1. pc = "fok" /\ left # 0 /\ CancelTaker("CANCELED_BY_FOK")
    BY <1>3 DEF CancelMakerOnly, CancelRemainder, CancelMarket, FokKill
  <2>2. Taker.remain_quantity = Taker.quantity
    BY <2>1 DEF IInv, FokInv
  <2> QED
    BY <1>1, <2>1, <2>2, CancelTakerOk
<1> QED
  BY <1>2, <1>3

\* What engine::match can trade.
LEMMA MatchedFacts ==
  ASSUME NEW a \in Nat, NEW w \in Nat
  PROVE  /\ MatchedQuantity(a, w) \in Nat /\ MatchedQuantity(a, w) <= a
         /\ MatchedQuantity(a, w) <= w
  BY DEF MatchedQuantity

\* A book entry is determined by its id.
LEMMA EntryFacts ==
  ASSUME TypeOK, RestingInv
  PROVE  /\ \A s \in Sides : \A e \in book[s] :
              /\ e \in Entries /\ e = <<e[1], e[2]>> /\ e[1] \in Int
              /\ e[2] \in DOMAIN odrMap /\ odrMap[e[2]] \in Order
         /\ \A s, t \in Sides : \A e \in book[s], f \in book[t] :
              e[2] = f[2] => s = t /\ e = f
<1>1. \A s \in Sides : \A e \in book[s] :
              /\ e \in Entries /\ e = <<e[1], e[2]>> /\ e[1] \in Int
              /\ e[2] \in DOMAIN odrMap /\ odrMap[e[2]] \in Order
  BY DEF TypeOK, RestingInv, Entries
<1> QED
  BY <1>1 DEF RestingInv

\* fok_match takes down one more maker.
LEMMA FokCollectOk ==
  ASSUME IInv, ~corrupt, FokCollect
  PROVE  IInv'
<1>1. PICK e \in Unplanned :
        /\ left' = left - MatchedQuantity(odrMap[e[2]].remain_quantity, left)
        /\ plan' = Append(plan, [entry |-> e,
                                 quantity |-> MatchedQuantity(odrMap[e[2]].remain_quantity, left),
                                 left |-> left'])
  BY DEF FokCollect
<1> DEFINE q == MatchedQuantity(odrMap[e[2]].remain_quantity, left)
           r == [entry |-> e, quantity |-> q, left |-> left']
<1>2. /\ UNCHANGED <<odrMap, book, stopBook, nextId, isAuction, cbRecords, mutex, corrupt>>
      /\ UNCHANGED <<pc, o, taker, mside, sweep, due>>
      /\ emitted' = <<>> /\ pc = "fok" /\ left # 0
  BY DEF FokCollect, Silent, storeVars, lockVars, sweepVars
<1>3. TypeOK /\ CallInv /\ RestingInv /\ StopInv /\ ApartInv /\ PlanInv /\ FokInv
  BY DEF IInv
<1>4. /\ e \in OppBook /\ \A i \in DOMAIN plan : plan[i].entry # e
      /\ e \in Entries /\ odrMap[e[2]] \in Order
  <2>1. mside \in Sides /\ Opposite(mside) \in Sides
    BY <1>3 DEF TypeOK, Opposite, Sides
  <2>2. e \in OppBook
    BY DEF Unplanned
  <2> QED
    BY <1>3, <2>1, <2>2, EntryFacts DEF Unplanned, OppBook
<1>5. q \in Nat /\ q <= odrMap[e[2]].remain_quantity /\ left' \in Nat /\ left' + q = left
  <2>1. odrMap[e[2]].remain_quantity \in Nat /\ left \in Nat
    BY <1>3, <1>4, FieldFacts DEF TypeOK
  <2>2. q \in Nat /\ q <= odrMap[e[2]].remain_quantity /\ q <= left
    BY <2>1, MatchedFacts
  <2>3. left' = left - q
    BY <1>1
  <2> HIDE DEF q
  <2> QED
    BY <2>1, <2>2, <2>3
<1> HIDE DEF q
<1>6. r \in Records /\ plan \in Seq(Records)
  BY <1>3, <1>4, <1>5 DEF Records, TypeOK
<1>7. /\ plan' \in Seq(Records) /\ Len(plan') = Len(plan) + 1 /\ Len(plan) \in Nat
      /\ plan'[Len(plan) + 1] = r /\ DOMAIN plan = 1 .. Len(plan)
      /\ DOMAIN plan' = 1 .. Len(plan) + 1 /\ plan' # <<>>
      /\ \A i \in 1 .. Len(plan) : plan'[i] = plan[i]
  <2>1. plan' = Append(plan, r)
    BY <1>1 DEF q
  <2> HIDE DEF r
  <2> QED
    BY <1>6, <2>1
<1>8. r.entry = e /\ r.quantity = q /\ r.left = left'
  OBVIOUS
<1> HIDE DEF r
<1>9. Taker' = Taker /\ OppBook' = OppBook
  BY <1>2 DEF Taker, OppBook
<1>10. TypeOK'
  BY <1>2, <1>3, <1>5, <1>7 DEF TypeOK
<1>11. CallInv'
  BY <1>2, <1>3, <1>9 DEF CallInv
<1>12. RestingInv' /\ ApartInv'
  BY <1>2, <1>3 DEF RestingInv, ApartInv
<1>13. StopInv'
  BY <1>2, <1>3 DEF StopInv, Waiting
<1>14. PlanInv'
  <2>1. \A i \in DOMAIN plan' : /\ plan'[i].entry \in OppBook
                                /\ plan'[i].quantity <= odrMap[plan'[i].entry[2]].remain_quantity
    BY <1>2, <1>3, <1>4, <1>5, <1>7, <1>8 DEF PlanInv
  <2>2. \A i, j \in DOMAIN plan' : i # j => plan'[i].entry # plan'[j].entry
    BY <1>2, <1>3, <1>4, <1>7, <1>8 DEF PlanInv
  <2>3. plan'[1].quantity + plan'[1].left = Taker.remain_quantity
    <3>1. CASE plan = <<>>
      BY <1>2, <1>3, <1>5, <1>7, <1>8, <3>1 DEF PlanInv
    <3>2. CASE plan # <<>>
      BY <1>2, <1>3, <1>6, <1>7, <3>2 DEF PlanInv
    <3> QED
      BY <3>1, <3>2
  <2>4. plan'[Len(plan')].left = left'
    BY <1>7, <1>8
  <2>5. ASSUME NEW i \in DOMAIN plan', i + 1 \in DOMAIN plan'
        PROVE  plan'[i].left = plan'[i + 1].quantity + plan'[i + 1].left
    <3>1. CASE i = Len(plan)
      <4>1. plan # <<>> /\ plan'[i].left = left
        BY <1>2, <1>3, <1>7, <2>5, <3>1 DEF PlanInv
      <4> QED
        BY <1>5, <1>7, <1>8, <3>1, <4>1
    <3>2. CASE i # Len(plan)
      BY <1>2, <1>3, <1>7, <2>5, <3>2 DEF PlanInv
    <3> QED
      BY <3>1, <3>2
  <2> QED
    BY <1>2, <1>7, <1>9, <2>1, <2>2, <2>3, <2>4, <2>5 DEF PlanInv
<1>15. FokInv'
  BY <1>2, <1>3, <1>9 DEF FokInv, FokAllOrNothing
<1> QED
  BY <1>10, <1>11, <1>12, <1>13, <1>14, <1>15 DEF IInv

\* What a fill leaves behind: the maker, gone when nothing of it is left, and the
\* taker have q less; every other order and entry is as before.
Filled(e, q) ==
  /\ odrMap' \in [DOMAIN odrMap' -> Order]
  /\ DOMAIN odrMap' \subseteq DOMAIN odrMap /\ DOMAIN odrMap \ {e[2]} \subseteq DOMAIN odrMap'
  /\ \A i \in DOMAIN odrMap' : i # e[2] /\ i # taker => odrMap'[i] = odrMap[i]
  /\ \A i \in DOMAIN odrMap' : Same(odrMap'[i], odrMap[i])
  /\ e[2] \in DOMAIN odrMap' => /\ odrMap'[e[2]].price = odrMap[e[2]].price
                                /\ odrMap'[e[2]].remain_quantity > 0
  /\ o' \in Order /\ Same(o', o)
  /\ Same(Taker', Taker) /\ Taker'.price = Taker.price
  /\ Taker'.remain_quantity = Taker.remain_quantity - q
  /\ Taker'.remain_quantity = 0 => Taker'.order_state = "FILLED"
  /\ book' \in [Sides -> SUBSET Entries]
  /\ \A s \in Sides : book'[s] \subseteq book[s]
  /\ \A s \in Sides : \A f \in book[s] : f # e => f \in book'[s]
  /\ \A s \in Sides : e \in book'[s] => e[2] \in DOMAIN odrMap'
  /\ cbRecords' \in Seq(Order) /\ emitted' \in Seq(Order)
  /\ corrupt' = FALSE

\* Fill does that, when maker and taker both have q left.
LEMMA FillFacts ==
  ASSUME TypeOK, CallInv, RestingInv, StopInv, ApartInv, pc \in {"match", "fok"},
         taker' = taker, NEW e \in OppBook, NEW q \in Nat, q <= odrMap[e[2]].remain_quantity,
         q <= Taker.remain_quantity, Fill(e, q)
  PROVE  Filled(e, q)
<1> DEFINE maker == odrMap[e[2]]
           m == Match(maker, "MAKER", maker.price, q)
           t == Match(Taker, "TAKER", maker.price, q)
           opp == Opposite(mside)
<1>1. mside \in Sides /\ opp \in Sides /\ e \in book[opp]
  BY DEF TypeOK, Opposite, Sides, OppBook
<1>2. e[2] \in DOMAIN odrMap /\ maker \in Order /\ e[2] # taker /\ e[2] \in Nat
  BY <1>1, EntryFacts DEF ApartInv, TypeOK
<1>3. Taker \in Order /\ maker.price \in Int /\ maker.remain_quantity \in Nat
  BY <1>2, TakerFacts, FieldFacts
<1>4. /\ m \in Order /\ Same(m, maker) /\ m.price = maker.price
      /\ m.remain_quantity \in Nat
  BY <1>2, <1>3, MatchFacts, FieldFacts
<1>5. /\ t \in Order /\ Same(t, Taker) /\ t.price = Taker.price
      /\ t.remain_quantity = Taker.remain_quantity - q
      /\ t.remain_quantity = 0 => t.order_state = "FILLED"
  BY <1>3, MatchFacts
<1> DEFINE rest == IF m.remain_quantity = 0 THEN Drop(odrMap, e[2]) ELSE Put(odrMap, e[2], m)
<1>6. /\ book' = IF m.remain_quantity = 0 THEN [book EXCEPT ![opp] = @ \ {e}] ELSE book
      /\ SetTaker(rest, t) /\ Callback(<<m, t>>)
      /\ corrupt' = (e[2] = taker \/ Dangling(rest, book'))
  BY DEF Fill
<1> HIDE DEF maker, m, t, opp
<1>7. /\ rest \in [DOMAIN rest -> Order]
      /\ DOMAIN rest = IF m.remain_quantity = 0 THEN DOMAIN odrMap \ {e[2]} ELSE DOMAIN odrMap
      /\ \A i \in DOMAIN rest : i # e[2] => rest[i] = odrMap[i]
      /\ e[2] \in DOMAIN rest => rest[e[2]] = m /\ m.remain_quantity > 0
  <2>1. CASE m.remain_quantity = 0
    BY <2>1 DEF TypeOK, Drop
  <2>2. CASE m.remain_quantity # 0
    <3>1. rest = Put(odrMap, e[2], m)
      BY <2>2
    <3> HIDE DEF rest
    <3>2. DOMAIN rest = DOMAIN odrMap /\ rest \in [DOMAIN rest -> Order]
          /\ rest[e[2]] = m /\ \A i \in DOMAIN rest : i # e[2] => rest[i] = odrMap[i]
      BY <1>2, <1>4, <3>1 DEF TypeOK, Put
    <3> QED
      BY <1>4, <2>2, <3>2
  <2> QED
    BY <2>1, <2>2
<1> HIDE DEF rest
<1>8. /\ odrMap' \in [DOMAIN rest -> Order] /\ DOMAIN odrMap' = DOMAIN rest
      /\ \A i \in DOMAIN rest : i # taker => odrMap'[i] = rest[i]
      /\ taker # 0 => odrMap'[taker] = t
      /\ o' = IF taker = 0 THEN t ELSE o
      /\ Taker' = t
  <2>1. CASE taker = 0
    BY <1>6, <1>7, <2>1 DEF SetTaker, Taker, TypeOK
  <2>2. CASE taker # 0
    <3>1. taker \in DOMAIN rest
      BY <1>2, <1>7, <2>2 DEF CallInv
    <3>2. odrMap' = Put(rest, taker, t) /\ o' = o
      BY <1>6, <2>2 DEF SetTaker
    <3> QED
      BY <1>5, <1>7, <2>2, <3>1, <3>2 DEF Put, Taker
  <2> QED
    BY <2>1, <2>2
<1>9. o' \in Order /\ Same(o', o)
  BY <1>5, <1>8 DEF TypeOK, Same, Taker
<1>10. \A i \in DOMAIN odrMap' : Same(odrMap'[i], odrMap[i])
  <2>1. ASSUME NEW i \in DOMAIN odrMap', i # taker, i # e[2] PROVE Same(odrMap'[i], odrMap[i])
    BY <1>7, <1>8, <2>1 DEF Same
  <2>2. ASSUME taker \in DOMAIN odrMap', taker # 0 PROVE Same(odrMap'[taker], odrMap[taker])
    BY <1>5, <1>8, <2>2 DEF Taker
  <2>3. ASSUME e[2] \in DOMAIN odrMap' PROVE Same(odrMap'[e[2]], odrMap[e[2]])
    BY <1>2, <1>4, <1>7, <1>8, <2>3 DEF maker
  <2>4. \A i \in DOMAIN odrMap' : i # 0
    BY <1>2, <1>7, <1>8 DEF TypeOK
  <2> QED
    BY <2>1, <2>2, <2>3, <2>4
<1>11. cbRecords' \in Seq(Order) /\ emitted' \in Seq(Order)
  <2>1. <<m, t>> \in Seq(Order) /\ cbRecords \in Seq(Order)
    BY <1>4, <1>5 DEF TypeOK
  <2> QED
    BY <1>6, <2>1, CallbackFacts
<1>12. /\ book' \in [Sides -> SUBSET Entries]
       /\ \A s \in Sides : book'[s] \subseteq book[s]
       /\ \A s \in Sides : \A f \in book[s] : f # e => f \in book'[s]
  BY <1>1, <1>6 DEF TypeOK
<1>13. \A s \in Sides : e \in book'[s] => e[2] \in DOMAIN odrMap'
  <2>1. \A s \in Sides : e \in book[s] => s = opp
    BY <1>1, EntryFacts
  <2>2. m.remain_quantity = 0 => e \notin book'[opp]
    BY <1>1, <1>6 DEF TypeOK
  <2> QED
    BY <1>2, <1>7, <1>8, <1>12, <2>1, <2>2
<1>14. e[2] \in DOMAIN odrMap' => /\ odrMap'[e[2]].price = odrMap[e[2]].price
                                  /\ odrMap'[e[2]].remain_quantity > 0
  BY <1>2, <1>4, <1>7, <1>8 DEF maker
<1>15. /\ DOMAIN odrMap' \subseteq DOMAIN odrMap /\ DOMAIN odrMap \ {e[2]} \subseteq DOMAIN odrMap'
       /\ \A i \in DOMAIN odrMap' : i # e[2] /\ i # taker => odrMap'[i] = odrMap[i]
       /\ odrMap' \in [DOMAIN odrMap' -> Order]
  BY <1>2, <1>7, <1>8
<1>16. corrupt' = FALSE
  <2>1. ASSUME NEW s \in Sides, NEW f \in book'[s] PROVE f[2] \in DOMAIN rest
    <3>1. f \in book[s] /\ f[2] \in DOMAIN odrMap
      BY <1>12 DEF RestingInv
    <3>2. f = e \/ f[2] # e[2]
      BY <1>1, <3>1, EntryFacts
    <3> QED
      BY <1>7, <1>8, <1>13, <3>1, <3>2
  <2>2. ASSUME NEW s \in Sides, NEW f \in stopBook[s] \cup due PROVE f[2] \in DOMAIN rest
    <3>1. f[2] \in DOMAIN odrMap
      BY DEF StopInv, Waiting
    <3>2. f[2] # e[2]
      BY <1>1 DEF ApartInv
    <3> QED
      BY <1>7, <3>1, <3>2
  <2>3. ~Dangling(rest, book')
    BY <2>1, <2>2 DEF Dangling
  <2> QED
    BY <1>2, <1>6, <2>3
<1> QED
  BY <1>5, <1>8, <1>9, <1>10, <1>11, <1>12, <1>13, <1>14, <1>15, <1>16 DEF Filled

\* A fill keeps everything that does not speak of the plan of fok_match.
LEMMA FillOk ==
  ASSUME TypeOK, CallInv, RestingInv, StopInv, ApartInv,
         pc \in {"match", "fok"}, NEW e \in OppBook, NEW q \in Nat, Filled(e, q),
         UNCHANGED <<stopBook, isAuction, mutex, pc, taker, mside, sweep, due>>,
         nextId' = nextId + 1, left' \in Nat, plan' \in Seq(Records)
  PROVE  /\ TypeOK' /\ CallInv' /\ RestingInv' /\ StopInv' /\ ApartInv'
<1>1. mside \in Sides /\ Opposite(mside) \in Sides /\ e \in book[Opposite(mside)]
  BY DEF TypeOK, Opposite, Sides, OppBook
<1>2. TypeOK'
  <2>1. \A i \in DOMAIN odrMap' : odrMap'[i].order_id = i /\ i \in Nat /\ 0 < i /\ i < nextId'
    <3>1. \A i \in DOMAIN odrMap' : i \in DOMAIN odrMap /\ odrMap'[i].order_id = odrMap[i].order_id
      BY DEF Filled, Same
    <3>2. /\ \A i \in DOMAIN odrMap : odrMap[i].order_id = i /\ i \in Nat /\ 0 < i /\ i < nextId
          /\ nextId \in Nat
      BY DEF TypeOK
    <3>3. \A i \in DOMAIN odrMap : i < nextId'
      BY <3>2
    <3> QED
      BY <3>1, <3>2, <3>3
  <2>2. corrupt' \in BOOLEAN
    BY DEF Filled
  <2>3. nextId' \in Nat /\ nextId' > 0
    BY DEF TypeOK
  <2> QED
    BY <2>1, <2>2, <2>3 DEF Filled, TypeOK
<1>3. e[2] # taker /\ \A s \in Sides : \A f \in stopBook[s] \cup due : f[2] # e[2] /\ f[2] # taker
  BY <1>1 DEF ApartInv
<1>4. CallInv'
  <2>1. isAuction' => o'.side \in Sides
    BY DEF Filled, CallInv, Same
  <2>2. \A i \in DOMAIN odrMap' : odrMap'[i].side # "BUY_SELL_STOP"
    BY SMTT(30) DEF Filled, CallInv, Same
  <2>3. taker # 0 => taker \in DOMAIN odrMap'
    BY <1>3 DEF Filled, CallInv
  <2>4. TradeSide(Taker') = TradeSide(Taker)
    BY DEF Filled, TradeSide, Same
  <2>5. taker = 0 => /\ o'.order_id \notin DOMAIN odrMap' /\ 0 < o'.order_id
                     /\ o'.order_id < nextId'
    <3>1. o.order_id \in Nat /\ nextId \in Nat
      BY DEF TypeOK, Order
    <3> QED
      BY <3>1 DEF Filled, CallInv, Same
  <2>6. o'.side # "BUY_SELL_STOP" /\ o'.order_action = o.order_action
    BY DEF Filled, CallInv, Same
  <2>7. TradeSide(Taker)' = mside'
    BY <2>4 DEF CallInv, TradeSide
  <2> QED
    BY <2>1, <2>2, <2>3, <2>5, <2>6, <2>7 DEF CallInv
<1>5. RestingInv'
  <2>1. SUFFICES ASSUME NEW s \in Sides, NEW f \in book'[s]
                 PROVE  /\ f[2] \in DOMAIN odrMap' /\ odrMap'[f[2]].price = f[1]
                        /\ TradeSide(odrMap'[f[2]]) = s
                        /\ odrMap'[f[2]].remain_quantity > 0
    BY DEF RestingInv, TradeSide
  <2>2. f \in book[s]
    BY DEF Filled
  <2>3. CASE f = e
    BY <2>2, <2>3 DEF Filled, RestingInv, Same, TradeSide
  <2>4. CASE f # e
    <3>1. f[2] # e[2] /\ f[2] # taker
      BY <1>1, <2>2, <2>4, EntryFacts DEF ApartInv
    <3>2. f[2] \in DOMAIN odrMap' /\ odrMap'[f[2]] = odrMap[f[2]]
      BY <2>2, <3>1 DEF Filled, RestingInv
    <3> QED
      BY <2>2, <3>2 DEF RestingInv
  <2> QED
    BY <2>3, <2>4
<1>6. ApartInv'
  BY DEF ApartInv, Filled, Sides
<1>7. StopInv'
  <2>1. \A s \in Sides : \A f \in stopBook[s] \cup due : Waiting(s, f) => Waiting(s, f)'
    <3>1. SUFFICES ASSUME NEW s \in Sides, NEW f \in stopBook[s] \cup due, Waiting(s, f)
                   PROVE  Waiting(s, f)'
      OBVIOUS
    <3>2. f[2] \in DOMAIN odrMap' /\ odrMap'[f[2]] = odrMap[f[2]]
      BY <1>3, <3>1 DEF Filled, Waiting
    <3> QED
      BY <3>1, <3>2 DEF Waiting
  <2> QED
    BY <2>1 DEF StopInv, TypeOK
<1> QED
  BY <1>2, <1>4, <1>5, <1>6, <1>7


\* One round of normal_match.
LEMMA MatchTopOk ==
  ASSUME IInv, ~corrupt, MatchTop
  PROVE  IInv'
<1>1. TypeOK /\ CallInv /\ RestingInv /\ StopInv /\ ApartInv /\ FokInv
  BY DEF IInv
<1>2. /\ UNCHANGED <<stopBook, isAuction, mutex, pc, taker, mside, sweep, due>>
      /\ UNCHANGED <<left, plan>> /\ pc = "match" /\ nextId' = nextId + 1
  BY DEF MatchTop, Fill, lockVars, matchVars, sweepVars
<1>3. PICK e \in OppBook :
        Fill(e, MatchedQuantity(odrMap[e[2]].remain_quantity, Taker.remain_quantity))
  BY DEF MatchTop
<1> DEFINE q == MatchedQuantity(odrMap[e[2]].remain_quantity, Taker.remain_quantity)
<1>4. q \in Nat /\ q <= odrMap[e[2]].remain_quantity /\ q <= Taker.remain_quantity
  <2>1. Opposite(mside) \in Sides
    BY DEF Opposite, Sides
  <2>2. odrMap[e[2]].remain_quantity \in Nat /\ Taker.remain_quantity \in Nat
    BY <1>1, <2>1, EntryFacts, TakerFacts, FieldFacts DEF OppBook
  <2> QED
    BY <2>2, MatchedFacts
<1>5. Fill(e, q)
  BY <1>3
<1> HIDE DEF q
<1>6. Filled(e, q)
  BY <1>1, <1>2, <1>4, <1>5, FillFacts
<1>7. TypeOK' /\ CallInv' /\ RestingInv' /\ StopInv' /\ ApartInv'
  <2>1. left' \in Nat /\ plan' \in Seq(Records)
    BY <1>1, <1>2 DEF TypeOK
  <2> QED
    BY <1>1, <1>2, <1>4, <1>6, <2>1, FillOk
<1>8. PlanInv' /\ FokInv'
  BY <1>1, <1>2, <1>6 DEF PlanInv, FokInv, FokAllOrNothing, Filled, Same
<1> QED
  BY <1>7, <1>8 DEF IInv

\* fok_match trades its first record; the next ones are still good.
LEMMA FokFillOk ==
  ASSUME IInv, ~corrupt, FokFill
  PROVE  IInv'
<1>1. /\ TypeOK /\ CallInv /\ RestingInv /\ StopInv /\ ApartInv /\ FokInv
      /\ PlanInv
  BY DEF IInv
<1>2. /\ UNCHANGED <<stopBook, isAuction, mutex, pc, taker, mside, sweep, due, left>>
      /\ pc = "fok" /\ left = 0 /\ plan # <<>> /\ plan' = Tail(plan)
      /\ Fill(Head(plan).entry, Head(plan).quantity) /\ nextId' = nextId + 1
  BY DEF FokFill, Fill, lockVars, sweepVars
<1> DEFINE e == plan[1].entry
           q == plan[1].quantity
<1>3. /\ plan \in Seq(Records) /\ Len(plan) \in Nat /\ Len(plan) > 0
      /\ DOMAIN plan = 1 .. Len(plan) /\ Head(plan) = plan[1] /\ 1 \in DOMAIN plan
  BY <1>1, <1>2 DEF TypeOK
<1>4. /\ plan' \in Seq(Records) /\ Len(plan') = Len(plan) - 1
      /\ DOMAIN plan' = 1 .. Len(plan) - 1 /\ \A i \in DOMAIN plan' : plan'[i] = plan[i + 1]
      /\ Len(plan) = 1 <=> plan' = <<>>
  <2>1. /\ plan' \in Seq(Records) /\ Len(plan') = Len(plan) - 1
        /\ \A i \in 1 .. Len(plan) - 1 : plan'[i] = plan[i + 1]
    BY <1>2, <1>3, HeadTailProperties
  <2>2. DOMAIN plan' = 1 .. Len(plan')
    BY <2>1
  <2>3. plan' = <<>> <=> Len(plan') = 0
    BY <2>1, EmptySeq
  <2> QED
    BY <1>3, <2>1, <2>2, <2>3
<1>5. \A i \in DOMAIN plan : plan[i].entry \in Entries /\ plan[i].quantity \in Nat /\ plan[i].left \in Nat
  <2>1. \A i \in DOMAIN plan : plan[i] \in Records
    BY <1>3, ElementOfSeq
  <2> QED
    BY <2>1 DEF Records
<1>6. Opposite(mside) \in Sides
  BY DEF Opposite, Sides
<1>7. /\ e \in OppBook /\ q \in Nat /\ q <= odrMap[e[2]].remain_quantity
      /\ q + plan[1].left = Taker.remain_quantity /\ Taker.remain_quantity \in Nat
      /\ q <= Taker.remain_quantity
  <2>1. Taker.remain_quantity \in Nat
    BY <1>1, TakerFacts, FieldFacts
  <2> QED
    BY <1>1, <1>2, <1>3, <1>5, <2>1 DEF PlanInv
<1>8. Fill(e, q)
  BY <1>2, <1>3
<1> HIDE DEF e, q
<1>9. Filled(e, q)
  BY <1>1, <1>2, <1>7, <1>8, FillFacts
<1>10. TypeOK' /\ CallInv' /\ RestingInv' /\ StopInv' /\ ApartInv'
  <2>1. left' \in Nat
    BY <1>2
  <2> QED
    BY <1>1, <1>2, <1>4, <1>7, <1>9, <2>1, FillOk
<1>11. PlanInv'
  <2>1. ASSUME NEW i \in DOMAIN plan'
        PROVE  /\ plan'[i].entry \in OppBook'
               /\ plan'[i].quantity <= odrMap'[plan'[i].entry[2]].remain_quantity
    <3> DEFINE f == plan[i + 1].entry
    <3>1. i + 1 \in DOMAIN plan /\ i + 1 # 1 /\ plan'[i] = plan[i + 1]
      BY <1>3, <1>4
    <3>2. f \in OppBook /\ f # e /\ plan[i + 1].quantity <= odrMap[f[2]].remain_quantity
      BY <1>1, <1>2, <1>3, <3>1 DEF PlanInv, e
    <3>3. f \in book'[Opposite(mside)]
      BY <1>6, <1>9, <3>2 DEF Filled, OppBook
    <3>4. f[2] # e[2] /\ f[2] # taker /\ f[2] \in DOMAIN odrMap
      BY <1>1, <1>2, <1>6, <1>7, <3>2, EntryFacts DEF ApartInv, OppBook
    <3>5. odrMap'[f[2]] = odrMap[f[2]]
      BY <1>9, <3>4 DEF Filled
    <3> QED
      BY <1>2, <3>1, <3>2, <3>3, <3>5 DEF OppBook
  <2>2. \A i, j \in DOMAIN plan' : i # j => plan'[i].entry # plan'[j].entry
    BY <1>1, <1>2, <1>3, <1>4 DEF PlanInv
  <2>3. Taker'.remain_quantity = plan[1].left
    BY <1>3, <1>5, <1>7, <1>9 DEF Filled
  <2>4. CASE Len(plan) = 1
    BY <1>1, <1>2, <1>3, <1>4, <2>3, <2>4 DEF PlanInv
  <2>5. CASE Len(plan) > 1
    <3>1. plan'[1] = plan[2] /\ plan'[Len(plan')] = plan[Len(plan)] /\ 1 + 1 \in DOMAIN plan
      BY <1>3, <1>4, <2>5
    <3>2. plan'[1].quantity + plan'[1].left = Taker'.remain_quantity
      BY <1>1, <1>2, <1>3, <2>3, <3>1 DEF PlanInv
    <3>3. plan'[Len(plan')].left = left'
      BY <1>1, <1>2, <3>1 DEF PlanInv
    <3>4. ASSUME NEW i \in DOMAIN plan', i + 1 \in DOMAIN plan'
          PROVE  plan'[i].left = plan'[i + 1].quantity + plan'[i + 1].left
      <4>1. i + 1 \in DOMAIN plan /\ (i + 1) + 1 \in DOMAIN plan
        BY <1>3, <1>4, <3>4
      <4>2. plan[i + 1].left = plan[(i + 1) + 1].quantity + plan[(i + 1) + 1].left
        BY <1>1, <1>2, <4>1 DEF PlanInv
      <4> QED
        BY <1>4, <3>4, <4>2
    <3> QED
      BY <1>2, <1>4, <2>1, <2>2, <2>5, <3>2, <3>3, <3>4 DEF PlanInv
  <2> QED
    BY <1>3, <2>4, <2>5
<1>12. FokInv'
  BY <1>1, <1>2, <1>9 DEF FokInv, FokAllOrNothing, Filled, Same
<1> QED
  BY <1>10, <1>11, <1>12 DEF IInv

\* The taker goes to its own book.
LEMMA RestOk ==
  ASSUME IInv, ~corrupt, pc = "match", Taker.remain_quantity # 0, NEW p \in Int, Rest(p)
  PROVE  IInv'
<1> DEFINE ord == Repriced(p)
           id == ord.order_id
<1>1. TypeOK /\ CallInv /\ RestingInv /\ StopInv /\ ApartInv /\ FokInv
  BY DEF IInv
<1>2. /\ ord \in Order /\ Same(ord, Taker) /\ ord.price = p
      /\ ord.remain_quantity = Taker.remain_quantity
  BY <1>1, TakerFacts, PriceFacts DEF Repriced
<1>3. /\ UNCHANGED <<stopBook, nextId, isAuction, mutex, corrupt>>
      /\ UNCHANGED <<taker, mside, sweep, due, left, plan>>
      /\ odrMap' = Put(odrMap, id, ord) /\ o' = IF taker = 0 THEN ord ELSE o
      /\ book' = [book EXCEPT ![mside] = @ \cup {<<p, id>>}]
      /\ Callback(<<ord>>) \/ Silent
      /\ pc' = "matched"
  BY DEF Rest, lockVars, matchVars, sweepVars
<1>4. /\ Taker \in Order /\ (taker # 0 => id = taker)
      /\ ord.remain_quantity > 0 /\ id \in Nat
  <2>1. Taker \in Order /\ (taker # 0 => Taker.order_id = taker)
    BY <1>1, TakerFacts
  <2>2. Taker.remain_quantity \in Nat
    BY <2>1, FieldFacts
  <2> QED
    BY <1>2, <2>1, <2>2, FieldFacts DEF Same
<1>5. 0 < id /\ id < nextId /\ (taker = 0 => id \notin DOMAIN odrMap)
  BY <1>1, <1>2, <1>4 DEF CallInv, TypeOK, Taker, Same
<1> HIDE DEF ord
<1>6. /\ odrMap' \in [DOMAIN odrMap' -> Order] /\ DOMAIN odrMap' = DOMAIN odrMap \cup {id}
      /\ odrMap'[id] = ord /\ \A i \in DOMAIN odrMap : i # id => odrMap'[i] = odrMap[i]
  BY <1>1, <1>2, <1>3 DEF TypeOK, Put
<1>7. o' \in Order /\ Same(o', o) /\ Taker' = ord
  BY <1>1, <1>2, <1>3, <1>4, <1>6 DEF TypeOK, Taker, Same
<1>8. \A s \in Sides : \A e \in book[s] \cup stopBook[s] \cup due :
        e[2] # id /\ e[2] \in DOMAIN odrMap
  <2>1. \A s \in Sides : \A e \in book[s] \cup stopBook[s] \cup due : e[2] \in DOMAIN odrMap
    BY <1>1 DEF RestingInv, StopInv, Waiting
  <2>2. \A s \in Sides : \A e \in book[s] \cup stopBook[s] \cup due : e[2] # taker
    BY <1>1 DEF ApartInv
  <2> QED
    BY <1>4, <1>5, <2>1, <2>2
<1>9. /\ book'[mside] = book[mside] \cup {<<p, id>>}
      /\ book'[Opposite(mside)] = OppBook
      /\ book' \in [Sides -> SUBSET Entries]
      /\ mside \in Sides /\ Opposite(mside) \in Sides /\ Sides = {mside, Opposite(mside)}
  <2>1. <<p, id>> \in Entries
    BY <1>4 DEF Entries
  <2> QED
    BY <1>1, <1>3, <2>1 DEF TypeOK, OppBook, Opposite, Sides
<1>10. TypeOK'
  <2>1. cbRecords' \in Seq(Order) /\ emitted' \in Seq(Order)
    <3>1. CASE Callback(<<ord>>)
      <4>1. <<ord>> \in Seq(Order) /\ cbRecords \in Seq(Order)
        BY <1>1, <1>2 DEF TypeOK
      <4> QED
        BY <3>1, <4>1, CallbackFacts
    <3>2. CASE Silent
      BY <1>1, <3>2 DEF Silent, TypeOK
    <3> QED
      BY <1>3, <3>1, <3>2
  <2>2. \A i \in DOMAIN odrMap' : odrMap'[i].order_id = i /\ i \in Nat /\ 0 < i /\ i < nextId
    BY <1>1, <1>4, <1>5, <1>6 DEF TypeOK
  <2>3. pc' \in Pcs
    BY <1>3 DEF Pcs
  <2> QED
    BY <1>1, <1>3, <1>6, <1>7, <1>9, <2>1, <2>2, <2>3 DEF TypeOK
<1>11. CallInv'
  <2>1. isAuction' => o'.side \in Sides
    BY <1>1, <1>3, <1>7 DEF CallInv, Same
  <2>2. \A i \in DOMAIN odrMap' : odrMap'[i].side # "BUY_SELL_STOP"
    <3>1. ord.side # "BUY_SELL_STOP"
      BY <1>1, <1>2 DEF CallInv, Same, Taker
    <3> QED
      BY <1>1, <1>6, <3>1 DEF CallInv
  <2> QED
    BY <1>1, <1>3, <1>6, <1>7, <2>1, <2>2 DEF CallInv, Same
<1>12. RestingInv'
  <2>1. SUFFICES ASSUME NEW s \in Sides, NEW e \in book'[s]
                 PROVE  /\ e[2] \in DOMAIN odrMap' /\ odrMap'[e[2]].price = e[1]
                        /\ TradeSide(odrMap'[e[2]]) = s
                        /\ odrMap'[e[2]].remain_quantity > 0
    BY DEF RestingInv, TradeSide
  <2>2. CASE e \in book[s]
    <3>1. odrMap'[e[2]] = odrMap[e[2]] /\ e[2] \in DOMAIN odrMap'
      BY <1>6, <1>8, <2>2
    <3> QED
      BY <1>1, <2>2, <3>1 DEF RestingInv
  <2>3. CASE e \notin book[s]
    <3>1. s = mside /\ e = <<p, id>>
      BY <1>9, <2>3 DEF OppBook
    <3>2. TradeSide(ord) = mside
      BY <1>1, <1>2 DEF CallInv, TradeSide, Same
    <3> QED
      BY <1>2, <1>4, <1>6, <3>1, <3>2
  <2> QED
    BY <2>2, <2>3
<1>14. StopInv'
  <2>1. \A s \in Sides : \A f \in stopBook[s] \cup due : Waiting(s, f) => Waiting(s, f)'
    BY <1>6, <1>8 DEF Waiting
  <2> QED
    BY <1>1, <1>3, <2>1 DEF StopInv, TypeOK
<1>15. ApartInv'
  <2>1. ASSUME NEW s \in Sides, NEW e \in book'[s], NEW t \in Sides, NEW f \in stopBook[t] \cup due
        PROVE  e[2] # f[2]
    <3>1. CASE e \in book[s]
      BY <1>1, <3>1 DEF ApartInv
    <3>2. CASE e \notin book[s]
      BY <1>8, <1>9, <3>2 DEF OppBook
    <3> QED
      BY <3>1, <3>2
  <2> QED
    BY <1>3, <2>1 DEF ApartInv
<1>16. PlanInv' /\ FokInv'
  BY <1>1, <1>2, <1>3, <1>7 DEF PlanInv, FokInv, FokAllOrNothing, Same
<1> QED
  BY <1>10, <1>11, <1>12, <1>14, <1>15, <1>16 DEF IInv

\* When the best order of the other book is out of reach, all of them are.
LEMMA TopFacts ==
  ASSUME TypeOK, CallInv, RestingInv, NEW e \in OppBook, TopOpposite(e)
  PROVE  /\ PriceOf(e) = e[1] /\ e[1] \in Int
         /\ \A f \in OppBook : f[1] \in Int
         /\ mside = "BUY" => \A f \in OppBook : e[1] <= f[1]
         /\ mside # "BUY" => \A f \in OppBook : f[1] <= e[1]
<1>1. mside \in Sides /\ Opposite(mside) \in Sides
  BY DEF TypeOK, Opposite, Sides
<1>2. \A f \in OppBook : f[1] \in Int /\ PriceOf(f) = f[1]
  BY <1>1, EntryFacts DEF OppBook, PriceOf, RestingInv
<1> QED
  BY <1>1, <1>2 DEF TopOpposite, IsTop, Ahead, Opposite, Sides

\* A taker is put in its book at a price that no order of the other book reaches.
LEMMA RestsBeyond ==
  ASSUME TypeOK, CallInv, RestingInv, RestRemainder \/ RestRepriced
  PROVE  \E p \in Int :
           /\ pc = "match" /\ Taker.remain_quantity # 0 /\ Rest(p)
           /\ \A f \in OppBook : IF mside = "BUY" THEN p < f[1] ELSE f[1] < p
<1>1. TypeOK /\ CallInv /\ RestingInv /\ mside \in Sides
  BY DEF TypeOK
<1>2. Taker \in Order /\ Taker.price \in Int
  BY <1>1, TakerFacts, FieldFacts
<1>3. CASE RestRepriced
  <2>1. PICK e \in OppBook :
          /\ TopOpposite(e)
          /\ Rest(IF mside = "BUY" THEN PriceOf(e) - MiniTick ELSE PriceOf(e) + MiniTick)
    BY <1>3 DEF RestRepriced, Crossing
  <2> DEFINE p == IF mside = "BUY" THEN PriceOf(e) - MiniTick ELSE PriceOf(e) + MiniTick
  <2>2. p \in Int /\ \A f \in OppBook : IF mside = "BUY" THEN p < f[1] ELSE f[1] < p
    BY <1>1, <2>1, TopFacts, TickAssumption
  <2>3. Rest(p)
    BY <2>1
  <2> HIDE DEF p
  <2> QED
    BY <1>3, <2>2, <2>3 DEF RestRepriced
<1>4. CASE RestRemainder /\ Taker.price # MARKET_PRICE
  <2>1. Rest(Taker.price) /\ NoneCrosses /\ pc = "match" /\ Taker.remain_quantity # 0
    BY <1>4 DEF RestRemainder
  <2>2. \A f \in OppBook : IF mside = "BUY" THEN Taker.price < f[1] ELSE f[1] < Taker.price
    <3>1. CASE OppBook = {}
      BY <3>1
    <3>2. CASE OppBook # {}
      <4>1. PICK e \in OppBook : TopOpposite(e) /\ ~Crosses(mside, Taker.price, PriceOf(e))
        BY <2>1, <3>2 DEF NoneCrosses
      <4>2. IF mside = "BUY" THEN Taker.price < e[1] ELSE e[1] < Taker.price
        BY <1>1, <1>2, <4>1, TopFacts DEF Crosses
      <4> QED
        BY <1>1, <1>2, <4>1, <4>2, TopFacts
    <3> QED
      BY <3>1, <3>2
  <2> QED
    BY <1>2, <2>1, <2>2
<1>5. CASE RestRemainder /\ Taker.price = MARKET_PRICE
  <2>1. PICK e \in book[mside] : Rest(PriceOf(e))
    BY <1>5 DEF RestRemainder
  <2>2. NoneCrosses /\ pc = "match" /\ Taker.remain_quantity # 0
    BY <1>5 DEF RestRemainder
  <2>3. OppBook = {}
    BY <1>5, <2>2 DEF NoneCrosses, Crosses
  <2>4. PriceOf(e) \in Int
    BY <1>1, EntryFacts DEF PriceOf, RestingInv
  <2> QED
    BY <2>1, <2>2, <2>3, <2>4
<1> QED
  BY <1>3, <1>4, <1>5

\* An order that rests, at the price it gets, keeps IInv.
LEMMA RestsOk ==
  ASSUME IInv, ~corrupt, RestRemainder \/ RestRepriced
  PROVE  IInv'
<1>1. PICK p \in Int : pc = "match" /\ Taker.remain_quantity # 0 /\ Rest(p)
  BY RestsBeyond DEF IInv
<1> QED
  BY <1>1, RestOk

-----------------------------------------------------------------------------
(* The stop triggers.                                                      *)

\* The stops that are due move from their book to odr_list.
LEMMA SweepStopsOk ==
  ASSUME IInv, ~corrupt, SweepStops
  PROVE  IInv'
<1>1. TypeOK /\ CallInv /\ RestingInv /\ StopInv /\ ApartInv
  BY DEF IInv
<1>2. /\ UNCHANGED <<odrMap, book, nextId, isAuction, cbRecords, mutex, corrupt>>
      /\ UNCHANGED <<o, taker, mside, sweep, left, plan>>
      /\ due' = DueStops /\ stopBook' = [stopBook EXCEPT ![sweep] = @ \ DueStops]
      /\ pc = "sweep" /\ pc' = "fire" /\ emitted' = <<>>
  BY DEF SweepStops, CollectStops, Silent, lockVars, matchVars
<1>3. /\ sweep \in Sides /\ DueStops \subseteq stopBook[sweep]
      /\ \A s \in Sides : stopBook'[s] \subseteq stopBook[s]
      /\ \A e \in DueStops : e \notin stopBook'[sweep]
      /\ stopBook' \in [Sides -> SUBSET Entries] /\ DueStops \in SUBSET Entries
  BY <1>1, <1>2 DEF TypeOK, DueStops
<1>4. taker = 0 /\ due = {}
  BY <1>1, <1>2 DEF CallInv
<1>5. TypeOK'
  <2>1. pc' \in Pcs /\ emitted' \in Seq(Order)
    BY <1>2 DEF Pcs
  <2> QED
    BY <1>1, <1>2, <1>3, <2>1 DEF TypeOK
<1>6. CallInv'
  BY <1>1, <1>2, <1>4 DEF CallInv
<1>7. RestingInv'
  BY <1>1, <1>2 DEF RestingInv
<1>8. StopInv'
  <2>1. \A s \in Sides : \A e \in stopBook[s] : Waiting(s, e)'
    BY <1>1, <1>2 DEF StopInv, Waiting
  <2> QED
    BY <1>2, <1>3, <2>1 DEF StopInv
<1>9. ApartInv'
  BY <1>1, <1>2, <1>3 DEF ApartInv
<1> QED
  BY <1>2, <1>5, <1>6, <1>7, <1>8, <1>9, NoTaker DEF IInv

\* A stop of odr_list becomes the taker, at its limit price.
LEMMA FireStopOk ==
  ASSUME IInv, ~corrupt, FireStop
  PROVE  IInv'
<1>1. TypeOK /\ CallInv /\ RestingInv /\ StopInv /\ ApartInv
  BY DEF IInv
<1>2. PICK e \in due :
        /\ odrMap' = [odrMap EXCEPT ![e[2]].price = StopLimit(sweep, odrMap[e[2]])]
        /\ taker' = e[2] /\ due' = due \ {e} /\ StartMatch(sweep, odrMap[e[2]])
  BY DEF FireStop
<1> DEFINE ori == odrMap[e[2]]
           ord == [ori EXCEPT !.price = StopLimit(sweep, ori)]
<1>3. /\ UNCHANGED <<book, stopBook, nextId, isAuction, cbRecords, mutex, corrupt, o, sweep>>
      /\ emitted' = <<>> /\ pc = "fire"
  BY DEF FireStop, Silent, lockVars
<1>4. Waiting(sweep, e) /\ e \notin stopBook[sweep] /\ sweep \in Sides
  BY <1>1 DEF StopInv, TypeOK
<1>5. e[2] \in DOMAIN odrMap /\ ori \in Order /\ e[2] \in Nat /\ e[2] > 0
  BY <1>1, <1>4 DEF Waiting, TypeOK
<1>6. StopLimit(sweep, ori) \in Int
  BY <1>5, FieldFacts DEF StopLimit
<1>7. /\ ord \in Order /\ Same(ord, ori) /\ ord.remain_quantity = ori.remain_quantity
  BY <1>5, <1>6, PriceFacts
<1>8. /\ odrMap' \in [DOMAIN odrMap -> Order] /\ DOMAIN odrMap' = DOMAIN odrMap
      /\ odrMap'[e[2]] = ord /\ \A i \in DOMAIN odrMap : i # e[2] => odrMap'[i] = odrMap[i]
  <2>1. odrMap' = [odrMap EXCEPT ![e[2]] = ord]
    BY <1>2
  <2> HIDE DEF ord
  <2> QED
    BY <1>1, <1>5, <1>7, <2>1 DEF TypeOK
<1> HIDE DEF ord
<1>9. /\ mside' = sweep /\ left' = ori.remain_quantity /\ plan' = <<>>
      /\ pc' \in {"match", "fok"} /\ (pc' = "fok" <=> ori.time_condition = "FOK")
  BY <1>2 DEF StartMatch
<1>10. Taker' = ord
  BY <1>2, <1>5, <1>8 DEF Taker
<1>11. /\ ori.remain_quantity = ori.quantity /\ ori.quantity > 0 /\ ori.remain_quantity \in Nat
       /\ TradeSide(ori) = sweep
  BY <1>4, <1>5, FieldFacts DEF Waiting
<1> HIDE DEF ori
<1>12. \A i \in DOMAIN odrMap : Same(odrMap'[i], odrMap[i])
                                /\ odrMap'[i].remain_quantity = odrMap[i].remain_quantity
  BY <1>7, <1>8 DEF Same, ori
<1>13. \A s \in Sides : \A f \in stopBook[s] \cup due' : Waiting(s, f) => f[2] # e[2]
  <2>1. \A s \in Sides : \A f : Waiting(s, f) /\ f[2] = e[2] => s = sweep /\ f = e
    BY <1>4 DEF Waiting
  <2> QED
    BY <1>2, <1>4, <2>1
<1>14. \A s \in Sides : \A f \in book[s] : f[2] # e[2]
  BY <1>1, <1>4 DEF ApartInv
<1>15. TypeOK'
  <2>1. pc' \in Pcs /\ emitted' \in Seq(Order) /\ plan' \in Seq(Records)
    BY <1>3, <1>9 DEF Pcs
  <2>2. \A i \in DOMAIN odrMap' : odrMap'[i].order_id = i
    BY <1>1, <1>8, <1>12 DEF TypeOK, Same
  <2>3. due' \in SUBSET Entries /\ taker' \in Nat /\ left' \in Nat /\ mside' \in Sides
    BY <1>1, <1>2, <1>4, <1>5, <1>9, <1>11 DEF TypeOK
  <2> QED
    BY <1>1, <1>3, <1>8, <2>1, <2>2, <2>3 DEF TypeOK
<1>16. CallInv'
  <2>1. \A i \in DOMAIN odrMap' : odrMap'[i].side # "BUY_SELL_STOP"
    BY <1>1, <1>8, <1>12 DEF CallInv, Same
  <2>2. TradeSide(Taker)' = mside'
    BY <1>7, <1>9, <1>10, <1>11 DEF TradeSide, Same
  <2> QED
    BY <1>1, <1>2, <1>3, <1>5, <1>8, <1>9, <2>1, <2>2 DEF CallInv
<1>17. RestingInv'
  BY <1>1, <1>3, <1>8, <1>14 DEF RestingInv
<1>18. StopInv'
  <2>1. \A s \in Sides : \A f : Waiting(s, f) => Waiting(s, f)'
    BY <1>8, <1>12 DEF Waiting, Same, StopEntry, TradeSide
  <2> QED
    BY <1>1, <1>2, <1>3, <1>4, <2>1 DEF StopInv
<1>19. ApartInv'
  <2>1. ASSUME NEW s \in Sides, NEW f \in book[s] \cup stopBook[s] \cup due'
        PROVE  f[2] # e[2]
    <3>1. CASE f \in book[s]
      BY <1>14, <3>1
    <3>2. CASE f \in stopBook[s]
      BY <1>1, <1>13, <3>2 DEF StopInv
    <3>3. CASE f \in due'
      BY <1>1, <1>2, <1>4, <1>13, <3>3 DEF StopInv
    <3> QED
      BY <3>1, <3>2, <3>3
  <2> QED
    BY <1>1, <1>2, <1>3, <2>1 DEF ApartInv
<1>20. PlanInv'
  BY <1>7, <1>9, <1>10 DEF PlanInv
<1>21. FokInv'
  BY <1>7, <1>9, <1>10, <1>11 DEF FokInv, FokAllOrNothing, Same
<1> QED
  BY <1>15, <1>16, <1>17, <1>18, <1>19, <1>20, <1>21 DEF IInv

-----------------------------------------------------------------------------
(* handle_cancel and handle_amend.                                         *)

\* A store step of handle_cancel: entries go, orders keep what the books need.
LEMMA ShrinkOk ==
  ASSUME TypeOK, CallInv, RestingInv, StopInv, ApartInv,
         taker = 0, pc \notin {"fire", "match", "fok", "matched"},
         pc' \in {"cancel", "erase", "sweep"},
         odrMap' \in [DOMAIN odrMap -> Order], DOMAIN odrMap' = DOMAIN odrMap,
         \A i \in DOMAIN odrMap :
           /\ odrMap'[i].order_id = odrMap[i].order_id /\ odrMap'[i].side = odrMap[i].side
           /\ odrMap'[i].price = odrMap[i].price
           /\ odrMap'[i].quantity = odrMap[i].quantity
           /\ odrMap'[i].remain_quantity = odrMap[i].remain_quantity
           /\ odrMap'[i].buy_stop_trigger_price = odrMap[i].buy_stop_trigger_price
           /\ odrMap'[i].sell_stop_trigger_price = odrMap[i].sell_stop_trigger_price,
         book' \in [Sides -> SUBSET Entries], \A s \in Sides : book'[s] \subseteq book[s],
         stopBook' \in [Sides -> SUBSET Entries],
         \A s \in Sides : stopBook'[s] \subseteq stopBook[s],
         cbRecords' \in Seq(Order), emitted' \in Seq(Order), corrupt' \in BOOLEAN,
         sweep' \in Sides,
         UNCHANGED <<nextId, isAuction, mutex, o, taker, mside, due, left, plan>>
  PROVE  IInv'
<1>1. due = {}
  BY DEF CallInv
<1>2. TypeOK'
  <2>1. \A i \in DOMAIN odrMap' : odrMap'[i].order_id = i
    BY DEF TypeOK
  <2>2. pc' \in Pcs
    BY DEF Pcs
  <2> QED
    BY <2>1, <2>2 DEF TypeOK
<1>3. CallInv'
  BY <1>1 DEF CallInv
<1>4. RestingInv'
  BY DEF RestingInv, TradeSide, Sides
<1>5. StopInv'
  <2>1. \A s \in Sides : \A f : Waiting(s, f) => Waiting(s, f)'
    BY DEF Waiting, StopEntry, TradeSide
  <2> QED
    BY <1>1, <2>1 DEF StopInv
<1>6. ApartInv'
  BY <1>1 DEF ApartInv
<1> QED
  BY <1>2, <1>3, <1>4, <1>5, <1>6, NoTaker DEF IInv

\* The order is taken out of the books; its state is reported.
LEMMA CancelOk ==
  ASSUME IInv, ~corrupt, CancelParked \/ CancelResting
  PROVE  IInv'
<1>1. TypeOK /\ CallInv /\ RestingInv /\ StopInv /\ ApartInv
  BY DEF IInv
<1> DEFINE ori == odrMap[o.order_id]
           st == IF o.order_action = "CANCEL" THEN "CANCELED_BY_USER" ELSE "CANCELED_BY_AMEND"
           ord == [ori EXCEPT !.order_state = st]
<1>2. /\ UNCHANGED <<nextId, isAuction, mutex, o, taker, mside, due, left, plan>>
      /\ pc = "cancel" /\ o.order_id \in DOMAIN odrMap
      /\ Callback(<<ord>>) /\ odrMap' = [odrMap EXCEPT ![o.order_id] = ord]
      /\ pc' \in {"erase", "sweep"}
  BY DEF CancelParked, CancelResting, CancelReport, lockVars, matchVars, sweepVars
<1>3. ori \in Order /\ st \in States
  BY <1>1, <1>2 DEF TypeOK, States, DoneStates
<1>4. ord \in Order /\ Same(ord, ori) /\ ord.price = ori.price
      /\ ord.remain_quantity = ori.remain_quantity
  BY <1>3, StateFacts
<1> HIDE DEF ord
<1>5. /\ odrMap' \in [DOMAIN odrMap -> Order] /\ DOMAIN odrMap' = DOMAIN odrMap
      /\ \A i \in DOMAIN odrMap : odrMap'[i] = IF i = o.order_id THEN ord ELSE odrMap[i]
  BY <1>1, <1>2, <1>4 DEF TypeOK
<1>6. cbRecords' \in Seq(Order) /\ emitted' \in Seq(Order)
  <2>1. <<ord>> \in Seq(Order) /\ cbRecords \in Seq(Order)
    BY <1>1, <1>4 DEF TypeOK
  <2> QED
    BY <1>2, <2>1, CallbackFacts
<1>7. /\ book' \in [Sides -> SUBSET Entries] /\ \A s \in Sides : book'[s] \subseteq book[s]
      /\ stopBook' \in [Sides -> SUBSET Entries]
      /\ \A s \in Sides : stopBook'[s] \subseteq stopBook[s]
      /\ sweep' \in Sides
  <2>1. CASE CancelParked
    BY <1>1, <2>1 DEF CancelParked, Unparked, TypeOK, sweepVars
  <2>2. CASE CancelResting
    BY <1>1, <2>2 DEF CancelResting, TypeOK, RestingSide, Opposite, Sides
  <2> QED
    BY <2>1, <2>2
<1>8. corrupt' \in BOOLEAN
  BY DEF CancelParked, CancelResting
<1>9. taker = 0
  BY <1>1, <1>2 DEF CallInv
<1>10. \A i \in DOMAIN odrMap : /\ Same(odrMap'[i], odrMap[i])
                                /\ odrMap'[i].price = odrMap[i].price
                                /\ odrMap'[i].remain_quantity = odrMap[i].remain_quantity
  BY <1>4, <1>5 DEF Same
<1> HIDE DEF ori, st
<1> QED
  BY <1>1, <1>2, <1>5, <1>6, <1>7, <1>8, <1>9, <1>10, ShrinkOk DEF Same

\* An order that is to be replaced gets the amend action and goes to handle_cancel.
LEMMA AmendReplaceOk ==
  ASSUME IInv, ~corrupt, AmendReplace
  PROVE  IInv'
<1>1. TypeOK /\ CallInv /\ RestingInv /\ StopInv /\ ApartInv
  BY DEF IInv
<1> DEFINE ori == odrMap[o.order_id]
           ord == [ori EXCEPT !.order_action = "AMEND"]
<1>2. /\ UNCHANGED <<nextId, isAuction, mutex, o, taker, mside, sweep, due, left, plan>>
      /\ UNCHANGED <<book, stopBook, corrupt, cbRecords>>
      /\ pc = "amend" /\ pc' = "cancel" /\ emitted' = <<>>
      /\ odrMap' = [odrMap EXCEPT ![o.order_id] = ord]
  BY DEF AmendReplace, Silent, lockVars, matchVars, sweepVars
<1>3. o.order_id \in DOMAIN odrMap
  BY DEF AmendReplace, AmendReason
<1>4. ori \in Order /\ "AMEND" \in Actions
  BY <1>1, <1>3 DEF TypeOK, Actions
<1>5. /\ ord \in Order /\ ord.price = ori.price /\ ord.remain_quantity = ori.remain_quantity
      /\ ord.order_id = ori.order_id /\ ord.side = ori.side /\ ord.quantity = ori.quantity
      /\ ord.buy_stop_trigger_price = ori.buy_stop_trigger_price
      /\ ord.sell_stop_trigger_price = ori.sell_stop_trigger_price
  BY <1>4 DEF Order
<1> HIDE DEF ord
<1>6. /\ odrMap' \in [DOMAIN odrMap -> Order] /\ DOMAIN odrMap' = DOMAIN odrMap
      /\ \A i \in DOMAIN odrMap : odrMap'[i] = IF i = o.order_id THEN ord ELSE odrMap[i]
  BY <1>1, <1>2, <1>3, <1>5 DEF TypeOK
<1>7. cbRecords' \in Seq(Order) /\ emitted' \in Seq(Order)
  BY <1>1, <1>2 DEF TypeOK
<1>8. taker = 0
  BY <1>1, <1>2 DEF CallInv
<1>9. /\ book' \in [Sides -> SUBSET Entries] /\ \A s \in Sides : book'[s] \subseteq book[s]
      /\ stopBook' \in [Sides -> SUBSET Entries]
      /\ \A s \in Sides : stopBook'[s] \subseteq stopBook[s]
      /\ sweep' \in Sides /\ corrupt' \in BOOLEAN
  BY <1>1, <1>2 DEF TypeOK
<1> QED
  BY <1>1, <1>2, <1>5, <1>6, <1>7, <1>8, <1>9, ShrinkOk

\* The canceled order leaves _odr_map; an amend goes on as a new order.
LEMMA EraseOk ==
  ASSUME IInv, ~corrupt, EraseCanceled
  PROVE  IInv'
<1>1. TypeOK /\ CallInv /\ RestingInv /\ StopInv /\ ApartInv
  BY DEF IInv
<1>2. /\ UNCHANGED <<book, stopBook, nextId, isAuction, cbRecords, mutex>>
      /\ UNCHANGED <<taker, mside, sweep, due, left, plan>>
      /\ odrMap' = Drop(odrMap, o.order_id) /\ emitted' = <<>> /\ pc = "erase"
      /\ corrupt' = (o.order_id \notin DOMAIN odrMap \/ Dangling(odrMap', book))
  BY DEF EraseCanceled, Silent, lockVars, matchVars, sweepVars
<1>3. \/ pc' = "done" /\ o' = o
      \/ pc' = "new" /\ o' = [o EXCEPT !.order_id = 0, !.order_action = "NEW"]
  BY DEF EraseCanceled
<1>4. pc' \in {"done", "new"} /\ o' \in Order /\ o'.side = o.side
      /\ (pc' = "new" => o'.order_action = "NEW")
  <2>1. o \in Order /\ "NEW" \in Actions
    BY <1>1 DEF TypeOK, Actions
  <2> DEFINE new == [o EXCEPT !.order_id = 0, !.order_action = "NEW"]
  <2>2. new \in Order /\ new.side = o.side /\ new.order_action = "NEW"
    BY <2>1 DEF Order
  <2> HIDE DEF new
  <2>3. (pc' = "done" /\ o' = o) \/ (pc' = "new" /\ o' = new)
    BY <1>3 DEF new
  <2> QED
    BY <2>1, <2>2, <2>3
<1>5. /\ DOMAIN odrMap' \subseteq DOMAIN odrMap /\ odrMap' \in [DOMAIN odrMap' -> Order]
      /\ \A i \in DOMAIN odrMap' : odrMap'[i] = odrMap[i]
  BY <1>1, <1>2 DEF TypeOK, Drop
<1>6. TypeOK'
  <2>1. pc' \in Pcs /\ emitted' \in Seq(Order)
    BY <1>2, <1>4 DEF Pcs
  <2>2. corrupt' \in BOOLEAN
    BY <1>2
  <2>3. \A i \in DOMAIN odrMap' : odrMap'[i].order_id = i /\ i \in Nat /\ 0 < i /\ i < nextId
    BY <1>1, <1>5 DEF TypeOK
  <2> QED
    BY <1>1, <1>2, <1>4, <1>5, <2>1, <2>2, <2>3 DEF TypeOK
<1>7. SUFFICES ASSUME ~corrupt'
               PROVE  CallInv' /\ RestingInv' /\ StopInv' /\ ApartInv'
  BY <1>4, <1>6, NoTaker DEF IInv
<1>8. \A s \in Sides : \A e \in book[s] \cup stopBook[s] \cup due : e[2] \in DOMAIN odrMap'
  BY <1>2, <1>7 DEF Dangling
<1>9. CallInv'
  <2>1. isAuction' => o'.side \in Sides
    BY <1>1, <1>2, <1>4 DEF CallInv
  <2> QED
    BY <1>1, <1>2, <1>4, <1>5, <2>1 DEF CallInv
<1>10. RestingInv'
  BY <1>1, <1>2, <1>5, <1>8 DEF RestingInv
<1>11. StopInv'
  <2>1. \A s \in Sides : \A e \in stopBook[s] \cup due : Waiting(s, e) => Waiting(s, e)'
    BY <1>5, <1>8 DEF Waiting
  <2> QED
    BY <1>1, <1>2, <2>1 DEF StopInv, TypeOK
<1>12. ApartInv'
  BY <1>1, <1>2, <1>4 DEF ApartInv
<1> QED
  BY <1>9, <1>10, <1>11, <1>12

\* An order that is amended in place keeps its entry and gets a quantity left.
LEMMA AmendInPlaceOk ==
  ASSUME IInv, ~corrupt, AmendInPlace
  PROVE  IInv'
<1>1. TypeOK /\ CallInv /\ RestingInv /\ StopInv /\ ApartInv
  BY DEF IInv
<1> DEFINE ori == odrMap[o.order_id]
           ord == [ori EXCEPT !.order_action = "AMEND", !.quantity = o.quantity,
                              !.display_quantity = o.display_quantity,
                              !.remain_quantity = o.quantity]
<1>2. /\ UNCHANGED <<nextId, isAuction, mutex, o, taker, mside, sweep, due, left, plan>>
      /\ UNCHANGED <<book, stopBook, corrupt>>
      /\ pc = "amend" /\ pc' = "done" /\ Callback(<<odrMap'[o.order_id]>>)
  BY DEF AmendInPlace, lockVars, matchVars, sweepVars
<1>3. o.order_id \in DOMAIN odrMap /\ o.quantity # 0
  BY DEF AmendInPlace, AmendReason
<1>4. /\ ori \in Order /\ "AMEND" \in Actions /\ o.quantity \in Nat /\ o.display_quantity \in Nat
      /\ o.quantity > 0
  BY <1>1, <1>3, FieldFacts DEF TypeOK, Actions
<1>5. /\ ord \in Order /\ ord.price = ori.price /\ ord.remain_quantity = o.quantity
      /\ ord.order_id = ori.order_id /\ ord.side = ori.side /\ ord.quantity = o.quantity
      /\ ord.buy_stop_trigger_price = ori.buy_stop_trigger_price
      /\ ord.sell_stop_trigger_price = ori.sell_stop_trigger_price
  BY <1>4 DEF Order
<1>6. odrMap' = [odrMap EXCEPT ![o.order_id] = ord]
  BY <1>1, <1>3, <1>4 DEF AmendInPlace, TypeOK, Order
<1> HIDE DEF ord
<1>7. /\ odrMap' \in [DOMAIN odrMap -> Order] /\ DOMAIN odrMap' = DOMAIN odrMap
      /\ \A i \in DOMAIN odrMap : odrMap'[i] = IF i = o.order_id THEN ord ELSE odrMap[i]
  BY <1>1, <1>3, <1>5, <1>6 DEF TypeOK
<1>8. TypeOK'
  <2>1. cbRecords' \in Seq(Order) /\ emitted' \in Seq(Order)
    <3>1. <<odrMap'[o.order_id]>> \in Seq(Order) /\ cbRecords \in Seq(Order)
      BY <1>1, <1>3, <1>7 DEF TypeOK
    <3> QED
      BY <1>2, <3>1, CallbackFacts
  <2>2. \A i \in DOMAIN odrMap' : odrMap'[i].order_id = i
    BY <1>1, <1>5, <1>7 DEF TypeOK
  <2>3. pc' \in Pcs
    BY <1>2 DEF Pcs
  <2> QED
    BY <1>1, <1>2, <1>7, <2>1, <2>2, <2>3 DEF TypeOK
<1>9. CallInv'
  BY <1>1, <1>2, <1>5, <1>7 DEF CallInv
<1>10. RestingInv'
  BY <1>1, <1>2, <1>4, <1>5, <1>7 DEF RestingInv, TradeSide
<1>11. StopInv'
  <2>1. \A s \in Sides : \A e : Waiting(s, e) => Waiting(s, e)'
    BY <1>4, <1>5, <1>7 DEF Waiting, StopEntry, TradeSide
  <2> QED
    BY <1>1, <1>2, <2>1 DEF StopInv, TypeOK
<1>12. ApartInv'
  BY <1>1, <1>2 DEF ApartInv
<1> QED
  BY <1>2, <1>8, <1>9, <1>10, <1>11, <1>12, NoTaker DEF IInv

-----------------------------------------------------------------------------
(* The theorems.                                                           *)

\* An engine without orders, whatever ids were handed out before: the first
\* process, and every one that is started later.
Empty ==
  /\ odrMap = [i \in {} |-> DefaultOrder]
  /\ book = [s \in Sides |-> {}] /\ stopBook = [s \in Sides |-> {}]
  /\ nextId \in Nat /\ nextId > 0
  /\ isAuction = FALSE /\ mutex = FALSE /\ cbRecords = <<>> /\ emitted = <<>>
  /\ corrupt = FALSE /\ pc = "idle" /\ o = DefaultOrder
  /\ taker = 0 /\ mside = "BUY" /\ sweep = "BUY" /\ due = {} /\ left = 0 /\ plan = <<>>

\* The first process starts without orders.
LEMMA InitEmpty ==
  ASSUME Init
  PROVE  Empty
BY DEF Init, Empty

\* The empty engine satisfies IInv.
LEMMA InitOk ==
  ASSUME Empty
  PROVE  IInv
<1>1. TypeOK
  <2>1. odrMap \in [DOMAIN odrMap -> Order] /\ DOMAIN odrMap = {}
    BY DEF Empty
  <2>2. book \in [Sides -> SUBSET Entries] /\ stopBook \in [Sides -> SUBSET Entries]
    BY DEF Empty
  <2>3. cbRecords \in Seq(Order) /\ emitted \in Seq(Order) /\ plan \in Seq(Records)
    BY DEF Empty
  <2>4. isAuction \in BOOLEAN /\ mutex \in BOOLEAN /\ corrupt \in BOOLEAN
    BY DEF Empty
  <2>5. pc \in Pcs /\ mside \in Sides /\ sweep \in Sides /\ o \in Order
    BY DefaultFacts DEF Empty, Pcs, Sides
  <2>6. /\ nextId \in Nat /\ nextId > 0 /\ taker \in Nat /\ left \in Nat
        /\ due \in SUBSET Entries
    BY DEF Empty
  <2> QED
    BY <2>1, <2>2, <2>3, <2>4, <2>5, <2>6 DEF TypeOK
<1>2. CallInv
  BY DefaultFacts DEF Empty, CallInv, Sides
<1>3. RestingInv /\ StopInv /\ ApartInv
  BY DEF Empty, RestingInv, StopInv, ApartInv, Sides
<1>4. PlanInv /\ FokInv
  BY DEF Empty, PlanInv, FokInv, FokAllOrNothing
<1> QED
  BY <1>1, <1>2, <1>3, <1>4 DEF IInv

\* Nothing IInv speaks of changes in a stuttering step.
LEMMA StutterOk ==
  ASSUME IInv, UNCHANGED vars
  PROVE  IInv'
<1> USE DEF vars, engineVars, callVars
<1>1. TypeOK'
  BY DEF IInv, TypeOK
<1>2. SUFFICES ASSUME ~corrupt
               PROVE  /\ CallInv' /\ RestingInv' /\ StopInv' /\ ApartInv'
                      /\ PlanInv' /\ FokInv'
  BY <1>1 DEF IInv
<1>3. CallInv' /\ RestingInv'
  BY <1>2 DEF IInv, CallInv, RestingInv, Taker
<1>4. StopInv'
  BY <1>2 DEF IInv, StopInv, Waiting
<1>5. ApartInv'
  BY <1>2 DEF IInv, ApartInv
<1>6. PlanInv'
  BY <1>2 DEF IInv, PlanInv, Taker, OppBook
<1>7. FokInv'
  BY <1>2 DEF IInv, FokInv, FokAllOrNothing, Taker
<1> QED
  BY <1>3, <1>4, <1>5, <1>6, <1>7

\* Every step of every call keeps IInv.
LEMMA NextOk ==
  ASSUME NoBothStops, IInv, [Next]_vars
  PROVE  IInv'
<1>1. CASE UNCHANGED vars
  BY <1>1, StutterOk
<1>2. CASE Next
  <2>1. ~corrupt
    BY <1>2 DEF Next
  <2>2. CASE \E r \in Requests : Handle(r) \/ HandleAuctionStop(r)
    BY <2>1, <2>2, HandleOk, HandleAuctionStopOk
  <2>3. CASE Step
    BY <2>1, <2>3, RejectNewOk, NewBuySellOk, NewStopsOk, MatchTopOk, LoopDoneOk, CancelsOk,
       RestsOk, FokCollectOk, FokFillOk, MatchReturnOk, SweepStopsOk, SweepReturnOk,
       FireStopOk, RejectCallOk, CancelOk, EraseOk, AmendInPlaceOk, AmendReplaceOk,
       FlushAuctionOk, UnlockOk DEF Step
  <2> QED
    BY <1>2, <2>2, <2>3 DEF Next
<1> QED
  BY <1>1, <1>2

\* What changes the books but for a taker that rests only takes entries out.
LEMMA BooksShrink ==
  ASSUME TypeOK, [Next]_vars, ~(RestRemainder \/ RestRepriced)
  PROVE  \A s \in Sides : book'[s] \subseteq book[s]
<1>1. book \in [Sides -> SUBSET Entries] /\ Opposite(mside) \in Sides
  BY DEF TypeOK, Opposite, Sides
<1>2. CASE MatchTop \/ FokFill
  <2>1. PICK e, q : Fill(e, q)
    BY <1>2 DEF MatchTop, FokFill
  <2>2. book' = book \/ book' = [book EXCEPT ![Opposite(mside)] = @ \ {e}]
    BY <2>1 DEF Fill
  <2> QED
    BY <1>1, <2>2
<1>3. CASE CancelResting
  <2>1. PICK s, e : book' = [book EXCEPT ![s] = @ \ {e}]
    BY <1>3 DEF CancelResting
  <2> QED
    BY <1>1, <2>1
<1>4. CASE CancelMakerOnly \/ CancelRemainder \/ CancelMarket \/ FokKill
  BY <1>4 DEF CancelMakerOnly, CancelRemainder, CancelMarket, FokKill, CancelTaker
<1>5. CASE UNCHANGED vars
  BY <1>5 DEF vars, engineVars
<1>6. CASE ~(MatchTop \/ FokFill \/ CancelResting \/ UNCHANGED vars) /\ ~(CancelMakerOnly \/ CancelRemainder \/ CancelMarket \/ FokKill)
  BY <1>6 DEF Next, Step, Handle, HandleAuctionStop, RejectNew, NewBuySell, NewBuyStop,
     NewSellStop, NewBuySellStop, MatchDone, FokDone, FokCollect, MatchReturn, SweepStops,
     CollectStops, SweepReturn, FireStop, FireReturn, CancelUnknown, CancelParked,
     EraseCanceled, RejectAmend, AmendInPlace, AmendReplace, FlushAuction, Unlock, storeVars
<1> QED
  BY <1>2, <1>3, <1>4, <1>5, <1>6

\* A step crosses the books only where they were crossed before.
LEMMA NoNewCross ==
  ASSUME TypeOK, CallInv, RestingInv, [Next]_vars,
         NEW b \in book'["BUY"], NEW a \in book'["SELL"]
  PROVE  b[1] < a[1] \/ (b \in book["BUY"] /\ a \in book["SELL"])
<1>1. CASE ~(RestRemainder \/ RestRepriced)
  BY <1>1, BooksShrink DEF Sides
<1>2. CASE RestRemainder \/ RestRepriced
  <2>1. PICK p \in Int :
          /\ Rest(p)
          /\ \A f \in OppBook : IF mside = "BUY" THEN p < f[1] ELSE f[1] < p
    BY <1>2, RestsBeyond
  <2>2. PICK i : book' = [book EXCEPT ![mside] = @ \cup {<<p, i>>}]
    BY <2>1 DEF Rest
  <2>3. mside \in Sides /\ book \in [Sides -> SUBSET Entries]
    BY DEF TypeOK
  <2>4. CASE mside = "BUY"
    BY <2>1, <2>2, <2>3, <2>4 DEF OppBook, Opposite, Sides
  <2>5. CASE mside = "SELL"
    BY <2>1, <2>2, <2>3, <2>5 DEF OppBook, Opposite, Sides
  <2> QED
    BY <2>3, <2>4, <2>5 DEF Sides
<1> QED
  BY <1>1, <1>2

\* IInv is an invariant of every engine that is sent no two-sided stops.
THEOREM Inductive ==
  ASSUME NoBothStops
  PROVE  Spec => []IInv
<1>1. Init => IInv
  BY InitEmpty, InitOk
<1>2. IInv /\ [Next]_vars => IInv'
  BY NextOk
<1> QED
  BY <1>1, <1>2, PTL DEF Spec

\* Whatever a client sends, the engine's stores hold well-formed orders under
\* their own ids, and no quantity of a fill is ever more than what is left.
THEOREM TypeCorrect ==
  ASSUME NoBothStops
  PROVE  Spec => []TypeOK
<1>1. IInv => TypeOK
  BY DEF IInv
<1> QED
  BY <1>1, Inductive, PTL

\* No call ever leaves a bid at or above an ask in the books, not even between
\* two steps of a call, until the engine runs into undefined behaviour.
THEOREM Uncrossed ==
  ASSUME NoBothStops
  PROVE  Spec => []NeverCrossed
<1> DEFINE Inv == IInv /\ (~corrupt => UncrossedInv)
<1>1. Init => Inv
  BY InitEmpty, InitOk DEF Init, UncrossedInv, Sides
<1>2. Inv /\ [Next]_vars => Inv'
  <2>1. SUFFICES ASSUME Inv, [Next]_vars PROVE Inv'
    OBVIOUS
  <2>2. IInv'
    BY <2>1, NextOk
  <2>3. ~corrupt' => ~corrupt
    BY <2>1 DEF Next, vars, engineVars
  <2>4. ~corrupt' => UncrossedInv'
    <3>1. SUFFICES ASSUME ~corrupt', NEW b \in book'["BUY"], NEW a \in book'["SELL"]
                   PROVE  b[1] < a[1]
      BY DEF UncrossedInv
    <3>2. TypeOK /\ CallInv /\ RestingInv /\ UncrossedInv
      BY <2>1, <2>3, <3>1 DEF IInv
    <3>3. b[1] < a[1] \/ (b \in book["BUY"] /\ a \in book["SELL"])
      BY <2>1, <3>2, NoNewCross
    <3> QED
      BY <3>2, <3>3 DEF UncrossedInv
  <2> QED
    BY <2>2, <2>4
<1>3. Inv => NeverCrossed
  <2>1. SUFFICES ASSUME Inv, ~corrupt, NEW b \in book["BUY"], NEW a \in book["SELL"]
                 PROVE  PriceOf(b) < PriceOf(a)
    BY DEF NeverCrossed
  <2>2. odrMap[b[2]].price = b[1] /\ odrMap[a[2]].price = a[1]
    BY <2>1 DEF IInv, RestingInv, Sides
  <2> QED
    BY <2>1, <2>2 DEF UncrossedInv, PriceOf
<1> QED
  BY <1>1, <1>2, <1>3, PTL DEF Spec

\* A fill-or-kill order, the client's or a triggered stop, is filled completely
\* or killed untouched.
THEOREM FokAllOrNothingHolds ==
  ASSUME NoBothStops
  PROVE  Spec => []FokAllOrNothing
<1>1. IInv => FokAllOrNothing
  BY DEF IInv, FokInv, FokAllOrNothing
<1> QED
  BY <1>1, Inductive, PTL

-----------------------------------------------------------------------------
(***************************************************************************)
(* More about Engine, on top of IInv: JInv adds the two passes over the    *)
(* stops and the records of fok_match, KInv the states and the places of   *)
(* the orders, LInv the records an auction leaves.  From them: the         *)
(* priority of every fill, the stops that stay behind, live orders in the  *)
(* books, what an auction pays its makers, a mutex held only in a call,    *)
(* and undefined behaviour only by a cancel or an amend of a triggered     *)
(* stop that has ended.                                                    *)
(***************************************************************************)

(* Lemmas about numbers and about the operators of Engine.                 *)

\* A non-empty set of natural numbers has a least element.
LEMMA NatLeast ==
  ASSUME NEW T \in SUBSET Nat, T # {}
  PROVE  \E x \in T : \A y \in T : x <= y
<1> DEFINE R == OpToRel(<, Nat)
<1>1. IsWellFoundedOn(R, Nat)
  BY NatLessThanWellFounded DEF R
<1> HIDE DEF R
<1>2. PICK x \in T : \A y \in T : <<y, x>> \notin R
  BY <1>1, WFMin
<1>3. \A y \in T : ~(y < x)
  BY <1>2 DEF R, OpToRel
<1> QED
  BY <1>3

\* A set of bids, none of them above x, has a best one.
LEMMA BestBid ==
  ASSUME NEW B \in SUBSET Entries, B # {}, NEW x \in Int, \A b \in B : b[1] <= x
  PROVE  \E t \in B : IsTop("BUY", B, t)
<1>0. \A b \in B : b[1] \in Int /\ b[2] \in Nat /\ b = <<b[1], b[2]>>
  BY DEF Entries
<1> DEFINE T == {x - b[1] : b \in B}
<1>1. T \in SUBSET Nat /\ T # {}
  BY <1>0
<1>2. PICK n \in T : \A m \in T : n <= m
  <2> HIDE DEF T
  <2> QED
    BY <1>1, NatLeast
<1>3. PICK t \in B : \A b \in B : b[1] <= t[1]
  <2>1. PICK t \in B : n = x - t[1]
    OBVIOUS
  <2>2. \A b \in B : x - b[1] \in T
    OBVIOUS
  <2> HIDE DEF T
  <2>3. \A b \in B : n <= x - b[1]
    BY <1>2, <2>2
  <2> QED
    BY <1>0, <2>1, <2>3
<1> HIDE DEF T
<1> DEFINE I == {b[2] : b \in {c \in B : c[1] = t[1]}}
<1>4. I \in SUBSET Nat /\ I # {}
  BY <1>0
<1>5. PICK k \in I : \A i \in I : k <= i
  <2> HIDE DEF I
  <2> QED
    BY <1>4, NatLeast
<1>6. PICK u \in B : u[1] = t[1] /\ u[2] = k
  OBVIOUS
<1>7. ASSUME NEW f \in B, f # u PROVE Ahead("BUY", u, f)
  <2>1. CASE f[1] = t[1]
    <3>1. k <= f[2]
      BY <1>5, <2>1
    <3>2. f[2] # u[2]
      BY <1>0, <1>6, <1>7, <2>1
    <3> QED
      BY <1>0, <1>6, <2>1, <3>1, <3>2 DEF Ahead
  <2>2. CASE f[1] # t[1]
    BY <1>0, <1>3, <1>6, <2>2 DEF Ahead
  <2> QED
    BY <2>1, <2>2
<1> QED
  BY <1>6, <1>7 DEF IsTop

\* The limits of a stop order.
SameLimits(a, b) ==
  /\ a.buy_stop_limit_price = b.buy_stop_limit_price
  /\ a.sell_stop_limit_price = b.sell_stop_limit_price

\* engine::match leaves a live or a filled order, and its limits as they are.
LEMMA MatchStates ==
  ASSUME NEW ord \in Order, NEW mtype \in {"MAKER", "TAKER"}, NEW p \in Int,
         NEW q \in Nat, q <= ord.remain_quantity
  PROVE  /\ Match(ord, mtype, p, q).order_state =
              IF Match(ord, mtype, p, q).remain_quantity = 0 THEN "FILLED" ELSE "PARTIAL_FILL"
         /\ SameLimits(Match(ord, mtype, p, q), ord)
<1> DEFINE st == IF ord.remain_quantity = q THEN "FILLED" ELSE "PARTIAL_FILL"
           r == [ord EXCEPT !.matched_type = mtype, !.last_match_price = p,
                            !.last_match_quantity = q, !.remain_quantity = @ - q,
                            !.order_state = st]
<1>1. ord.remain_quantity \in Nat
  BY DEF Order
<1>2. /\ SameLimits(r, ord) /\ r.remain_quantity = ord.remain_quantity - q
      /\ r.order_state = st /\ DOMAIN r = DOMAIN ord
  BY DEF Order, SameLimits
<1>3. /\ SameLimits(UpdateDisplay(r), r) /\ UpdateDisplay(r).order_state = r.order_state
      /\ UpdateDisplay(r).remain_quantity = r.remain_quantity
  <2>1. DOMAIN r = DOMAIN [order_id |-> 0, side |-> 0, type |-> 0, time_condition |-> 0,
          order_action |-> 0, price |-> 0, quantity |-> 0, display_quantity |-> 0,
          remain_quantity |-> 0, last_match_price |-> 0, last_match_quantity |-> 0,
          buy_stop_trigger_price |-> 0, buy_stop_limit_price |-> 0,
          sell_stop_trigger_price |-> 0, sell_stop_limit_price |-> 0,
          order_state |-> 0, matched_type |-> 0]
    BY DEF Order
  <2> HIDE DEF r
  <2> QED
    BY <2>1 DEF UpdateDisplay, SameLimits
<1>4. Match(ord, mtype, p, q) = UpdateDisplay(r)
  BY DEF Match
<1> HIDE DEF r
<1> QED
  BY <1>1, <1>2, <1>3, <1>4 DEF SameLimits

\* What a fill does to the states of maker and taker, to the limits of the orders
\* and to the two books.
LEMMA FillStates ==
  ASSUME TypeOK, CallInv, RestingInv, StopInv, ApartInv, pc \in {"match", "fok"},
         taker' = taker, mside' = mside, NEW e \in OppBook, NEW q \in Nat,
         q <= odrMap[e[2]].remain_quantity, q <= Taker.remain_quantity, Fill(e, q)
  PROVE  /\ IF q = odrMap[e[2]].remain_quantity THEN e \notin OppBook' ELSE e \in OppBook'
         /\ e \in OppBook' => e[2] \in DOMAIN odrMap'
         /\ e[2] \in DOMAIN odrMap' => e \in OppBook' /\ odrMap'[e[2]].order_state \in LiveStates
         /\ IF Taker'.remain_quantity > 0 THEN Taker'.order_state \in LiveStates
            ELSE Taker'.order_state = "FILLED"
         /\ book'[mside] = book[mside]
         /\ \A i \in DOMAIN odrMap' : SameLimits(odrMap'[i], odrMap[i])
         /\ SameLimits(o', o) /\ (taker # 0 => o' = o)
<1> DEFINE maker == odrMap[e[2]]
           m == Match(maker, "MAKER", maker.price, q)
           t == Match(Taker, "TAKER", maker.price, q)
           opp == Opposite(mside)
<1>1. mside \in Sides /\ opp \in Sides /\ e \in book[opp] /\ opp # mside
  BY DEF TypeOK, Opposite, Sides, OppBook
<1>2. e[2] \in DOMAIN odrMap /\ maker \in Order /\ e[2] # taker /\ e[2] \in Nat
  BY <1>1, EntryFacts DEF ApartInv, TypeOK
<1>3. Taker \in Order /\ maker.price \in Int /\ maker.remain_quantity \in Nat
      /\ Taker.remain_quantity \in Nat
  BY <1>2, TakerFacts, FieldFacts
<1>4. /\ m \in Order /\ SameLimits(m, maker) /\ m.remain_quantity = maker.remain_quantity - q
      /\ m.order_state = IF m.remain_quantity = 0 THEN "FILLED" ELSE "PARTIAL_FILL"
      /\ m.remain_quantity \in Nat
  <2>1. /\ m \in Order /\ SameLimits(m, maker) /\ m.remain_quantity = maker.remain_quantity - q
        /\ m.order_state = IF m.remain_quantity = 0 THEN "FILLED" ELSE "PARTIAL_FILL"
    BY <1>2, <1>3, MatchFacts, MatchStates
  <2> HIDE DEF m
  <2> QED
    BY <2>1, FieldFacts
<1>5. /\ t \in Order /\ SameLimits(t, Taker) /\ t.remain_quantity = Taker.remain_quantity - q
      /\ t.order_state = IF t.remain_quantity = 0 THEN "FILLED" ELSE "PARTIAL_FILL"
  BY <1>3, MatchFacts, MatchStates
<1> DEFINE rest == IF m.remain_quantity = 0 THEN Drop(odrMap, e[2]) ELSE Put(odrMap, e[2], m)
<1>6. /\ book' = IF m.remain_quantity = 0 THEN [book EXCEPT ![opp] = @ \ {e}] ELSE book
      /\ SetTaker(rest, t)
  BY DEF Fill
<1> HIDE DEF maker, m, t, opp
<1>7. /\ DOMAIN rest = IF m.remain_quantity = 0 THEN DOMAIN odrMap \ {e[2]} ELSE DOMAIN odrMap
      /\ \A i \in DOMAIN rest : i # e[2] => rest[i] = odrMap[i]
      /\ e[2] \in DOMAIN rest => rest[e[2]] = m /\ m.remain_quantity > 0
  <2>1. CASE m.remain_quantity = 0
    BY <2>1 DEF TypeOK, Drop
  <2>2. CASE m.remain_quantity # 0
    <3>1. rest = Put(odrMap, e[2], m)
      BY <2>2
    <3> HIDE DEF rest
    <3>2. DOMAIN rest = DOMAIN odrMap
          /\ rest[e[2]] = m /\ \A i \in DOMAIN rest : i # e[2] => rest[i] = odrMap[i]
      BY <1>2, <3>1 DEF TypeOK, Put
    <3> QED
      BY <1>4, <2>2, <3>2
  <2> QED
    BY <2>1, <2>2
<1> HIDE DEF rest
<1>8. /\ DOMAIN odrMap' = DOMAIN rest
      /\ \A i \in DOMAIN rest : i # taker => odrMap'[i] = rest[i]
      /\ taker # 0 => odrMap'[taker] = t
      /\ o' = IF taker = 0 THEN t ELSE o
      /\ Taker' = t
  <2>1. CASE taker = 0
    <3>1. odrMap' = rest /\ o' = t
      BY <1>6, <2>1 DEF SetTaker
    <3> QED
      BY <2>1, <3>1 DEF Taker
  <2>2. CASE taker # 0
    <3>1. taker \in DOMAIN rest
      BY <1>2, <1>7, <2>2 DEF CallInv
    <3>2. odrMap' = Put(rest, taker, t) /\ o' = o
      BY <1>6, <2>2 DEF SetTaker
    <3> QED
      BY <2>2, <3>1, <3>2 DEF Put, Taker
  <2> QED
    BY <2>1, <2>2
<1>9. SameLimits(o', o) /\ (taker # 0 => o' = o)
  BY <1>5, <1>8 DEF SameLimits, Taker
<1>10. \A i \in DOMAIN odrMap' : SameLimits(odrMap'[i], odrMap[i])
  <2>1. ASSUME NEW i \in DOMAIN odrMap', i # taker, i # e[2]
        PROVE  SameLimits(odrMap'[i], odrMap[i])
    BY <1>7, <1>8, <2>1 DEF SameLimits
  <2>2. ASSUME taker \in DOMAIN odrMap', taker # 0
        PROVE  SameLimits(odrMap'[taker], odrMap[taker])
    BY <1>5, <1>8, <2>2 DEF Taker
  <2>3. ASSUME e[2] \in DOMAIN odrMap' PROVE SameLimits(odrMap'[e[2]], odrMap[e[2]])
    BY <1>2, <1>4, <1>7, <1>8, <2>3 DEF maker
  <2>4. \A i \in DOMAIN odrMap' : i # 0
    BY <1>2, <1>7, <1>8 DEF TypeOK
  <2> QED
    BY <2>1, <2>2, <2>3, <2>4
<1>11. /\ q = maker.remain_quantity <=> m.remain_quantity = 0
       /\ e \in book'[opp] <=> m.remain_quantity # 0
       /\ book'[mside] = book[mside]
  BY <1>1, <1>3, <1>4, <1>6 DEF TypeOK
<1>12. /\ e \in OppBook' => e[2] \in DOMAIN odrMap'
       /\ e[2] \in DOMAIN odrMap' => e \in OppBook' /\ odrMap'[e[2]].order_state \in LiveStates
       /\ IF q = maker.remain_quantity THEN e \notin OppBook' ELSE e \in OppBook'
  BY <1>2, <1>4, <1>7, <1>8, <1>11 DEF OppBook, opp, LiveStates
<1>13. IF Taker'.remain_quantity > 0 THEN Taker'.order_state \in LiveStates
       ELSE Taker'.order_state = "FILLED"
  BY <1>3, <1>5, <1>8 DEF LiveStates
<1> QED
  BY <1>9, <1>10, <1>11, <1>12, <1>13 DEF maker

-----------------------------------------------------------------------------
(* Every step keeps what JInv adds to IInv.                                 *)

Calls == FiredInv /\ RecordedInv /\ PassInv

\* The sell stops stay quiet and the bids those of stops when no bid changes.
LEMMA BidsKept ==
  ASSUME book'["BUY"] = book["BUY"], stopBook'["SELL"] \subseteq stopBook["SELL"],
         \A b \in book["BUY"] : /\ odrMap'[b[2]].price = odrMap[b[2]].price
                                /\ odrMap'[b[2]].side = odrMap[b[2]].side
  PROVE  /\ SellStopsQuiet => SellStopsQuiet'
         /\ OnlyStopsBid => OnlyStopsBid'
<1>1. OnlyStopsBid => OnlyStopsBid'
  BY DEF OnlyStopsBid
<1>2. ASSUME NEW e \in stopBook'["SELL"], Triggered("SELL", e[1])' PROVE Triggered("SELL", e[1])
  BY <1>2 DEF Triggered, PriceOf, Opposite, Fires
<1> QED
  BY <1>1, <1>2 DEF SellStopsQuiet

\* The steps that touch no order in _odr_map and no book.
QuietStep ==
  \/ RejectNew \/ MatchDone \/ FokDone \/ MatchReturn \/ SweepReturn \/ FireReturn
  \/ CancelUnknown \/ RejectAmend \/ FlushAuction \/ Unlock

\* None of them starts a match.
LEMMA QuietFacts ==
  ASSUME IInv, ~corrupt, QuietStep
  PROVE  /\ UNCHANGED <<odrMap, book, stopBook, due, corrupt>>
         /\ pc' \notin {"match", "fok"}
<1>1. CASE RejectNew
  BY <1>1 DEF RejectNew, sweepVars
<1>2. CASE MatchDone \/ FokDone
  BY <1>2 DEF MatchDone, FokDone, storeVars, sweepVars
<1>3. CASE MatchReturn
  BY <1>3 DEF MatchReturn, storeVars
<1>4. CASE SweepReturn \/ FireReturn
  BY <1>4 DEF SweepReturn, FireReturn, storeVars, sweepVars
<1>5. CASE CancelUnknown \/ RejectAmend
  BY <1>5 DEF CancelUnknown, RejectAmend, storeVars, sweepVars
<1>6. CASE FlushAuction
  BY <1>6 DEF FlushAuction, storeVars, callVars
<1>7. CASE Unlock
  <2>1. due = {}
    BY <1>7 DEF Unlock, IInv, CallInv
  <2> QED
    BY <1>7, <2>1 DEF Unlock, NoCall, storeVars
<1> QED
  BY <1>1, <1>2, <1>3, <1>4, <1>5, <1>6, <1>7 DEF QuietStep

\* A quiet step keeps what is known of the two passes; handle_new is done after
\* the second one, or when there is nothing left to trade.
LEMMA QuietCalls ==
  ASSUME IInv, ~corrupt, Calls, StopsLeftBehind, QuietStep
  PROVE  Calls' /\ StopsLeftBehind'
<1>1. /\ UNCHANGED <<odrMap, book, stopBook, due>> /\ pc' \notin {"match", "fok"}
  BY QuietFacts
<1>2. /\ SellStopsQuiet => SellStopsQuiet'
      /\ OnlyStopsBid => OnlyStopsBid'
      /\ \A s \in Sides : \A e \in stopBook[s] : Triggered(s, e[1])' <=> Triggered(s, e[1])
  BY <1>1, BidsKept DEF Triggered, PriceOf
<1>3. RecordedInv'
  BY <1>1 DEF RecordedInv
<1>4. CASE RejectNew \/ CancelUnknown \/ RejectAmend
  <2>1. pc' = "done" /\ o'.remain_quantity = 0
    <3>1. o \in Order
      BY DEF IInv, TypeOK
    <3> QED
      BY <1>4, <3>1 DEF RejectNew, CancelUnknown, RejectAmend, Order
  <2> QED
    BY <1>3, <2>1 DEF Calls, FiredInv, PassInv, SecondPass, StopsLeftBehind
<1>5. CASE MatchDone \/ FokDone \/ FireReturn
  <2>1. /\ UNCHANGED <<o, taker, sweep>>
        /\ \/ pc \in {"match", "fok"} /\ pc' = "matched"
           \/ pc = "fire" /\ pc' = "sweep"
    BY <1>5 DEF MatchDone, FokDone, FireReturn, matchVars, sweepVars
  <2>2. SecondPass' => SecondPass
    BY <2>1 DEF SecondPass
  <2> QED
    BY <1>2, <1>3, <2>1, <2>2 DEF Calls, FiredInv, PassInv, StopsLeftBehind
<1>6. CASE MatchReturn
  <2>1. /\ UNCHANGED o /\ pc = "matched" /\ taker' = 0
        /\ IF taker # 0 THEN pc' = "fire" /\ sweep' = sweep
           ELSE IF o.remain_quantity > 0 THEN pc' = "sweep" /\ sweep' = "SELL"
           ELSE pc' = "done" /\ sweep' = sweep
    BY <1>6 DEF MatchReturn
  <2>2. SecondPass' => SecondPass
    BY <2>1 DEF SecondPass
  <2> QED
    BY <1>2, <1>3, <2>1, <2>2 DEF Calls, FiredInv, PassInv, StopsLeftBehind
<1>7. CASE SweepReturn
  <2>1. /\ UNCHANGED <<o, taker>> /\ pc = "sweep" /\ DueStops = {}
        /\ IF o.order_action # "NEW" THEN pc' = "erase" /\ sweep' = sweep
           ELSE IF sweep = "SELL" THEN sweep' = "BUY" /\ pc' = "sweep"
           ELSE pc' = "done" /\ sweep' = sweep
    BY <1>7 DEF SweepReturn, matchVars
  <2>2. \A e \in stopBook[sweep] : ~Triggered(sweep, e[1])
    BY <2>1 DEF DueStops
  <2>3. sweep \in Sides
    BY DEF IInv, TypeOK
  <2>4. SecondPass' => SellStopsQuiet \/ OnlyStopsBid
    BY <2>1, <2>2 DEF SecondPass, SellStopsQuiet
  <2>5. StopsLeftBehind'
    <3>1. SUFFICES ASSUME pc' = "done", o'.order_action = "NEW"
                   PROVE  /\ \A e \in stopBook["BUY"] : ~Triggered("BUY", e[1])
                          /\ (\E e \in stopBook["SELL"] : Triggered("SELL", e[1])) => OnlyStopsBid
      BY <1>1, <1>2 DEF StopsLeftBehind, OnlyStopsBid, Sides
    <3>2. sweep = "BUY" /\ o.order_action = "NEW"
      BY <2>1, <2>3, <3>1 DEF Sides
    <3>3. SellStopsQuiet \/ OnlyStopsBid
      BY <2>1, <3>2 DEF Calls, PassInv, SecondPass
    <3> QED
      BY <2>2, <3>2, <3>3 DEF SellStopsQuiet
  <2> QED
    BY <1>2, <1>3, <2>1, <2>4, <2>5 DEF Calls, FiredInv, PassInv
<1>8. CASE FlushAuction
  <2>1. UNCHANGED <<pc, o, taker, sweep>> /\ pc = "done"
    BY <1>8 DEF FlushAuction, callVars
  <2>2. StopsLeftBehind'
    BY <1>1, <1>2, <2>1 DEF StopsLeftBehind, Sides
  <2> QED
    BY <1>3, <2>1, <2>2 DEF Calls, FiredInv, PassInv, SecondPass
<1>9. CASE Unlock
  BY <1>3, <1>9 DEF Unlock, Calls, FiredInv, PassInv, SecondPass, StopsLeftBehind
<1> QED
  BY <1>4, <1>5, <1>6, <1>7, <1>8, <1>9 DEF QuietStep

\* A call starts at its handler.
LEMMA HandleCalls ==
  ASSUME NEW r \in Requests, Handle(r) \/ HandleAuctionStop(r), Calls, StopsLeftBehind
  PROVE  Calls' /\ StopsLeftBehind'
<1>1. CASE Handle(r)
  <2>1. r.order_action \in {"NEW", "CANCEL", "AMEND"}
    <3>1. CASE r \in NewRequests
      BY <3>1, RequestAssumption
    <3>2. ASSUME NEW a \in AmendRequests, NEW id, r = [a EXCEPT !.order_id = id]
          PROVE  r.order_action = "AMEND"
      BY <3>2, RequestAssumption DEF Order
    <3>3. ASSUME NEW id, r = CancelRequest(id)
          PROVE  r.order_action = "CANCEL"
      BY <3>3 DEF CancelRequest, DefaultOrder
    <3> QED
      BY <3>1, <3>2, <3>3 DEF Requests
  <2>2. /\ o' = r
        /\ \/ r.order_action = "NEW" /\ pc' = "new"
           \/ r.order_action = "CANCEL" /\ pc' = "cancel"
           \/ r.order_action = "AMEND" /\ pc' = "amend"
    BY <1>1, <2>1 DEF Handle
  <2> QED
    BY <2>2 DEF Calls, FiredInv, RecordedInv, PassInv, SecondPass, StopsLeftBehind
<1>2. CASE HandleAuctionStop(r)
  <2>1. UNCHANGED pc /\ pc = "idle"
    BY <1>2 DEF HandleAuctionStop, callVars
  <2> QED
    BY <2>1 DEF Calls, FiredInv, RecordedInv, PassInv, SecondPass, StopsLeftBehind
<1> QED
  BY <1>1, <1>2

\* A match starts with nothing recorded.
StartStep == NewBuySell \/ NewBuyStop \/ NewSellStop \/ NewBuySellStop

\* handle_new starts a match of the order in hand, or parks it.
LEMMA StartFacts ==
  ASSUME IInv, ~corrupt, StartStep
  PROVE  /\ UNCHANGED <<book, taker, sweep, due, corrupt>>
         /\ pc = "new" /\ taker = 0 /\ due = {}
         /\ RejectReason(o) = "NONE" /\ nextId' = nextId + 1
         /\ \/ /\ o.side \in Sides /\ o' = InitNewOrder(o) /\ StartMatch(o.side, o')
               /\ UNCHANGED <<odrMap, stopBook>>
            \/ /\ o.side \in StopSides \ {"BUY_SELL_STOP"}
               /\ StopNow(TradeSide(o)) \/ Park
<1>1. pc = "new" /\ taker = 0 /\ due = {} /\ o.side # "BUY_SELL_STOP"
  BY DEF StartStep, NewBuySell, NewBuyStop, NewSellStop, NewBuySellStop, IInv, CallInv
<1>2. CASE NewBuySell
  BY <1>1, <1>2 DEF NewBuySell, sweepVars
<1>3. CASE NewBuyStop
  <2>1. TradeSide(o) = "BUY" /\ o.side \in StopSides \ {"BUY_SELL_STOP"}
    BY <1>3 DEF NewBuyStop, TradeSide, StopSides
  <2> QED
    BY <1>1, <1>3, <2>1 DEF NewBuyStop, sweepVars
<1>4. CASE NewSellStop
  <2>1. TradeSide(o) = "SELL" /\ o.side \in StopSides \ {"BUY_SELL_STOP"}
    BY <1>4 DEF NewSellStop, TradeSide, StopSides
  <2> QED
    BY <1>1, <1>4, <2>1 DEF NewSellStop, sweepVars
<1>5. CASE NewBuySellStop
  BY <1>1, <1>5 DEF NewBuySellStop
<1> QED
  BY <1>2, <1>3, <1>4, <1>5 DEF StartStep

\* A match has not started its first round, and a parked order triggers nothing.
LEMMA StartCalls ==
  ASSUME IInv, ~corrupt, Calls, StopsLeftBehind, StartStep
  PROVE  Calls' /\ StopsLeftBehind'
<1>1. taker' = 0
  BY StartFacts
<1>2. CASE Park
  <2>1. o \in Order /\ nextId \in Nat
    BY DEF IInv, TypeOK
  <2>2. InitNewOrder(o) \in Order
    BY <2>1, InitFacts
  <2>3. o' = [InitNewOrder(o) EXCEPT !.price = STOP_PRICE] /\ pc' = "done"
    BY <1>2 DEF Park
  <2>4. o'.price = STOP_PRICE
    BY <2>2, <2>3, PriceFacts, SentinelAssumption
  <2> QED
    BY <2>3, <2>4 DEF Calls, FiredInv, RecordedInv, PassInv, SecondPass, StopsLeftBehind
<1>3. CASE ~Park
  <2>1. pc' \in {"match", "fok"} /\ plan' = <<>>
    BY <1>3, StartFacts DEF StopNow, StartMatch
  <2> QED
    BY <1>1, <2>1 DEF Calls, FiredInv, RecordedInv, PassInv, SecondPass, StopsLeftBehind
<1> QED
  BY <1>2, <1>3

\* Fills in the second pass take asks; the bids stay.
LEMMA FillPass ==
  ASSUME IInv, ~corrupt, Calls, pc \in {"match", "fok"}, NEW e \in OppBook, NEW q,
         Filled(e, q), book'[mside] = book[mside],
         UNCHANGED <<stopBook, pc, taker, mside, sweep>>
  PROVE  FiredInv' /\ PassInv' /\ StopsLeftBehind'
<1>1. /\ Same(Taker', Taker) /\ Same(o', o)
      /\ \A i \in DOMAIN odrMap \ {e[2], taker} : i \in DOMAIN odrMap' /\ odrMap'[i] = odrMap[i]
  BY DEF Filled
<1>2. FiredInv'
  BY <1>1 DEF Calls, FiredInv, Same
<1>3. SecondPass' => SecondPass
  BY <1>1 DEF SecondPass, Same
<1>4. ASSUME SecondPass PROVE SellStopsQuiet' \/ OnlyStopsBid'
  <2>1. mside = "BUY" /\ (SellStopsQuiet \/ OnlyStopsBid)
    BY <1>4 DEF Calls, FiredInv, PassInv, SecondPass
  <2>2. ASSUME NEW b \in book["BUY"]
        PROVE  b[2] \in DOMAIN odrMap /\ b[2] # e[2] /\ b[2] # taker
    BY <2>1, EntryFacts DEF IInv, OppBook, Opposite, Sides, ApartInv
  <2> QED
    BY <1>1, <2>1, <2>2, BidsKept
<1> QED
  BY <1>2, <1>3, <1>4 DEF PassInv, StopsLeftBehind

\* normal_match trades, or fok_match trades its first record.
LEMMA FillCalls ==
  ASSUME IInv, ~corrupt, Calls, MatchTop \/ FokFill
  PROVE  \E e \in OppBook, q \in Nat :
           /\ q <= odrMap[e[2]].remain_quantity /\ q <= Taker.remain_quantity
           /\ Fill(e, q) /\ Filled(e, q)
           /\ IF pc = "match" THEN Crossing(e)
              ELSE e = plan[1].entry /\ q = plan[1].quantity /\ plan # <<>>
<1>1. TypeOK /\ CallInv /\ RestingInv /\ StopInv /\ ApartInv /\ PlanInv
  BY DEF IInv
<1>2. Opposite(mside) \in Sides
  BY DEF Opposite, Sides
<1>3. \A e \in OppBook : odrMap[e[2]].remain_quantity \in Nat
  BY <1>1, <1>2, EntryFacts, FieldFacts DEF OppBook
<1>4. Taker.remain_quantity \in Nat
  BY <1>1, TakerFacts, FieldFacts
<1>5. CASE MatchTop
  <2>1. PICK e \in OppBook :
          /\ Crossing(e)
          /\ Fill(e, MatchedQuantity(odrMap[e[2]].remain_quantity, Taker.remain_quantity))
    BY <1>5 DEF MatchTop
  <2> DEFINE q == MatchedQuantity(odrMap[e[2]].remain_quantity, Taker.remain_quantity)
  <2>2. q \in Nat /\ q <= odrMap[e[2]].remain_quantity /\ q <= Taker.remain_quantity /\ Fill(e, q)
    BY <1>3, <1>4, <2>1, MatchedFacts
  <2>3. pc = "match" /\ taker' = taker
    BY <1>5 DEF MatchTop, matchVars
  <2> HIDE DEF q
  <2>4. Filled(e, q)
    BY <1>1, <2>2, <2>3, FillFacts
  <2> QED
    BY <2>1, <2>2, <2>3, <2>4
<1>6. CASE FokFill
  <2> DEFINE e == plan[1].entry
             q == plan[1].quantity
  <2>1. /\ pc = "fok" /\ plan # <<>> /\ taker' = taker
        /\ Fill(Head(plan).entry, Head(plan).quantity)
    BY <1>6 DEF FokFill
  <2>2. plan \in Seq(Records) /\ 1 \in DOMAIN plan /\ Head(plan) = plan[1]
    BY <1>1, <2>1 DEF TypeOK
  <2>3. plan[1] \in Records
    BY <2>2, ElementOfSeq
  <2>4. q \in Nat /\ plan[1].left \in Nat /\ Fill(e, q)
    BY <2>1, <2>2, <2>3 DEF Records
  <2>5. /\ e \in OppBook /\ q <= odrMap[e[2]].remain_quantity
        /\ q + plan[1].left = Taker.remain_quantity
    BY <1>1, <2>1, <2>2 DEF PlanInv
  <2> HIDE DEF e, q
  <2>6. q <= Taker.remain_quantity
    BY <1>4, <2>4, <2>5
  <2>7. Filled(e, q)
    BY <1>1, <2>1, <2>4, <2>5, <2>6, FillFacts
  <2> QED
    BY <2>1, <2>4, <2>5, <2>6, <2>7 DEF e, q
<1> QED
  BY <1>5, <1>6

\* After a fill of normal_match nothing is recorded.
LEMMA MatchTopCalls ==
  ASSUME IInv, ~corrupt, Calls, MatchTop
  PROVE  Calls' /\ StopsLeftBehind'
<1>1. PICK e \in OppBook, q \in Nat :
        /\ q <= odrMap[e[2]].remain_quantity /\ q <= Taker.remain_quantity
        /\ Fill(e, q) /\ Filled(e, q)
  BY FillCalls
<1>2. /\ UNCHANGED <<stopBook, pc, taker, mside, sweep>> /\ pc = "match"
  BY DEF MatchTop, matchVars, sweepVars
<1>3. book'[mside] = book[mside]
  BY <1>1, <1>2, FillStates DEF IInv
<1> QED
  BY <1>1, <1>2, <1>3, FillPass DEF Calls, RecordedInv

\* The first record is traded; the maker it took completely was ahead of the rest.
LEMMA FokFillCalls ==
  ASSUME IInv, IInv', ~corrupt, Calls, FokFill
  PROVE  Calls' /\ StopsLeftBehind'
<1>1. PICK e \in OppBook, q \in Nat :
        /\ q <= odrMap[e[2]].remain_quantity /\ q <= Taker.remain_quantity
        /\ Fill(e, q) /\ Filled(e, q)
        /\ pc # "match" => e = plan[1].entry /\ q = plan[1].quantity
  BY FillCalls
<1>2. /\ UNCHANGED <<stopBook, pc, taker, mside, sweep, left>> /\ pc = "fok" /\ left = 0
      /\ plan # <<>> /\ plan' = Tail(plan)
  BY DEF FokFill, sweepVars
<1>3. /\ book'[mside] = book[mside]
      /\ q = odrMap[e[2]].remain_quantity => e \notin OppBook'
  BY <1>1, <1>2, FillStates DEF IInv
<1>4. /\ plan \in Seq(Records) /\ Len(plan) \in Nat /\ Len(plan) > 0
      /\ DOMAIN plan = 1 .. Len(plan)
  BY <1>2 DEF IInv, TypeOK
<1>5. /\ Len(plan') = Len(plan) - 1 /\ DOMAIN plan' = 1 .. Len(plan) - 1
      /\ \A i \in DOMAIN plan' : plan'[i] = plan[i + 1]
  <2>1. /\ plan' \in Seq(Records) /\ Len(plan') = Len(plan) - 1
        /\ \A i \in 1 .. Len(plan) - 1 : plan'[i] = plan[i + 1]
    BY <1>2, <1>4, HeadTailProperties
  <2> QED
    BY <2>1
<1>6. Taker'.price = Taker.price /\ OppBook' \subseteq OppBook
  BY <1>1, <1>2 DEF Filled, OppBook, Opposite, Sides
<1>7. RecordedInv'
  <2>1. SUFFICES ASSUME NEW i \in DOMAIN plan'
                 PROVE  /\ Crosses(mside, Taker.price, plan'[i].entry[1])
                        /\ \A f \in OppBook' : Ahead(Opposite(mside), plan'[i].entry, f)
                                               \/ \E j \in 1 .. i : f = plan'[j].entry
                        /\ i < Len(plan') =>
                             plan'[i].quantity = odrMap'[plan'[i].entry[2]].remain_quantity
    BY <1>2, <1>6 DEF RecordedInv, Crosses
  <2>2. i + 1 \in DOMAIN plan /\ plan'[i] = plan[i + 1] /\ i \in Nat /\ Len(plan) > 1 /\ i + 1 # 1
        /\ 1 \in DOMAIN plan
    BY <1>4, <1>5
  <2>3. /\ Crosses(mside, Taker.price, plan[i + 1].entry[1])
        /\ \A f \in OppBook : Ahead(Opposite(mside), plan[i + 1].entry, f)
                              \/ \E j \in 1 .. i + 1 : f = plan[j].entry
        /\ i + 1 < Len(plan) => plan[i + 1].quantity = odrMap[plan[i + 1].entry[2]].remain_quantity
    BY <1>2, <2>2 DEF Calls, RecordedInv
  <2>4. e \notin OppBook'
    <3>1. plan[1].quantity = odrMap[plan[1].entry[2]].remain_quantity
      BY <1>2, <2>2 DEF Calls, RecordedInv
    <3> QED
      BY <1>1, <1>2, <1>3, <3>1
  <2>5. ASSUME NEW f \in OppBook'
        PROVE  Ahead(Opposite(mside), plan'[i].entry, f) \/ \E j \in 1 .. i : f = plan'[j].entry
    <3>1. f \in OppBook /\ f # plan[1].entry
      BY <1>1, <1>2, <1>6, <2>4
    <3>2. ASSUME NEW j \in 1 .. i + 1, f = plan[j].entry
          PROVE  \E k \in 1 .. i : f = plan'[k].entry
      <4>1. j # 1 /\ j - 1 \in 1 .. i /\ j - 1 \in DOMAIN plan' /\ (j - 1) + 1 = j
        BY <1>4, <1>5, <2>2, <3>1, <3>2
      <4> QED
        BY <1>5, <3>2, <4>1
    <3> QED
      BY <2>2, <2>3, <3>1, <3>2
  <2>6. odrMap'[plan[i + 1].entry[2]] = odrMap[plan[i + 1].entry[2]]
    <3> DEFINE f == plan[i + 1].entry
    <3>1. f \in OppBook /\ f # e
      BY <1>1, <1>2, <2>2 DEF IInv, PlanInv
    <3>2. Opposite(mside) \in Sides
      BY DEF Opposite, Sides
    <3>3. f[2] # e[2] /\ f[2] # taker /\ f[2] \in DOMAIN odrMap
      BY <1>2, <3>1, <3>2, EntryFacts DEF IInv, ApartInv, OppBook
    <3> QED
      BY <1>1, <3>3 DEF Filled
  <2> QED
    BY <1>4, <1>5, <2>2, <2>3, <2>5, <2>6
<1> QED
  BY <1>1, <1>2, <1>3, <1>7, FillPass DEF Calls

\* The taker is canceled.
KillStep == CancelMakerOnly \/ CancelRemainder \/ CancelMarket \/ FokKill

\* Its state changes, and nothing else in the stores.
LEMMA KillFacts ==
  ASSUME IInv, ~corrupt, KillStep
  PROVE  /\ UNCHANGED <<book, stopBook, taker, mside, sweep, due, corrupt>>
         /\ pc \in {"match", "fok"} /\ pc' = "matched"
         /\ DOMAIN odrMap' = DOMAIN odrMap
         /\ \A i \in DOMAIN odrMap : i # taker => odrMap'[i] = odrMap[i]
         /\ taker # 0 => /\ Same(odrMap'[taker], odrMap[taker])
                         /\ SameLimits(odrMap'[taker], odrMap[taker])
                         /\ odrMap'[taker].price = odrMap[taker].price
                         /\ odrMap'[taker].order_state \in DoneStates
         /\ Same(o', o) /\ SameLimits(o', o) /\ (taker # 0 => o' = o)
<1>1. TypeOK /\ CallInv /\ Taker \in Order
  BY TakerFacts DEF IInv
<1>2. PICK st \in DoneStates : CancelTaker(st)
  BY DEF KillStep, CancelMakerOnly, CancelRemainder, CancelMarket, FokKill, DoneStates
<1>3. pc \in {"match", "fok"}
  BY DEF KillStep, CancelMakerOnly, CancelRemainder, CancelMarket, FokKill
<1> DEFINE ord == [Taker EXCEPT !.order_state = st]
<1>4. /\ Same(ord, Taker) /\ SameLimits(ord, Taker) /\ ord.price = Taker.price
      /\ ord.order_state = st
  BY <1>1 DEF Order, Same, SameLimits
<1>5. /\ UNCHANGED <<book, stopBook, taker, mside, sweep, due, corrupt>>
      /\ SetTaker(odrMap, ord) /\ pc' = "matched"
  BY <1>2 DEF CancelTaker, matchVars, sweepVars
<1> HIDE DEF ord
<1>6. CASE taker = 0
  BY <1>3, <1>4, <1>5, <1>6 DEF SetTaker, Taker, Same, SameLimits
<1>7. CASE taker # 0
  <2>1. taker \in DOMAIN odrMap
    BY <1>1, <1>7 DEF CallInv
  <2>2. odrMap' = Put(odrMap, taker, ord) /\ o' = o /\ Taker = odrMap[taker]
    BY <1>5, <1>7 DEF SetTaker, Taker
  <2>3. /\ DOMAIN odrMap' = DOMAIN odrMap /\ odrMap'[taker] = ord
        /\ \A i \in DOMAIN odrMap : i # taker => odrMap'[i] = odrMap[i]
    BY <2>1, <2>2 DEF Put
  <2> QED
    BY <1>3, <1>4, <1>5, <2>2, <2>3 DEF Same, SameLimits
<1> QED
  BY <1>6, <1>7

\* A canceled taker ends its pass as it found it.
LEMMA KillCalls ==
  ASSUME IInv, ~corrupt, Calls, KillStep
  PROVE  Calls' /\ StopsLeftBehind'
<1>1. /\ UNCHANGED <<book, stopBook, taker, mside, sweep, due>>
      /\ pc \in {"match", "fok"} /\ pc' = "matched" /\ Same(o', o)
      /\ \A i \in DOMAIN odrMap : i # taker => odrMap'[i] = odrMap[i]
  BY KillFacts
<1>2. SecondPass' => SecondPass
  BY <1>1 DEF SecondPass, Same
<1>3. \A b \in book["BUY"] : b[2] \in DOMAIN odrMap /\ b[2] # taker
  BY <1>1 DEF IInv, RestingInv, ApartInv, Sides
<1>4. SellStopsQuiet \/ OnlyStopsBid => SellStopsQuiet' \/ OnlyStopsBid'
  BY <1>1, <1>3, BidsKept
<1> QED
  BY <1>1, <1>2, <1>4 DEF Calls, FiredInv, RecordedInv, PassInv, StopsLeftBehind

\* What is left of the taker is put in its book.
RestStep == RestRemainder \/ RestRepriced

\* It is filed there under its id, at a price its order gets as well.
LEMMA RestFacts ==
  ASSUME IInv, ~corrupt, RestStep
  PROVE  /\ UNCHANGED <<stopBook, taker, mside, sweep, due, corrupt>>
         /\ pc = "match" /\ pc' = "matched" /\ Taker.remain_quantity > 0
         /\ Taker.order_id \in Nat /\ (taker # 0 => Taker.order_id = taker)
         /\ taker = 0 => Taker.order_id \notin DOMAIN odrMap
         /\ DOMAIN odrMap' = DOMAIN odrMap \cup {Taker.order_id}
         /\ \A i \in DOMAIN odrMap : i # Taker.order_id => odrMap'[i] = odrMap[i]
         /\ Same(odrMap'[Taker.order_id], Taker)
         /\ SameLimits(odrMap'[Taker.order_id], Taker)
         /\ odrMap'[Taker.order_id].order_state = Taker.order_state
         /\ Same(o', o) /\ SameLimits(o', o) /\ (taker # 0 => o' = o)
         /\ \E p \in Int :
              /\ odrMap'[Taker.order_id].price = p
              /\ book' = [book EXCEPT ![mside] = @ \cup {<<p, Taker.order_id>>}]
              /\ \/ p = Taker.price
                 \/ \E e \in book[mside] : p = e[1]
                 \/ \E e \in OppBook :
                      p = IF mside = "BUY" THEN e[1] - MiniTick ELSE e[1] + MiniTick
<1>1. /\ TypeOK /\ CallInv /\ Taker \in Order /\ (taker # 0 => Taker.order_id = taker)
      /\ RestingInv
  BY TakerFacts DEF IInv
<1>2. mside \in Sides /\ Opposite(mside) \in Sides
  BY <1>1 DEF TypeOK, Opposite, Sides
<1>3. pc = "match" /\ Taker.remain_quantity > 0
  <2>1. Taker.remain_quantity \in Nat
    BY <1>1, FieldFacts
  <2> QED
    BY <2>1 DEF RestStep, RestRemainder, RestRepriced
<1>4. \A s \in Sides : \A e \in book[s] : PriceOf(e) = e[1] /\ e[1] \in Int
  BY <1>1, EntryFacts DEF PriceOf, RestingInv
<1>5. \E p \in Int :
        /\ Rest(p)
        /\ \/ p = Taker.price
           \/ \E e \in book[mside] : p = e[1]
           \/ \E e \in OppBook :
                p = IF mside = "BUY" THEN e[1] - MiniTick ELSE e[1] + MiniTick
  <2>1. CASE RestRemainder /\ Taker.price # MARKET_PRICE
    BY <1>1, <2>1, FieldFacts DEF RestRemainder
  <2>2. CASE RestRemainder /\ Taker.price = MARKET_PRICE
    BY <1>2, <1>4, <2>2 DEF RestRemainder
  <2>3. CASE RestRepriced
    <3>1. PICK e \in OppBook :
            Rest(IF mside = "BUY" THEN PriceOf(e) - MiniTick ELSE PriceOf(e) + MiniTick)
      BY <2>3 DEF RestRepriced
    <3>2. PriceOf(e) = e[1] /\ e[1] \in Int
      BY <1>2, <1>4 DEF OppBook
    <3> DEFINE p == IF mside = "BUY" THEN e[1] - MiniTick ELSE e[1] + MiniTick
    <3>3. p \in Int /\ Rest(p)
      BY <3>1, <3>2, TickAssumption
    <3> QED
      BY <3>3
  <2> QED
    BY <2>1, <2>2, <2>3 DEF RestStep
<1>6. PICK p \in Int :
        /\ Rest(p)
        /\ \/ p = Taker.price
           \/ \E e \in book[mside] : p = e[1]
           \/ \E e \in OppBook :
                p = IF mside = "BUY" THEN e[1] - MiniTick ELSE e[1] + MiniTick
  BY <1>5
<1> DEFINE ord == Repriced(p)
           id == Taker.order_id
<1>7. /\ Same(ord, Taker) /\ SameLimits(ord, Taker) /\ ord.price = p
      /\ ord.order_state = Taker.order_state /\ ord.order_id = id /\ id \in Nat
  BY <1>1 DEF Order, Same, SameLimits, Repriced
<1>8. /\ UNCHANGED <<stopBook, taker, mside, sweep, due, corrupt>>
      /\ odrMap' = Put(odrMap, id, ord) /\ o' = IF taker = 0 THEN ord ELSE o
      /\ book' = [book EXCEPT ![mside] = @ \cup {<<p, id>>}]
      /\ pc' = "matched"
  BY <1>6, <1>7 DEF Rest, matchVars, sweepVars
<1>9. taker = 0 => id \notin DOMAIN odrMap
  BY <1>1, <1>3 DEF CallInv, Taker
<1> HIDE DEF ord
<1>10. Same(o', o) /\ SameLimits(o', o) /\ (taker # 0 => o' = o)
  BY <1>7, <1>8 DEF Same, SameLimits, Taker
<1> HIDE DEF id
<1>11. /\ DOMAIN odrMap' = DOMAIN odrMap \cup {id} /\ odrMap'[id] = ord
       /\ \A i \in DOMAIN odrMap : i # id => odrMap'[i] = odrMap[i]
  BY <1>8 DEF Put
<1> QED
  BY <1>1, <1>3, <1>6, <1>7, <1>8, <1>9, <1>10, <1>11 DEF id

\* A buy stop of the second pass may put the first bid in the book; otherwise the
\* best bid only gets better, which no sell stop that was quiet reacts to.
LEMMA RestCalls ==
  ASSUME IInv, IInv', ~corrupt, Calls, RestStep
  PROVE  Calls' /\ StopsLeftBehind'
<1> DEFINE id == Taker.order_id
<1>1. /\ UNCHANGED <<stopBook, taker, mside, sweep, due, corrupt>> /\ pc = "match"
      /\ pc' = "matched" /\ (taker # 0 => id = taker) /\ Same(o', o)
      /\ \A i \in DOMAIN odrMap : i # id => odrMap'[i] = odrMap[i]
      /\ Same(odrMap'[id], Taker)
  BY RestFacts
<1>2. PICK p \in Int : book' = [book EXCEPT ![mside] = @ \cup {<<p, id>>}]
  BY RestFacts
<1> HIDE DEF id
<1>3. SecondPass' => SecondPass /\ taker # 0
  BY <1>1 DEF SecondPass, Same
<1>4. ASSUME SecondPass, taker # 0 PROVE SellStopsQuiet' \/ OnlyStopsBid'
  <2>1. /\ mside = "BUY" /\ (SellStopsQuiet \/ OnlyStopsBid) /\ Taker.side = "BUY_STOP"
    BY <1>1, <1>4 DEF Calls, FiredInv, PassInv, SecondPass, IInv, CallInv, TradeSide, StopSides,
       Taker
  <2>2. \A b \in book["BUY"] : /\ b[2] \in DOMAIN odrMap /\ b[2] # id
                               /\ odrMap'[b[2]] = odrMap[b[2]] /\ odrMap[b[2]].price = b[1]
    BY <1>1, <1>4 DEF IInv, RestingInv, ApartInv, Sides
  <2>3. book'["BUY"] = book["BUY"] \cup {<<p, id>>}
    BY <1>2, <2>1 DEF IInv, TypeOK, Sides
  <2>4. CASE OnlyStopsBid
    BY <1>1, <2>1, <2>2, <2>3, <2>4 DEF OnlyStopsBid, Same
  <2>5. CASE book["BUY"] = {}
    BY <2>4, <2>5 DEF OnlyStopsBid
  <2>6. CASE SellStopsQuiet /\ book["BUY"] # {}
    <3>1. SUFFICES ASSUME NEW e \in stopBook["SELL"], Triggered("SELL", e[1])' PROVE FALSE
      BY <1>1 DEF SellStopsQuiet
    <3>2. PICK t \in book'["BUY"] :
            IsTop("BUY", book'["BUY"], t) /\ odrMap'[t[2]].price <= e[1]
      BY <3>1 DEF Triggered, PriceOf, Opposite, Fires
    <3>3. odrMap'[t[2]].price = t[1] /\ t[1] \in Int
      <4>1. RestingInv' /\ TypeOK' /\ t \in book'["BUY"]
        BY <1>1, <3>2 DEF IInv
      <4> QED
        BY <4>1 DEF RestingInv, TypeOK, Sides, Entries
    <3>4. book["BUY"] \in SUBSET Entries /\ e[1] \in Int
      BY DEF IInv, TypeOK, Sides, Entries
    <3>5. \A b \in book["BUY"] : b[1] <= t[1]
      BY <2>3, <3>2, <3>3, <3>4 DEF IsTop, Ahead, Entries
    <3>6. PICK b \in book["BUY"] : IsTop("BUY", book["BUY"], b)
      BY <2>6, <3>3, <3>4, <3>5, BestBid
    <3>7. odrMap[b[2]].price <= e[1]
      <4>1. b[1] \in Int
        BY <3>4 DEF Entries
      <4> QED
        BY <2>2, <3>2, <3>3, <3>4, <3>5, <4>1
    <3>8. Triggered("SELL", e[1])
      BY <3>6, <3>7 DEF Triggered, PriceOf, Opposite, Fires
    <3> QED
      BY <2>6, <3>8 DEF SellStopsQuiet
  <2> QED
    BY <2>1, <2>4, <2>5, <2>6
<1> QED
  BY <1>1, <1>3, <1>4 DEF Calls, FiredInv, RecordedInv, PassInv, StopsLeftBehind

\* The next record is of the best maker that has none, taken down with all it has
\* unless that covers the order.
LEMMA CollectCalls ==
  ASSUME IInv, ~corrupt, Calls, FokCollect
  PROVE  Calls' /\ StopsLeftBehind'
<1>1. PICK e \in Unplanned :
        /\ FokCandidate(e)
        /\ left' = left - MatchedQuantity(odrMap[e[2]].remain_quantity, left)
        /\ plan' = Append(plan, [entry |-> e,
                                 quantity |-> MatchedQuantity(odrMap[e[2]].remain_quantity, left),
                                 left |-> left'])
  BY DEF FokCollect
<1> DEFINE q == MatchedQuantity(odrMap[e[2]].remain_quantity, left)
           r == [entry |-> e, quantity |-> q, left |-> left']
<1>2. /\ UNCHANGED <<odrMap, book, stopBook, pc, o, taker, mside, sweep>>
      /\ pc = "fok" /\ left # 0
  BY DEF FokCollect, storeVars, sweepVars
<1>3. Opposite(mside) \in Sides
  BY DEF Opposite, Sides
<1>4. e \in OppBook /\ e \in Entries /\ odrMap[e[2]] \in Order /\ PriceOf(e) = e[1]
  <2>1. e \in OppBook
    BY DEF Unplanned
  <2> QED
    BY <1>3, <2>1, EntryFacts DEF IInv, OppBook, PriceOf, RestingInv
<1>5. left \in Nat /\ odrMap[e[2]].remain_quantity \in Nat
  BY <1>4, FieldFacts DEF IInv, TypeOK
<1>6. q \in Nat /\ left' \in Int /\ (left' # 0 => q = odrMap[e[2]].remain_quantity)
  BY <1>1, <1>5 DEF MatchedQuantity
<1>7. left' \in Nat
  BY <1>1, <1>5 DEF MatchedQuantity
<1> HIDE DEF q
<1>8. r \in Records /\ plan \in Seq(Records)
  BY <1>4, <1>6, <1>7 DEF Records, IInv, TypeOK
<1>9. /\ Len(plan) \in Nat /\ DOMAIN plan = 1 .. Len(plan) /\ Len(plan') = Len(plan) + 1
      /\ DOMAIN plan' = 1 .. Len(plan) + 1 /\ plan'[Len(plan) + 1] = r
      /\ \A i \in 1 .. Len(plan) : plan'[i] = plan[i]
  <2>1. plan' = Append(plan, r)
    BY <1>1 DEF q
  <2> HIDE DEF r
  <2> QED
    BY <1>8, <2>1
<1>10. r.entry = e /\ r.quantity = q
  OBVIOUS
<1> HIDE DEF r
<1>11. Taker' = Taker /\ OppBook' = OppBook
  BY <1>2 DEF Taker, OppBook
<1>12. ASSUME NEW i \in DOMAIN plan'
       PROVE  /\ Crosses(mside, Taker.price, plan'[i].entry[1])
              /\ \A f \in OppBook : Ahead(Opposite(mside), plan'[i].entry, f)
                                    \/ \E j \in 1 .. i : f = plan'[j].entry
              /\ i < Len(plan') \/ left' # 0 =>
                   plan'[i].quantity = odrMap[plan'[i].entry[2]].remain_quantity
  <2>1. CASE i \in DOMAIN plan
    <3>1. plan'[i] = plan[i] /\ \A j \in 1 .. i : plan'[j] = plan[j]
      BY <1>9, <2>1
    <3> QED
      BY <1>2, <2>1, <3>1 DEF Calls, RecordedInv
  <2>2. CASE i \notin DOMAIN plan
    <3>1. i = Len(plan) + 1 /\ plan'[i].entry = e /\ plan'[i].quantity = q
      BY <1>9, <1>10, <2>2
    <3>2. Crosses(mside, Taker.price, e[1]) /\ IsTop(Opposite(mside), Unplanned, e)
      BY <1>1, <1>4 DEF FokCandidate
    <3>3. ASSUME NEW f \in OppBook, f \notin Unplanned
          PROVE  \E j \in 1 .. i : f = plan'[j].entry
      <4>1. PICK j \in DOMAIN plan : f = plan[j].entry
        BY <3>3 DEF Unplanned
      <4>2. j \in 1 .. i /\ plan'[j] = plan[j]
        BY <1>9, <3>1, <4>1
      <4> QED
        BY <4>1, <4>2
    <3>4. i \in 1 .. i
      BY <1>9, <3>1
    <3> QED
      BY <1>6, <1>9, <3>1, <3>2, <3>3, <3>4 DEF IsTop
  <2> QED
    BY <2>1, <2>2
<1>13. RecordedInv'
  BY <1>2, <1>11, <1>12 DEF RecordedInv, Crosses
<1>14. SecondPass' => SecondPass
  BY <1>2 DEF SecondPass
<1>15. SellStopsQuiet \/ OnlyStopsBid => SellStopsQuiet' \/ OnlyStopsBid'
  BY <1>2, BidsKept
<1> QED
  BY <1>2, <1>11, <1>13, <1>14, <1>15 DEF Calls, FiredInv, PassInv, StopsLeftBehind

\* The stops that are due leave their book.
LEMMA SweepFacts ==
  ASSUME IInv, ~corrupt, SweepStops
  PROVE  /\ UNCHANGED <<odrMap, book, o, taker, sweep, corrupt>> /\ pc = "sweep" /\ pc' = "fire"
         /\ due = {} /\ due' \subseteq stopBook[sweep]
         /\ \A s \in Sides : stopBook'[s] = IF s = sweep THEN stopBook[s] \ due' ELSE stopBook[s]
<1>1. /\ UNCHANGED <<odrMap, book, o, taker, sweep, corrupt>> /\ pc = "sweep" /\ pc' = "fire"
      /\ due' = DueStops /\ stopBook' = [stopBook EXCEPT ![sweep] = @ \ DueStops]
  BY DEF SweepStops, CollectStops, matchVars
<1> QED
  BY <1>1 DEF IInv, CallInv, TypeOK, DueStops

\* Stops leave their book; no bid changes.
LEMMA SweepCalls ==
  ASSUME IInv, ~corrupt, Calls, SweepStops
  PROVE  Calls' /\ StopsLeftBehind'
<1>1. /\ UNCHANGED <<odrMap, book, o, taker, sweep>> /\ pc = "sweep" /\ pc' = "fire"
      /\ stopBook'["SELL"] \subseteq stopBook["SELL"]
  BY SweepFacts DEF Sides
<1>2. SecondPass' => SecondPass
  BY <1>1 DEF SecondPass
<1>3. SellStopsQuiet \/ OnlyStopsBid => SellStopsQuiet' \/ OnlyStopsBid'
  BY <1>1, BidsKept
<1> QED
  BY <1>1, <1>2, <1>3 DEF Calls, FiredInv, RecordedInv, PassInv, StopsLeftBehind

\* A stop of odr_list becomes the taker at its limit price.
LEMMA FireFacts ==
  ASSUME IInv, ~corrupt, FireStop
  PROVE  \E e \in due :
           /\ UNCHANGED <<book, stopBook, o, sweep, corrupt>> /\ pc = "fire"
           /\ Waiting(sweep, e) /\ sweep \in Sides /\ e[2] \in Nat /\ e[2] > 0
           /\ odrMap[e[2]] \in Order
           /\ taker' = e[2] /\ due' = due \ {e} /\ mside' = sweep
           /\ plan' = <<>> /\ pc' \in {"match", "fok"}
           /\ DOMAIN odrMap' = DOMAIN odrMap
           /\ \A i \in DOMAIN odrMap : i # e[2] => odrMap'[i] = odrMap[i]
           /\ Taker' = odrMap'[e[2]]
           /\ Same(odrMap'[e[2]], odrMap[e[2]]) /\ SameLimits(odrMap'[e[2]], odrMap[e[2]])
           /\ odrMap'[e[2]].price = StopLimit(sweep, odrMap[e[2]])
           /\ odrMap'[e[2]].remain_quantity = odrMap[e[2]].remain_quantity
           /\ odrMap'[e[2]].order_state = odrMap[e[2]].order_state
<1>1. PICK e \in due :
        /\ odrMap' = [odrMap EXCEPT ![e[2]].price = StopLimit(sweep, odrMap[e[2]])]
        /\ taker' = e[2] /\ due' = due \ {e} /\ StartMatch(sweep, odrMap[e[2]])
  BY DEF FireStop
<1> DEFINE ori == odrMap[e[2]]
           ord == [ori EXCEPT !.price = StopLimit(sweep, ori)]
<1>2. UNCHANGED <<book, stopBook, o, sweep, corrupt>> /\ pc = "fire"
  BY DEF FireStop
<1>3. Waiting(sweep, e) /\ sweep \in Sides
  BY DEF IInv, StopInv, TypeOK
<1>4. e[2] \in DOMAIN odrMap /\ ori \in Order /\ e[2] \in Nat /\ e[2] > 0
  BY <1>3 DEF Waiting, IInv, TypeOK
<1>5. /\ Same(ord, ori) /\ SameLimits(ord, ori) /\ ord.price = StopLimit(sweep, ori)
      /\ ord.remain_quantity = ori.remain_quantity /\ ord.order_state = ori.order_state
  BY <1>4 DEF Order, Same, SameLimits
<1>6. /\ DOMAIN odrMap' = DOMAIN odrMap /\ odrMap'[e[2]] = ord
      /\ \A i \in DOMAIN odrMap : i # e[2] => odrMap'[i] = odrMap[i]
  <2>1. odrMap' = [odrMap EXCEPT ![e[2]] = ord]
    BY <1>1
  <2> HIDE DEF ord
  <2> QED
    BY <1>4, <2>1 DEF IInv, TypeOK
<1>7. Taker' = odrMap'[e[2]]
  BY <1>1, <1>4 DEF Taker
<1>8. mside' = sweep /\ plan' = <<>> /\ pc' \in {"match", "fok"}
  BY <1>1 DEF StartMatch
<1> HIDE DEF ord
<1> QED
  BY <1>1, <1>2, <1>3, <1>4, <1>5, <1>6, <1>7, <1>8 DEF ori

\* The stop trades on the side that is triggered; it is not in a book yet.
LEMMA FireCalls ==
  ASSUME IInv, ~corrupt, Calls, FireStop
  PROVE  Calls' /\ StopsLeftBehind'
<1>1. PICK e \in due :
        /\ UNCHANGED <<book, stopBook, o, sweep>> /\ pc = "fire" /\ Waiting(sweep, e)
        /\ mside' = sweep /\ plan' = <<>> /\ pc' \in {"match", "fok"}
        /\ \A i \in DOMAIN odrMap : i # e[2] => odrMap'[i] = odrMap[i]
        /\ Taker' = odrMap'[e[2]] /\ Same(odrMap'[e[2]], odrMap[e[2]])
  BY FireFacts
<1>2. FiredInv' /\ RecordedInv'
  BY <1>1 DEF FiredInv, RecordedInv, Waiting, Same
<1>3. SecondPass' => SecondPass
  BY <1>1 DEF SecondPass
<1>4. \A b \in book["BUY"] : b[2] \in DOMAIN odrMap /\ b[2] # e[2]
  BY DEF IInv, RestingInv, ApartInv, Sides
<1>5. SellStopsQuiet \/ OnlyStopsBid => SellStopsQuiet' \/ OnlyStopsBid'
  BY <1>1, <1>4, BidsKept
<1> QED
  BY <1>1, <1>2, <1>3, <1>5 DEF Calls, PassInv, StopsLeftBehind

\* handle_cancel and handle_amend are no passes of handle_new.
LEMMA CancelCalls ==
  ASSUME IInv, ~corrupt, Calls, CancelParked \/ CancelResting \/ EraseCanceled \/ AmendReplace
                                \/ AmendInPlace
  PROVE  Calls' /\ StopsLeftBehind'
<1>1. o.order_action # "NEW"
  BY DEF Calls, FiredInv, CancelParked, CancelResting, EraseCanceled, AmendReplace, AmendInPlace
<1>2. CASE CancelParked \/ CancelResting
  <2>1. o' = o /\ pc' \in {"erase", "sweep"}
    BY <1>2 DEF CancelParked, CancelResting
  <2> QED
    BY <1>1, <2>1 DEF Calls, FiredInv, RecordedInv, PassInv, SecondPass, StopsLeftBehind
<1>3. CASE EraseCanceled
  <2>1. pc' = "new" \/ (pc' = "done" /\ o' = o)
    BY <1>3 DEF EraseCanceled
  <2> QED
    BY <1>1, <2>1 DEF Calls, FiredInv, RecordedInv, PassInv, SecondPass, StopsLeftBehind
<1>4. CASE AmendReplace \/ AmendInPlace
  <2>1. o' = o /\ pc' \in {"cancel", "done"}
    BY <1>4 DEF AmendReplace, AmendInPlace
  <2> QED
    BY <1>1, <2>1 DEF Calls, FiredInv, RecordedInv, PassInv, SecondPass, StopsLeftBehind
<1> QED
  BY <1>2, <1>3, <1>4

\* Stuttering changes nothing of it.
LEMMA StutterCalls ==
  ASSUME Calls, UNCHANGED vars
  PROVE  Calls'
<1> USE DEF vars, engineVars, callVars
<1>1. FiredInv'
  BY DEF Calls, FiredInv, Taker
<1>2. RecordedInv'
  BY DEF Calls, RecordedInv, Taker, OppBook
<1>3. PassInv'
  BY DEF Calls, PassInv, SecondPass, SellStopsQuiet, OnlyStopsBid, Triggered, PriceOf
<1> QED
  BY <1>1, <1>2, <1>3 DEF Calls

\* Every step keeps JInv.
LEMMA CallsOk ==
  ASSUME NoBothStops, JInv, [Next]_vars
  PROVE  JInv'
<1>1. IInv'
  BY NextOk DEF JInv
<1>2. CASE UNCHANGED vars
  <2>1. StopsLeftBehind'
    BY <1>2 DEF JInv, StopsLeftBehind, Triggered, PriceOf, vars, engineVars, callVars
  <2>2. corrupt' = corrupt
    BY <1>2 DEF vars, engineVars
  <2> QED
    BY <1>1, <1>2, <2>1, <2>2, StutterCalls DEF JInv, Calls
<1>3. CASE Next
  <2>1. ~corrupt /\ IInv /\ Calls /\ StopsLeftBehind
    BY <1>3 DEF Next, JInv, Calls
  <2>2. CASE \E r \in Requests : Handle(r) \/ HandleAuctionStop(r)
    BY <1>1, <2>1, <2>2, HandleCalls DEF JInv, Calls
  <2>3. CASE Step
    <3>1. QuietStep \/ StartStep \/ MatchTop \/ FokFill \/ KillStep \/ RestStep \/ FokCollect
          \/ SweepStops \/ FireStop \/ CancelParked \/ CancelResting \/ EraseCanceled
          \/ AmendReplace \/ AmendInPlace
      BY <2>3 DEF Step, QuietStep, StartStep, KillStep, RestStep
    <3>2. Calls' /\ StopsLeftBehind'
      BY <1>1, <2>1, <3>1, QuietCalls, StartCalls, MatchTopCalls, FokFillCalls, KillCalls,
         RestCalls, CollectCalls, SweepCalls, FireCalls, CancelCalls
    <3> QED
      BY <1>1, <3>2 DEF JInv, Calls
  <2> QED
    BY <1>3, <2>2, <2>3 DEF Next
<1> QED
  BY <1>2, <1>3

\* JInv is an invariant of every engine that is sent no two-sided stops.
THEOREM CallsInductive ==
  ASSUME NoBothStops
  PROVE  Spec => []JInv
<1>1. Init => JInv
  <2>1. SUFFICES ASSUME Init PROVE JInv
    OBVIOUS
  <2>2. IInv
    BY <2>1, InitEmpty, InitOk
  <2> QED
    BY <2>1, <2>2 DEF Init, JInv, StopsLeftBehind, FiredInv, RecordedInv, PassInv, SecondPass
<1>2. JInv /\ [Next]_vars => JInv'
  BY CallsOk
<1> QED
  BY <1>1, <1>2, PTL DEF Spec

\* When handle_new has run its two passes no buy stop is left that the best ask
\* has reached, and a sell stop that the best bid has reached only when all bids
\* were put in the book by buy stops.
THEOREM StopsLeftBehindHolds ==
  ASSUME NoBothStops
  PROVE  Spec => []StopsLeftBehind
<1>1. JInv => StopsLeftBehind
  BY DEF JInv
<1> QED
  BY <1>1, CallsInductive, PTL

-----------------------------------------------------------------------------
(* The priority of every fill.                                             *)

\* An entry of the opposite book loses quantity in this step.
Trades(e) ==
  \/ e[2] \notin DOMAIN odrMap'
  \/ odrMap'[e[2]].remain_quantity < odrMap[e[2]].remain_quantity

\* e is ahead of the other entries of the opposite book and within the limit.
Best(e) ==
  /\ Crosses(mside, Taker.price, e[1])
  /\ \A f \in OppBook : f = e \/ Ahead(Opposite(mside), e, f)

\* What trades is the best: normal_match looks it up, and the records of
\* fok_match are in the order of the book.
LEMMA BestTrades ==
  ASSUME JInv, ~corrupt, pc \in {"match", "fok"}, [Next]_vars, NEW e \in OppBook, Trades(e)
  PROVE  Best(e)
<1>1. TypeOK /\ CallInv /\ RestingInv /\ ApartInv /\ IInv /\ Calls
  BY DEF JInv, IInv, Calls
<1>2. Opposite(mside) \in Sides
  BY DEF Opposite, Sides
<1>3. /\ e[2] \in DOMAIN odrMap /\ e[2] # taker /\ odrMap[e[2]].remain_quantity \in Nat
      /\ PriceOf(e) = e[1]
  BY <1>1, <1>2, EntryFacts, FieldFacts DEF OppBook, ApartInv, PriceOf, RestingInv
<1>4. MatchTop \/ FokFill
  <2>1. SUFFICES ASSUME ~MatchTop, ~FokFill
                 PROVE  e[2] \in DOMAIN odrMap' /\ odrMap'[e[2]] = odrMap[e[2]]
    BY <1>3 DEF Trades
  <2>2. CASE UNCHANGED vars
    BY <1>3, <2>2 DEF vars, engineVars
  <2>3. CASE MatchDone \/ FokDone \/ FokCollect
    BY <1>3, <2>3 DEF MatchDone, FokDone, FokCollect, storeVars
  <2>4. CASE KillStep
    BY <1>1, <1>3, <2>4, KillFacts
  <2>5. CASE RestStep
    <3>1. e[2] # Taker.order_id
      BY <1>1, <1>3, <2>5, RestFacts
    <3> QED
      BY <1>1, <1>3, <2>5, <3>1, RestFacts
  <2>6. MatchDone \/ FokDone \/ FokCollect \/ KillStep \/ RestStep \/ UNCHANGED vars
    BY <2>1 DEF Next, Step, Handle, HandleAuctionStop, RejectNew, NewBuySell, NewBuyStop,
       NewSellStop, NewBuySellStop, KillStep, RestStep, MatchReturn, SweepStops, CollectStops,
       SweepReturn, FireStop, FireReturn, CancelUnknown, CancelParked, CancelResting,
       EraseCanceled, RejectAmend, AmendInPlace, AmendReplace, FlushAuction, Unlock
  <2> QED
    BY <2>2, <2>3, <2>4, <2>5, <2>6
<1>5. PICK g \in OppBook, q \in Nat :
        /\ Filled(g, q)
        /\ IF pc = "match" THEN Crossing(g) ELSE g = plan[1].entry /\ plan # <<>>
  BY <1>1, <1>4, FillCalls
<1>6. e = g
  <2>1. SUFFICES ASSUME e # g PROVE FALSE
    OBVIOUS
  <2>2. e[2] # g[2]
    BY <1>1, <1>2, <2>1, EntryFacts DEF OppBook
  <2>3. e[2] \in DOMAIN odrMap' /\ odrMap'[e[2]] = odrMap[e[2]]
    BY <1>3, <1>5, <2>2 DEF Filled
  <2> QED
    BY <1>3, <2>3 DEF Trades
<1>7. CASE pc = "match"
  BY <1>3, <1>5, <1>6, <1>7 DEF Crossing, TopOpposite, IsTop, Best
<1>8. CASE pc # "match"
  <2>1. pc = "fok" /\ 1 \in DOMAIN plan
    BY <1>1, <1>5, <1>8 DEF TypeOK
  <2>2. /\ Crosses(mside, Taker.price, e[1])
        /\ \A f \in OppBook : Ahead(Opposite(mside), e, f) \/ \E j \in 1 .. 1 : f = plan[j].entry
    BY <1>1, <1>5, <1>6, <1>8, <2>1 DEF Calls, RecordedInv
  <2> QED
    BY <1>5, <1>6, <1>8, <2>2 DEF Best
<1> QED
  BY <1>7, <1>8

\* Every fill is with the best and oldest order of the opposite book and within
\* the taker's limit, also when fok_match trades what it recorded before.
THEOREM FillsFollowPriorityHolds ==
  ASSUME NoBothStops
  PROVE  Spec => FillsFollowPriority
<1> DEFINE A == \A e \in OppBook :
       (/\ pc \in {"match", "fok"}
        /\ \/ e[2] \notin DOMAIN odrMap'
           \/ odrMap'[e[2]].remain_quantity < odrMap[e[2]].remain_quantity)
       => IF mside = "BUY"
          THEN /\ Taker.price >= e[1] \/ Taker.price = MARKET_PRICE
               /\ \A f \in OppBook : f[1] > e[1] \/ (f[1] = e[1] /\ f[2] >= e[2])
          ELSE /\ Taker.price <= e[1] \/ Taker.price = MARKET_PRICE
               /\ \A f \in OppBook : f[1] < e[1] \/ (f[1] = e[1] /\ f[2] >= e[2])
<1>1. JInv /\ [Next]_vars => [A]_vars
  <2>1. SUFFICES ASSUME JInv, [Next]_vars, ~UNCHANGED vars PROVE A
    OBVIOUS
  <2>2. ~corrupt /\ mside \in Sides /\ TypeOK /\ RestingInv
    BY <2>1 DEF Next, JInv, IInv, TypeOK
  <2>3. SUFFICES ASSUME NEW e \in OppBook, pc \in {"match", "fok"}, Trades(e)
                 PROVE  IF mside = "BUY"
                        THEN /\ Taker.price >= e[1] \/ Taker.price = MARKET_PRICE
                             /\ \A f \in OppBook : f[1] > e[1] \/ (f[1] = e[1] /\ f[2] >= e[2])
                        ELSE /\ Taker.price <= e[1] \/ Taker.price = MARKET_PRICE
                             /\ \A f \in OppBook : f[1] < e[1] \/ (f[1] = e[1] /\ f[2] >= e[2])
    BY DEF Trades
  <2>4. Best(e)
    BY <2>1, <2>2, <2>3, BestTrades
  <2>5. \A f \in OppBook : f[1] \in Int /\ f[2] \in Nat
    BY <2>2 DEF OppBook, Opposite, Sides, TypeOK, Entries
  <2> QED
    BY <2>2, <2>4, <2>5 DEF Best, Crosses, Ahead, Opposite, Sides
<1>2. QED
  BY <1>1, CallsInductive, PTL DEF Spec, FillsFollowPriority, A

-----------------------------------------------------------------------------
(* Every step keeps what KInv adds to JInv: where the orders are.           *)

Places == LimitInv /\ LiveInv /\ FiledInv

\* The default order, which handle_cancel gets with an id, has market limits.
LEMMA DefaultLimits ==
  /\ DefaultOrder.buy_stop_limit_price = MARKET_PRICE
  /\ DefaultOrder.sell_stop_limit_price = MARKET_PRICE
  /\ DefaultOrder.price = MARKET_PRICE /\ DefaultOrder.order_action = "NEW"
  BY DEF DefaultOrder

\* A request is a struct order with one of the three actions.
LEMMA RequestActions ==
  ASSUME NEW r \in Requests
  PROVE  r.order_action \in Actions /\ "order_state" \in DOMAIN r
<1>1. CASE r \in NewRequests
  BY <1>1, RequestAssumption DEF Actions, Order
<1>2. ASSUME NEW a \in AmendRequests, NEW id, r = [a EXCEPT !.order_id = id]
      PROVE  r.order_action \in Actions /\ "order_state" \in DOMAIN r
  BY <1>2, RequestAssumption DEF Order
<1>3. ASSUME NEW id, r = CancelRequest(id)
      PROVE  r.order_action \in Actions /\ "order_state" \in DOMAIN r
  BY <1>3 DEF CancelRequest, DefaultOrder, Actions
<1> QED
  BY <1>1, <1>2, <1>3 DEF Requests

\* The price and the limits of a request are above the price of a parked stop.
LEMMA RequestPrices ==
  ASSUME PricesAboveStop, NEW r \in Requests
  PROVE  /\ r.price > STOP_PRICE + MiniTick
         /\ \A s \in Sides : StopLimit(s, r) > STOP_PRICE + MiniTick
<1>1. CASE r \in NewRequests
  BY <1>1 DEF PricesAboveStop, StopLimit
<1>2. ASSUME NEW a \in AmendRequests, NEW id, r = [a EXCEPT !.order_id = id]
      PROVE  /\ r.price > STOP_PRICE + MiniTick
             /\ \A s \in Sides : StopLimit(s, r) > STOP_PRICE + MiniTick
  <2>1. a \in Order
    BY RequestAssumption
  <2>2. /\ r.price = a.price /\ r.buy_stop_limit_price = a.buy_stop_limit_price
        /\ r.sell_stop_limit_price = a.sell_stop_limit_price
    BY <1>2, <2>1 DEF Order
  <2> QED
    BY <2>2 DEF PricesAboveStop, StopLimit
<1>3. ASSUME NEW id, r = CancelRequest(id)
      PROVE  /\ r.price > STOP_PRICE + MiniTick
             /\ \A s \in Sides : StopLimit(s, r) > STOP_PRICE + MiniTick
  <2>1. /\ r.price = MARKET_PRICE /\ r.buy_stop_limit_price = MARKET_PRICE
        /\ r.sell_stop_limit_price = MARKET_PRICE
    BY <1>3 DEF CancelRequest, DefaultOrder
  <2> QED
    BY <2>1 DEF PricesAboveStop, StopLimit
<1> QED
  BY <1>1, <1>2, <1>3 DEF Requests

\* A step that leaves the stores alone leaves every order where it was.
LEMMA PlacesKept ==
  ASSUME Places, UNCHANGED <<odrMap, book, stopBook, due>>, pc' \notin {"match", "fok"},
         \A s \in Sides : StopLimit(s, o') > STOP_PRICE + MiniTick,
         (pc' = "new" \/ o'.order_action # "NEW") /\ o'.side \in Sides =>
           o'.price > STOP_PRICE + MiniTick,
         Canceling' => Canceling /\ o'.order_id # taker',
         Canceling => Canceling' /\ o'.order_id = o.order_id,
         pc \in {"match", "fok"} /\ taker # 0 => odrMap[taker].order_state \notin LiveStates,
         \A i \in DOMAIN odrMap : i # 0
  PROVE  Places'
<1>1. LimitInv'
  BY DEF Places, LimitInv, StopLimit
<1>2. LiveInv'
  BY DEF Places, LiveInv
<1>3. FiledInv'
  <2>1. Canceling' => /\ o'.order_id \in DOMAIN odrMap
                      /\ odrMap[o'.order_id].order_state \in {"CANCELED_BY_USER", "CANCELED_BY_AMEND"}
    BY DEF Places, FiledInv
  <2>2. ASSUME NEW i \in DOMAIN odrMap, odrMap[i].order_state \in LiveStates
        PROVE  \/ <<odrMap[i].price, i>> \in book[TradeSide(odrMap[i])]
               \/ /\ odrMap[i].side \in StopSides /\ odrMap[i].price = STOP_PRICE
                  /\ StopEntry(TradeSide(odrMap[i]), odrMap[i]) \in
                       stopBook[TradeSide(odrMap[i])] \cup due
    BY <2>2 DEF Places, FiledInv
  <2>3. ASSUME NEW i \in DOMAIN odrMap, odrMap[i].order_state \notin LiveStates
        PROVE  /\ odrMap[i].order_state \in DoneStates
               /\ \/ odrMap[i].side \in StopSides /\ odrMap[i].price # STOP_PRICE
                  \/ Canceling /\ i = o.order_id
    BY <2>3 DEF Places, FiledInv
  <2> QED
    BY <2>1, <2>2, <2>3 DEF FiledInv, TradeSide, StopEntry
<1> QED
  BY <1>1, <1>2, <1>3 DEF Places

\* A call starts with the orders where the last one left them.
LEMMA HandlePlaces ==
  ASSUME KInv, ~corrupt, PricesAboveStop, NEW r \in Requests, Handle(r) \/ HandleAuctionStop(r)
  PROVE  Places'
<1>1. Places /\ pc = "idle" /\ ~Canceling /\ \A i \in DOMAIN odrMap : i # 0
  BY DEF KInv, Places, Handle, HandleAuctionStop, Canceling, JInv, IInv, TypeOK
<1>2. CASE Handle(r)
  <2>1. /\ UNCHANGED <<odrMap, book, stopBook, due>> /\ o' = r
        /\ pc' \notin {"match", "fok", "sweep", "fire", "matched", "erase"}
    <3>1. r.order_action \in Actions
      BY RequestActions
    <3> QED
      BY <1>2, <3>1 DEF Handle, storeVars, sweepVars, Actions
  <2> QED
    BY <1>1, <2>1, RequestPrices, PlacesKept DEF Canceling
<1>3. CASE HandleAuctionStop(r)
  <2>1. UNCHANGED <<odrMap, book, stopBook, due, o, pc, taker>>
    BY <1>3 DEF HandleAuctionStop, storeVars, callVars
  <2> QED
    BY <1>1, <2>1, PlacesKept DEF Canceling, Places, LimitInv, StopLimit
<1> QED
  BY <1>2, <1>3

\* Quiet steps; a loop that ends by itself leaves a filled order.
LEMMA QuietPlaces ==
  ASSUME KInv, ~corrupt, PricesAboveStop, QuietStep
  PROVE  Places'
<1>1. /\ Places /\ IInv /\ \A i \in DOMAIN odrMap : i # 0
      /\ taker # 0 => pc \in {"match", "fok", "matched"} /\ taker \in DOMAIN odrMap
      /\ pc \in {"new", "match", "fok", "matched"} /\ taker = 0 => o.order_action = "NEW"
  BY DEF KInv, Places, JInv, IInv, TypeOK, CallInv
<1>2. UNCHANGED <<odrMap, book, stopBook, due>> /\ pc' \notin {"match", "fok"}
  BY <1>1, QuietFacts
<1>3. CASE RejectNew \/ CancelUnknown \/ RejectAmend
  <2>1. pc \in {"new", "cancel", "amend"} /\ pc' = "done"
    BY <1>3 DEF RejectNew, CancelUnknown, RejectAmend
  <2>2. /\ SameLimits(o', o) /\ o'.order_action = o.order_action /\ o'.side = o.side
        /\ pc # "new" => o'.price = o.price
    <3>1. o \in Order
      BY <1>1 DEF IInv, TypeOK
    <3> QED
      BY <1>3, <2>1, <3>1 DEF RejectNew, CancelUnknown, RejectAmend, Order, SameLimits
  <2>3. taker = 0
    BY <1>1, <2>1
  <2>4. /\ \A s \in Sides : StopLimit(s, o') > STOP_PRICE + MiniTick
        /\ (pc' = "new" \/ o'.order_action # "NEW") /\ o'.side \in Sides =>
             o'.price > STOP_PRICE + MiniTick
    BY <1>1, <2>1, <2>2, <2>3 DEF Places, LimitInv, StopLimit, SameLimits
  <2> QED
    BY <1>1, <1>2, <2>1, <2>4, PlacesKept DEF Canceling
<1>4. CASE Unlock
  <2>1. pc = "done" /\ pc' = "idle" /\ o' = DefaultOrder
    BY <1>4 DEF Unlock, NoCall
  <2>2. \A s \in Sides : StopLimit(s, o') > STOP_PRICE + MiniTick
    BY <2>1, DefaultLimits DEF StopLimit, PricesAboveStop
  <2> QED
    BY <1>1, <1>2, <2>1, <2>2, DefaultLimits, PlacesKept DEF Canceling
<1>5. ASSUME UNCHANGED o, pc' # "new", Canceling' <=> Canceling, o.order_id # taker' \/ ~Canceling,
             pc \in {"match", "fok"} /\ taker # 0 => odrMap[taker].order_state \notin LiveStates
      PROVE  Places'
  BY <1>1, <1>2, <1>5, PlacesKept DEF Places, LimitInv, StopLimit
<1>6. CASE MatchDone \/ FokDone
  <2>1. UNCHANGED <<o, taker>> /\ pc \in {"match", "fok"} /\ pc' = "matched"
    BY <1>6 DEF MatchDone, FokDone, matchVars
  <2>2. Taker.remain_quantity = 0
    BY <1>1, <1>6 DEF MatchDone, FokDone, IInv, PlanInv
  <2>3. Taker.order_state = "FILLED"
    BY <1>1, <2>1, <2>2 DEF Places, LiveInv
  <2>4. pc \in {"match", "fok"} /\ taker # 0 => odrMap[taker].order_state \notin LiveStates
    BY <2>3 DEF Taker, LiveStates
  <2>5. (Canceling' <=> Canceling) /\ (o.order_id # taker' \/ ~Canceling)
    BY <1>1, <2>1 DEF Canceling, Places, FiledInv
  <2> QED
    BY <1>5, <2>1, <2>4, <2>5
<1>7. CASE MatchReturn
  <2>1. UNCHANGED o /\ pc = "matched" /\ taker' = 0 /\ pc' # "new" /\ (taker # 0 => pc' = "fire")
    BY <1>7 DEF MatchReturn
  <2>2. (Canceling' <=> Canceling) /\ (o.order_id # taker' \/ ~Canceling)
    BY <1>1, <2>1 DEF Canceling, Places, FiledInv
  <2> QED
    BY <1>5, <2>1, <2>2
<1>8. CASE SweepReturn \/ FireReturn
  <2>1. /\ UNCHANGED <<o, taker>> /\ pc \in {"sweep", "fire"} /\ pc' # "new"
        /\ o.order_action # "NEW" => pc' \in {"erase", "sweep"}
    BY <1>8 DEF SweepReturn, FireReturn, matchVars
  <2>2. (Canceling' <=> Canceling) /\ (o.order_id # taker' \/ ~Canceling)
    BY <1>1, <2>1 DEF Canceling, Places, FiledInv
  <2> QED
    BY <1>5, <2>1, <2>2
<1>9. CASE FlushAuction
  <2>1. UNCHANGED <<pc, o, taker>> /\ pc = "done"
    BY <1>9 DEF FlushAuction, callVars
  <2> QED
    BY <1>5, <2>1 DEF Canceling
<1> QED
  BY <1>3, <1>4, <1>6, <1>7, <1>8, <1>9 DEF QuietStep

\* A match of a new order, or a stop that waits: an open order with the limits it
\* came with.
LEMMA StartOrders ==
  ASSUME IInv, ~corrupt, StartStep
  PROVE  /\ UNCHANGED <<book, due>> /\ taker = 0 /\ taker' = 0
         /\ o.order_action = "NEW" /\ o'.order_action = "NEW"
         /\ SameLimits(o', o) /\ o'.side = o.side /\ o'.order_state = "OPEN"
         /\ o'.remain_quantity > 0 /\ o'.order_id = nextId /\ nextId \notin DOMAIN odrMap
         /\ \/ /\ pc' \in {"match", "fok"} /\ UNCHANGED <<odrMap, stopBook>>
               /\ o'.price = IF o.side \in Sides THEN o.price ELSE StopLimit(TradeSide(o), o)
            \/ /\ pc' = "done" /\ o.side \in StopSides /\ o'.price = STOP_PRICE
               /\ DOMAIN odrMap' = DOMAIN odrMap \cup {nextId} /\ odrMap'[nextId] = o'
               /\ \A i \in DOMAIN odrMap : odrMap'[i] = odrMap[i]
               /\ \A s \in Sides : stopBook'[s] = IF s = TradeSide(o)
                                                  THEN stopBook[s] \cup {StopEntry(s, o')}
                                                  ELSE stopBook[s]
<1>1. /\ o \in Order /\ nextId \in Nat /\ nextId \notin DOMAIN odrMap
      /\ taker = 0 /\ o.order_action = "NEW" /\ o.quantity > 0
  <2>1. taker = 0 /\ pc = "new" /\ RejectReason(o) = "NONE"
    BY StartFacts
  <2>2. o \in Order /\ nextId \in Nat /\ nextId \notin DOMAIN odrMap
    BY DEF IInv, TypeOK
  <2>3. o.quantity \in Nat /\ o.quantity # 0
    BY <2>1, <2>2, AcceptFacts, FieldFacts
  <2> QED
    BY <2>1, <2>2, <2>3 DEF IInv, CallInv
<1> DEFINE new == InitNewOrder(o)
<1>2. /\ new \in Order /\ new.order_id = nextId /\ new.remain_quantity > 0
      /\ new.side = o.side /\ new.order_action = o.order_action /\ new.order_state = "OPEN"
      /\ SameLimits(new, o) /\ new.price = o.price
  <2>1. new.price = o.price
    BY <1>1 DEF InitNewOrder, Order
  <2> QED
    BY <1>1, <2>1, InitFacts DEF SameLimits
<1> HIDE DEF new
<1>3. ASSUME NEW p \in Int, o' = [new EXCEPT !.price = p]
      PROVE  /\ SameLimits(o', o) /\ o'.side = o.side /\ o'.order_state = "OPEN"
             /\ o'.remain_quantity > 0 /\ o'.order_id = nextId /\ o'.order_action = "NEW"
             /\ o'.price = p
  BY <1>1, <1>2, <1>3 DEF Order, SameLimits
<1>4. UNCHANGED <<book, taker, due>>
  BY StartFacts
<1>5. CASE o.side \in Sides
  <2>1. o' = new /\ StartMatch(o.side, o') /\ UNCHANGED <<odrMap, stopBook>>
    BY <1>5, StartFacts DEF new, Sides, StopSides
  <2> QED
    BY <1>1, <1>2, <1>4, <1>5, <2>1 DEF StartMatch
<1>6. CASE StopNow(TradeSide(o)) /\ o.side \in StopSides \ {"BUY_SELL_STOP"}
  <2> DEFINE p == StopLimit(TradeSide(o), o)
  <2>1. p \in Int /\ o' = [new EXCEPT !.price = p]
    BY <1>1, <1>6, FieldFacts DEF StopNow, StopLimit, new
  <2>2. pc' \in {"match", "fok"} /\ UNCHANGED <<odrMap, stopBook>>
    BY <1>6 DEF StopNow, StartMatch
  <2>3. o.side \notin Sides
    BY <1>6 DEF Sides, StopSides
  <2> HIDE DEF p
  <2> QED
    BY <1>1, <1>3, <1>4, <2>1, <2>2, <2>3 DEF p
<1>7. CASE Park /\ o.side \in StopSides \ {"BUY_SELL_STOP"}
  <2>1. /\ o' = [new EXCEPT !.price = STOP_PRICE] /\ odrMap' = Put(odrMap, nextId, o')
        /\ pc' = "done"
        /\ stopBook' = [s \in Sides |-> IF s \in ParkedSides(o)
                                        THEN stopBook[s] \cup {StopEntry(s, o')}
                                        ELSE stopBook[s]]
    BY <1>7 DEF Park, new
  <2>2. ParkedSides(o) = {TradeSide(o)}
    BY <1>7 DEF ParkedSides, TradeSide, StopSides
  <2>3. /\ DOMAIN odrMap' = DOMAIN odrMap \cup {nextId} /\ odrMap'[nextId] = o'
        /\ \A i \in DOMAIN odrMap : odrMap'[i] = odrMap[i]
    BY <1>1, <2>1 DEF Put
  <2>4. \A s \in Sides : stopBook'[s] = IF s = TradeSide(o)
                                        THEN stopBook[s] \cup {StopEntry(s, o')}
                                        ELSE stopBook[s]
    BY <2>1, <2>2
  <2>5. o.side \in StopSides
    BY <1>7
  <2> QED
    BY <1>1, <1>3, <1>4, <2>1, <2>3, <2>4, <2>5, SentinelAssumption
<1>8. \/ o.side \in Sides
      \/ StopNow(TradeSide(o)) /\ o.side \in StopSides \ {"BUY_SELL_STOP"}
      \/ Park /\ o.side \in StopSides \ {"BUY_SELL_STOP"}
  BY StartFacts
<1> QED
  BY <1>5, <1>6, <1>7, <1>8

\* A new order is on its way, or waits in the stop book of its side.
LEMMA StartPlaces ==
  ASSUME KInv, ~corrupt, StartStep
  PROVE  Places'
<1>1. Places /\ IInv /\ TypeOK /\ RestingInv /\ StopInv /\ pc = "new" /\ ~Canceling
  BY StartFacts DEF KInv, Places, JInv, IInv, Canceling
<1>2. /\ UNCHANGED <<book, due>> /\ taker' = 0
      /\ o'.order_action = "NEW" /\ SameLimits(o', o) /\ o'.side = o.side
      /\ o'.order_state = "OPEN" /\ o'.remain_quantity > 0 /\ o'.order_id = nextId
      /\ nextId \notin DOMAIN odrMap
  BY <1>1, StartOrders
<1>3. /\ ~Canceling' /\ \A s \in Sides : StopLimit(s, o') > STOP_PRICE + MiniTick
      /\ \A i \in DOMAIN odrMap : i # 0
  BY <1>1, <1>2 DEF Canceling, Places, LimitInv, StopLimit, SameLimits, TypeOK
<1>4. CASE pc' \in {"match", "fok"}
  <2>1. /\ UNCHANGED <<odrMap, stopBook>>
        /\ o'.price = IF o.side \in Sides THEN o.price ELSE StopLimit(TradeSide(o), o)
    BY <1>1, <1>4, StartOrders
  <2>2. Taker' = o' /\ TradeSide(o) \in Sides
    BY <1>2 DEF Taker, TradeSide, Sides
  <2>3. LimitInv'
    BY <1>1, <1>2, <1>3, <1>4, <2>1, <2>2 DEF Places, LimitInv, StopLimit
  <2>4. LiveInv'
    BY <1>1, <1>2, <2>1, <2>2 DEF Places, LiveInv, LiveStates
  <2>5. FiledInv'
    BY <1>1, <1>2, <1>3, <2>1 DEF Places, FiledInv, TradeSide, StopEntry
  <2> QED
    BY <2>3, <2>4, <2>5 DEF Places
<1>5. CASE pc' \notin {"match", "fok"}
  <2>1. /\ pc' = "done" /\ o.side \in StopSides /\ o'.price = STOP_PRICE
        /\ DOMAIN odrMap' = DOMAIN odrMap \cup {nextId} /\ odrMap'[nextId] = o'
        /\ \A i \in DOMAIN odrMap : odrMap'[i] = odrMap[i]
        /\ \A s \in Sides : stopBook'[s] = IF s = TradeSide(o)
                                           THEN stopBook[s] \cup {StopEntry(s, o')}
                                           ELSE stopBook[s]
    BY <1>1, <1>5, StartOrders
  <2>2. \A s \in Sides : \A e \in book[s] \cup stopBook[s] \cup due : e[2] \in DOMAIN odrMap
    BY <1>1 DEF RestingInv, StopInv, Waiting
  <2>3. \A s \in Sides : StopEntry(s, o')[2] = nextId
    BY <1>2 DEF StopEntry
  <2>4. LimitInv'
    BY <1>1, <1>2, <1>3, <2>1, <2>2, <2>3 DEF Places, LimitInv, Sides
  <2>5. LiveInv'
    <3>1. ASSUME NEW s \in Sides, NEW e \in book'[s] \cup stopBook'[s] \cup due'
          PROVE  odrMap'[e[2]].order_state \in LiveStates
      <4>1. CASE e \in book[s] \cup stopBook[s] \cup due
        BY <1>1, <2>1, <2>2, <4>1 DEF Places, LiveInv
      <4>2. CASE e = StopEntry(s, o')
        BY <1>2, <2>1, <2>3, <4>2 DEF LiveStates
      <4> QED
        BY <1>2, <2>1, <3>1, <4>1, <4>2
    <3> QED
      BY <2>1, <3>1 DEF LiveInv
  <2>6. ASSUME NEW i \in DOMAIN odrMap'
        PROVE  LET ord == odrMap'[i]
                   s == TradeSide(ord)
               IN IF ord.order_state \in LiveStates
                  THEN \/ <<ord.price, i>> \in book[s]
                       \/ /\ ord.side \in StopSides /\ ord.price = STOP_PRICE
                          /\ StopEntry(s, ord) \in stopBook'[s] \cup due
                  ELSE /\ ord.order_state \in DoneStates
                       /\ ord.side \in StopSides /\ ord.price # STOP_PRICE
    <3>1. CASE i = nextId
      <4>1. TradeSide(o') = TradeSide(o) /\ TradeSide(o) \in Sides
        BY <1>2 DEF TradeSide, Sides
      <4>2. StopEntry(TradeSide(o'), o') \in stopBook'[TradeSide(o')]
        BY <2>1, <4>1
      <4> QED
        BY <1>2, <2>1, <3>1, <4>2 DEF LiveStates
    <3>2. CASE i # nextId
      <4>1. i \in DOMAIN odrMap /\ odrMap'[i] = odrMap[i] /\ TradeSide(odrMap[i]) \in Sides
        BY <2>1, <3>2 DEF TradeSide, Sides
      <4>2. stopBook[TradeSide(odrMap[i])] \subseteq stopBook'[TradeSide(odrMap[i])]
        BY <2>1, <4>1
      <4> QED
        BY <1>1, <4>1, <4>2 DEF Places, FiledInv
    <3> QED
      BY <3>1, <3>2
  <2>7. FiledInv'
    BY <1>2, <1>3, <2>6 DEF FiledInv, TradeSide, StopEntry
  <2> QED
    BY <2>4, <2>5, <2>7 DEF Places
<1> QED
  BY <1>4, <1>5

\* Where one order of _odr_map may be, when the steps of a match are over.
Placed(i, ord) ==
  IF ord.order_state \in LiveStates
  THEN \/ i = taker /\ pc \in {"match", "fok"}
       \/ <<ord.price, i>> \in book[TradeSide(ord)]
       \/ /\ ord.side \in StopSides /\ ord.price = STOP_PRICE
          /\ StopEntry(TradeSide(ord), ord) \in stopBook[TradeSide(ord)] \cup due
  ELSE /\ ord.order_state \in DoneStates
       /\ \/ ord.side \in StopSides /\ ord.price # STOP_PRICE
          \/ Canceling /\ i = o.order_id

\* FiledInv places every order.
LEMMA FiledPlaced ==
  FiledInv <=> /\ Canceling => /\ o.order_id \in DOMAIN odrMap /\ o.order_id # taker
                               /\ odrMap[o.order_id].order_state \in
                                    {"CANCELED_BY_USER", "CANCELED_BY_AMEND"}
               /\ \A i \in DOMAIN odrMap : Placed(i, odrMap[i])
  BY DEF FiledInv, Placed

\* An order in an entry or in hand is live, a canceled one is not.
LEMMA CanceledApart ==
  ASSUME KInv, ~corrupt, Canceling
  PROVE  /\ o.order_id \in DOMAIN odrMap /\ o.order_id # taker
         /\ odrMap[o.order_id].order_state \in DoneStates
         /\ odrMap[o.order_id].order_state \notin LiveStates
         /\ \A s \in Sides : \A e \in book[s] \cup stopBook[s] \cup due : e[2] # o.order_id
<1>1. /\ o.order_id \in DOMAIN odrMap /\ o.order_id # taker
      /\ odrMap[o.order_id].order_state \in {"CANCELED_BY_USER", "CANCELED_BY_AMEND"}
  BY DEF KInv, FiledInv
<1> QED
  BY <1>1 DEF KInv, LiveInv, LiveStates, DoneStates

\* A fill leaves a live maker in its book; the taker is live until it is filled.
LEMMA FillPlaces ==
  ASSUME KInv, IInv', ~corrupt, MatchTop \/ FokFill
  PROVE  Places' /\ corrupt' = FALSE
<1>1. /\ Places /\ IInv /\ TypeOK /\ CallInv /\ RestingInv /\ StopInv /\ ApartInv /\ FiredInv
      /\ Calls
  BY DEF KInv, Places, JInv, IInv, Calls
<1>2. /\ UNCHANGED <<stopBook, pc, taker, mside, due>> /\ pc \in {"match", "fok"}
  BY DEF MatchTop, FokFill, matchVars, sweepVars
<1>3. PICK e \in OppBook, q \in Nat :
        /\ q <= odrMap[e[2]].remain_quantity /\ q <= Taker.remain_quantity
        /\ Fill(e, q) /\ Filled(e, q)
  BY <1>1, FillCalls
<1>4. /\ e[2] \in DOMAIN odrMap' => e \in OppBook' /\ odrMap'[e[2]].order_state \in LiveStates
      /\ IF Taker'.remain_quantity > 0 THEN Taker'.order_state \in LiveStates
         ELSE Taker'.order_state = "FILLED"
      /\ \A i \in DOMAIN odrMap' : SameLimits(odrMap'[i], odrMap[i])
      /\ SameLimits(o', o) /\ (taker # 0 => o' = o)
  BY <1>1, <1>2, <1>3, FillStates
<1>5. /\ DOMAIN odrMap' \subseteq DOMAIN odrMap /\ DOMAIN odrMap \ {e[2]} \subseteq DOMAIN odrMap'
      /\ \A i \in DOMAIN odrMap' : i # e[2] /\ i # taker => odrMap'[i] = odrMap[i]
      /\ \A i \in DOMAIN odrMap' : Same(odrMap'[i], odrMap[i])
      /\ Same(o', o) /\ Same(Taker', Taker) /\ Taker'.price = Taker.price
      /\ \A s \in Sides : book'[s] \subseteq book[s]
      /\ \A s \in Sides : \A f \in book[s] : f # e => f \in book'[s]
      /\ \A s \in Sides : e \in book'[s] => e[2] \in DOMAIN odrMap'
      /\ e[2] \in DOMAIN odrMap' => odrMap'[e[2]].price = odrMap[e[2]].price
      /\ corrupt' = FALSE
  BY <1>3 DEF Filled
<1>6. /\ Opposite(mside) \in Sides /\ e \in book[Opposite(mside)] /\ e = <<e[1], e[2]>>
      /\ e[2] \in DOMAIN odrMap /\ odrMap[e[2]].price = e[1]
      /\ TradeSide(odrMap[e[2]]) = Opposite(mside) /\ e[2] # taker
  <2>1. Opposite(mside) \in Sides
    BY DEF Opposite, Sides
  <2> QED
    BY <1>1, <1>2, <2>1, EntryFacts DEF OppBook, RestingInv, ApartInv
<1>7. \A s \in Sides : \A f \in stopBook[s] \cup due :
        /\ f[2] \in DOMAIN odrMap' /\ odrMap'[f[2]] = odrMap[f[2]]
  BY <1>1, <1>2, <1>5, <1>6 DEF StopInv, Waiting, ApartInv
<1>8. \A s \in Sides : \A f \in book[s] : f # e =>
        /\ f[2] # e[2] /\ f[2] \in DOMAIN odrMap' /\ odrMap'[f[2]] = odrMap[f[2]]
  BY <1>1, <1>2, <1>5, <1>6, EntryFacts DEF ApartInv
<1>9. LimitInv'
  <2>1. \A s \in Sides : StopLimit(s, o') > STOP_PRICE + MiniTick
    BY <1>1, <1>4 DEF Places, LimitInv, StopLimit, SameLimits
  <2>2. \A i \in DOMAIN odrMap' : \A s \in Sides :
          StopLimit(s, odrMap'[i]) > STOP_PRICE + MiniTick
    BY <1>1, <1>4, <1>5 DEF Places, LimitInv, StopLimit, SameLimits
  <2>3. (pc' = "new" \/ o'.order_action # "NEW") /\ o'.side \in Sides =>
          o'.price > STOP_PRICE + MiniTick
    BY <1>1, <1>2, <1>4, <1>5 DEF Places, LimitInv, CallInv, Same
  <2>4. Taker'.price > STOP_PRICE + MiniTick
    BY <1>1, <1>2, <1>5 DEF Places, LimitInv
  <2>5. \A s \in Sides : \A f \in stopBook[s] \cup due : odrMap'[f[2]].price = STOP_PRICE
    BY <1>1, <1>7 DEF Places, LimitInv
  <2> QED
    BY <1>1, <1>2, <1>5, <2>1, <2>2, <2>3, <2>4, <2>5 DEF Places, LimitInv, Sides
<1>10. LiveInv'
  <2>1. \A s \in Sides : \A f \in stopBook[s] \cup due : odrMap'[f[2]].order_state \in LiveStates
    BY <1>1, <1>7 DEF Places, LiveInv
  <2>2. \A s \in Sides : \A f \in book'[s] : odrMap'[f[2]].order_state \in LiveStates
    BY <1>1, <1>4, <1>5, <1>8 DEF Places, LiveInv
  <2> QED
    BY <1>2, <1>4, <2>1, <2>2 DEF LiveInv
<1>11. FiledInv'
  <2>1. o'.order_id = o.order_id /\ (Canceling' <=> Canceling)
    BY <1>2, <1>5 DEF Canceling, Same
  <2>2. ASSUME Canceling
        PROVE  o.order_id \in DOMAIN odrMap' /\ odrMap'[o.order_id] = odrMap[o.order_id]
    BY <1>5, <1>6, <2>2, CanceledApart
  <2>3. ASSUME NEW i \in DOMAIN odrMap' PROVE Placed(i, odrMap[i])'
    <3>1. CASE i = e[2]
      <4>1. /\ odrMap'[i].price = e[1] /\ TradeSide(odrMap'[i]) = Opposite(mside)
            /\ odrMap'[i].order_state \in LiveStates
        BY <1>4, <1>5, <1>6, <3>1 DEF Same, TradeSide
      <4>2. <<odrMap'[i].price, i>> \in book'[TradeSide(odrMap'[i])]
        BY <1>2, <1>4, <1>6, <3>1, <4>1 DEF OppBook
      <4> QED
        BY <4>1, <4>2 DEF Placed, TradeSide
    <3>2. CASE i = taker
      <4>1. taker # 0
        BY <1>1, <1>5, <3>2 DEF TypeOK
      <4>2. odrMap'[i] = Taker' /\ odrMap[i] = Taker
        BY <1>2, <3>2, <4>1 DEF Taker
      <4>3. odrMap'[i].side \in StopSides /\ odrMap'[i].price # STOP_PRICE
        <5>1. Taker.side \in StopSides /\ Taker.price > STOP_PRICE + MiniTick
          BY <1>1, <1>2, <4>1 DEF FiredInv, Places, LimitInv
        <5> QED
          BY <1>5, <4>2, <5>1, SentinelAssumption, TickAssumption DEF Same
      <4> QED
        BY <1>2, <1>4, <3>2, <4>2, <4>3 DEF Placed, DoneStates, LiveStates
    <3>3. CASE i # e[2] /\ i # taker
      <4>1. odrMap'[i] = odrMap[i] /\ Placed(i, odrMap[i]) /\ TradeSide(odrMap[i]) \in Sides
        BY <1>1, <1>5, <3>3, FiledPlaced DEF Places, TradeSide, Sides
      <4>2. <<odrMap[i].price, i>> # e
        BY <3>3
      <4> QED
        BY <1>2, <1>5, <2>1, <3>3, <4>1, <4>2 DEF Placed, TradeSide, StopEntry
    <3> QED
      BY <3>1, <3>2, <3>3
  <2>4. FiledInv' <=>
          /\ Canceling' => /\ o'.order_id \in DOMAIN odrMap' /\ o'.order_id # taker'
                           /\ odrMap'[o'.order_id].order_state \in
                                {"CANCELED_BY_USER", "CANCELED_BY_AMEND"}
          /\ \A i \in DOMAIN odrMap' : Placed(i, odrMap[i])'
    BY DEF FiledInv, Placed
  <2> QED
    BY <1>1, <1>2, <2>1, <2>2, <2>3, <2>4 DEF Places, FiledInv
<1> QED
  BY <1>5, <1>9, <1>10, <1>11 DEF Places

\* A taker that is canceled is no longer live; a stop keeps its limit as its price.
LEMMA KillPlaces ==
  ASSUME KInv, ~corrupt, KillStep
  PROVE  Places'
<1>1. /\ Places /\ IInv /\ TypeOK /\ CallInv /\ RestingInv /\ StopInv /\ ApartInv /\ FiredInv
  BY DEF KInv, Places, JInv, IInv
<1>2. /\ UNCHANGED <<book, stopBook, taker, due>>
      /\ pc \in {"match", "fok"} /\ pc' = "matched"
      /\ DOMAIN odrMap' = DOMAIN odrMap
      /\ \A i \in DOMAIN odrMap : i # taker => odrMap'[i] = odrMap[i]
      /\ taker # 0 => /\ Same(odrMap'[taker], odrMap[taker])
                      /\ SameLimits(odrMap'[taker], odrMap[taker])
                      /\ odrMap'[taker].price = odrMap[taker].price
                      /\ odrMap'[taker].order_state \in DoneStates
      /\ Same(o', o) /\ SameLimits(o', o) /\ (taker # 0 => o' = o)
  BY <1>1, KillFacts
<1>3. \A s \in Sides : \A f \in book[s] \cup stopBook[s] \cup due :
        f[2] # taker /\ f[2] \in DOMAIN odrMap /\ odrMap'[f[2]] = odrMap[f[2]]
  BY <1>1, <1>2 DEF RestingInv, StopInv, Waiting, ApartInv
<1>4. \A i \in DOMAIN odrMap : i # 0
  BY <1>1 DEF TypeOK
<1>5. LimitInv'
  <2>1. \A s \in Sides : StopLimit(s, o') > STOP_PRICE + MiniTick
    BY <1>1, <1>2 DEF Places, LimitInv, StopLimit, SameLimits
  <2>2. \A i \in DOMAIN odrMap' : SameLimits(odrMap'[i], odrMap[i])
    BY <1>2, <1>4 DEF SameLimits
  <2>3. \A i \in DOMAIN odrMap' : \A s \in Sides :
          StopLimit(s, odrMap'[i]) > STOP_PRICE + MiniTick
    BY <1>1, <1>2, <2>2 DEF Places, LimitInv, StopLimit, SameLimits
  <2>4. o'.order_action # "NEW" /\ o'.side \in Sides => o'.price > STOP_PRICE + MiniTick
    BY <1>1, <1>2 DEF Places, LimitInv, CallInv, Same
  <2>5. \A s \in Sides : \A f \in stopBook[s] \cup due : odrMap'[f[2]].price = STOP_PRICE
    BY <1>1, <1>3 DEF Places, LimitInv
  <2>6. \A e \in book["SELL"] : e[1] > STOP_PRICE + MiniTick
    BY <1>1 DEF Places, LimitInv
  <2>7. \A e \in book["BUY"] : e[1] > STOP_PRICE
    BY <1>1 DEF Places, LimitInv
  <2> QED
    BY <1>2, <2>1, <2>3, <2>4, <2>5, <2>6, <2>7 DEF LimitInv
<1>6. LiveInv'
  BY <1>1, <1>2, <1>3 DEF Places, LiveInv
<1>7. FiledInv'
  <2>1. o'.order_id = o.order_id /\ (Canceling' <=> Canceling)
    BY <1>2 DEF Canceling, Same
  <2>2. ASSUME Canceling
        PROVE  /\ o.order_id \in DOMAIN odrMap' /\ odrMap'[o.order_id] = odrMap[o.order_id]
               /\ o.order_id # taker
    BY <1>2, <2>2, CanceledApart
  <2>3. ASSUME NEW i \in DOMAIN odrMap' PROVE Placed(i, odrMap[i])'
    <3>1. CASE i = taker
      <4>1. taker # 0 /\ odrMap[i] = Taker
        BY <1>2, <1>4, <3>1 DEF Taker
      <4>2. Taker.side \in StopSides /\ Taker.price > STOP_PRICE + MiniTick
        BY <1>1, <1>2, <4>1 DEF FiredInv, Places, LimitInv
      <4>3. odrMap'[i].side \in StopSides /\ odrMap'[i].price # STOP_PRICE
        BY <1>2, <3>1, <4>1, <4>2, SentinelAssumption, TickAssumption DEF Same
      <4> QED
        BY <1>2, <3>1, <4>1, <4>3 DEF Placed, DoneStates, LiveStates
    <3>2. CASE i # taker
      <4>1. odrMap'[i] = odrMap[i] /\ Placed(i, odrMap[i])
        BY <1>1, <1>2, <3>2, FiledPlaced DEF Places
      <4> QED
        BY <1>2, <2>1, <3>2, <4>1 DEF Placed, TradeSide, StopEntry
    <3> QED
      BY <3>1, <3>2
  <2>4. FiledInv' <=>
          /\ Canceling' => /\ o'.order_id \in DOMAIN odrMap' /\ o'.order_id # taker'
                           /\ odrMap'[o'.order_id].order_state \in
                                {"CANCELED_BY_USER", "CANCELED_BY_AMEND"}
          /\ \A i \in DOMAIN odrMap' : Placed(i, odrMap[i])'
    BY DEF FiledInv, Placed
  <2> QED
    BY <1>1, <1>2, <2>1, <2>2, <2>3, <2>4 DEF Places, FiledInv
<1> QED
  BY <1>5, <1>6, <1>7 DEF Places

\* What rests is live and in the book of its side, above the price of a parked stop.
LEMMA RestPlaces ==
  ASSUME KInv, IInv', ~corrupt, RestStep
  PROVE  Places'
<1> DEFINE id == Taker.order_id
<1>1. /\ Places /\ IInv /\ TypeOK /\ CallInv /\ RestingInv /\ StopInv /\ ApartInv /\ FiredInv
  BY DEF KInv, Places, JInv, IInv
<1>2. /\ UNCHANGED <<stopBook, taker, mside, due>>
      /\ pc = "match" /\ pc' = "matched" /\ Taker.remain_quantity > 0
      /\ id \in Nat /\ (taker # 0 => id = taker) /\ (taker = 0 => id \notin DOMAIN odrMap)
      /\ DOMAIN odrMap' = DOMAIN odrMap \cup {id}
      /\ \A i \in DOMAIN odrMap : i # id => odrMap'[i] = odrMap[i]
      /\ Same(odrMap'[id], Taker) /\ SameLimits(odrMap'[id], Taker)
      /\ odrMap'[id].order_state = Taker.order_state
      /\ Same(o', o) /\ SameLimits(o', o) /\ (taker # 0 => o' = o)
  BY <1>1, RestFacts
<1>3. PICK p \in Int :
        /\ odrMap'[id].price = p
        /\ book' = [book EXCEPT ![mside] = @ \cup {<<p, id>>}]
        /\ \/ p = Taker.price
           \/ \E e \in book[mside] : p = e[1]
           \/ \E e \in OppBook : p = IF mside = "BUY" THEN e[1] - MiniTick ELSE e[1] + MiniTick
  BY <1>1, RestFacts
<1>4. Taker.order_state \in LiveStates /\ TradeSide(Taker) = mside /\ mside \in Sides
  BY <1>1, <1>2 DEF Places, LiveInv, CallInv, TypeOK
<1>5. Taker.price > STOP_PRICE + MiniTick /\ \A s \in Sides : StopLimit(s, Taker) > STOP_PRICE + MiniTick
  BY <1>1, <1>2 DEF Places, LimitInv, Taker, CallInv
<1> HIDE DEF id
<1>6. \A s \in Sides : book'[s] = IF s = mside THEN book[s] \cup {<<p, id>>} ELSE book[s]
  BY <1>1, <1>3 DEF TypeOK
<1>7. \A s \in Sides : \A f \in book[s] \cup stopBook[s] \cup due :
        f[2] # id /\ f[2] \in DOMAIN odrMap /\ odrMap'[f[2]] = odrMap[f[2]]
  BY <1>1, <1>2 DEF RestingInv, StopInv, Waiting, ApartInv
<1>8. LimitInv'
  <2>1. \A s \in Sides : StopLimit(s, o') > STOP_PRICE + MiniTick
    BY <1>1, <1>2 DEF Places, LimitInv, StopLimit, SameLimits
  <2>2. \A i \in DOMAIN odrMap' : \A s \in Sides :
          StopLimit(s, odrMap'[i]) > STOP_PRICE + MiniTick
    <3>1. \A i \in DOMAIN odrMap : i # id => \A s \in Sides :
            StopLimit(s, odrMap'[i]) > STOP_PRICE + MiniTick
      BY <1>1, <1>2 DEF Places, LimitInv
    <3>2. \A s \in Sides : StopLimit(s, odrMap'[id]) > STOP_PRICE + MiniTick
      BY <1>2, <1>5 DEF StopLimit, SameLimits
    <3> QED
      BY <1>2, <3>1, <3>2
  <2>3. o'.order_action # "NEW" /\ o'.side \in Sides => o'.price > STOP_PRICE + MiniTick
    BY <1>1, <1>2 DEF Places, LimitInv, CallInv, Same
  <2>4. \A s \in Sides : \A f \in stopBook[s] \cup due : odrMap'[f[2]].price = STOP_PRICE
    BY <1>1, <1>7 DEF Places, LimitInv
  <2>5. \A s \in Sides : \A e \in book[s] : e[1] \in Int
    BY <1>1 DEF TypeOK, Entries
  <2>6. p > STOP_PRICE /\ (mside = "SELL" => p > STOP_PRICE + MiniTick)
    <3>1. CASE p = Taker.price
      BY <1>5, <3>1, SentinelAssumption, TickAssumption
    <3>2. CASE \E e \in book[mside] : p = e[1]
      <4>1. PICK e \in book[mside] : p = e[1]
        BY <3>2
      <4>2. e[1] > STOP_PRICE /\ e[1] \in Int /\ (mside = "SELL" => e[1] > STOP_PRICE + MiniTick)
        <5>1. e[1] \in Int
          BY <1>4, <2>5
        <5> QED
          BY <1>1, <1>4, <5>1, SentinelAssumption, TickAssumption DEF Places, LimitInv, Sides
      <4> QED
        BY <4>1, <4>2
    <3>3. ASSUME NEW e \in OppBook,
                 p = IF mside = "BUY" THEN e[1] - MiniTick ELSE e[1] + MiniTick
          PROVE  p > STOP_PRICE /\ (mside = "SELL" => p > STOP_PRICE + MiniTick)
      <4>1. CASE mside = "BUY"
        <5>1. e[1] > STOP_PRICE + MiniTick /\ e[1] \in Int /\ p = e[1] - MiniTick
          BY <1>1, <2>5, <3>3, <4>1 DEF OppBook, Opposite, Sides, Places, LimitInv
        <5> QED
          BY <4>1, <5>1, SentinelAssumption, TickAssumption
      <4>2. CASE mside = "SELL"
        <5>1. e[1] > STOP_PRICE /\ e[1] \in Int /\ p = e[1] + MiniTick
          BY <1>1, <2>5, <3>3, <4>2 DEF OppBook, Opposite, Sides, Places, LimitInv
        <5> QED
          BY <4>2, <5>1, SentinelAssumption, TickAssumption
      <4> QED
        BY <1>4, <4>1, <4>2 DEF Sides
    <3> QED
      BY <1>3, <3>1, <3>2, <3>3
  <2>7. \A e \in book'["SELL"] : e[1] > STOP_PRICE + MiniTick
    BY <1>1, <1>6, <2>6 DEF Places, LimitInv, Sides
  <2>8. \A e \in book'["BUY"] : e[1] > STOP_PRICE
    BY <1>1, <1>6, <2>6 DEF Places, LimitInv, Sides
  <2> QED
    BY <1>2, <2>1, <2>2, <2>3, <2>4, <2>7, <2>8 DEF LimitInv
<1>9. LiveInv'
  <2>1. \A s \in Sides : \A f \in book[s] \cup stopBook[s] \cup due :
          odrMap'[f[2]].order_state \in LiveStates
    BY <1>1, <1>7 DEF Places, LiveInv
  <2>2. odrMap'[id].order_state \in LiveStates
    BY <1>2, <1>4
  <2>3. ASSUME NEW s \in Sides, NEW f \in book'[s] \cup stopBook[s] \cup due
        PROVE  odrMap'[f[2]].order_state \in LiveStates
    <3>1. f \in book[s] \cup stopBook[s] \cup due \/ f = <<p, id>>
      BY <1>6
    <3>2. f = <<p, id>> => f[2] = id
      OBVIOUS
    <3> QED
      BY <2>1, <2>2, <3>1, <3>2
  <2> QED
    BY <1>2, <2>3 DEF LiveInv
<1>10. FiledInv'
  <2>1. o'.order_id = o.order_id /\ (Canceling' <=> Canceling)
    BY <1>2 DEF Canceling, Same
  <2>2. ASSUME Canceling
        PROVE  /\ o.order_id \in DOMAIN odrMap' /\ odrMap'[o.order_id] = odrMap[o.order_id]
               /\ o.order_id # taker
    <3>1. taker # 0
      BY <1>1, <1>2, <2>2 DEF CallInv, Canceling
    <3> QED
      BY <1>2, <2>2, <3>1, CanceledApart
  <2>3. ASSUME NEW i \in DOMAIN odrMap' PROVE Placed(i, odrMap[i])'
    <3>1. CASE i = id
      <4>1. TradeSide(odrMap'[i]) = mside
        BY <1>2, <1>4, <3>1 DEF Same, TradeSide
      <4>2. <<odrMap'[i].price, i>> \in book'[mside]
        BY <1>3, <1>4, <1>6, <3>1
      <4>3. odrMap'[i].order_state \in LiveStates
        BY <1>2, <1>4, <3>1
      <4> QED
        BY <4>1, <4>2, <4>3 DEF Placed, TradeSide
    <3>2. CASE i # id
      <4>1. /\ odrMap'[i] = odrMap[i] /\ Placed(i, odrMap[i]) /\ TradeSide(odrMap[i]) \in Sides
            /\ i # taker
        BY <1>1, <1>2, <3>2, FiledPlaced DEF Places, TradeSide, Sides, TypeOK
      <4>2. book[TradeSide(odrMap[i])] \subseteq book'[TradeSide(odrMap[i])]
        BY <1>6, <4>1
      <4> QED
        BY <1>2, <2>1, <3>2, <4>1, <4>2 DEF Placed, TradeSide, StopEntry
    <3> QED
      BY <3>1, <3>2
  <2>4. FiledInv' <=>
          /\ Canceling' => /\ o'.order_id \in DOMAIN odrMap' /\ o'.order_id # taker'
                           /\ odrMap'[o'.order_id].order_state \in
                                {"CANCELED_BY_USER", "CANCELED_BY_AMEND"}
          /\ \A i \in DOMAIN odrMap' : Placed(i, odrMap[i])'
    BY DEF FiledInv, Placed
  <2> QED
    BY <1>1, <1>2, <2>1, <2>2, <2>3, <2>4 DEF Places, FiledInv
<1> QED
  BY <1>8, <1>9, <1>10 DEF Places

\* A record of fok_match moves no order.
LEMMA CollectPlaces ==
  ASSUME KInv, ~corrupt, FokCollect
  PROVE  Places'
<1>1. UNCHANGED <<odrMap, book, stopBook, pc, o, taker, due>>
  BY DEF FokCollect, storeVars, sweepVars
<1>2. Taker' = Taker /\ (Canceling' <=> Canceling)
  BY <1>1 DEF Taker, Canceling
<1>3. LimitInv' /\ LiveInv'
  BY <1>1, <1>2 DEF KInv, LimitInv, LiveInv, StopLimit
<1>4. FiledInv'
  BY <1>1, <1>2 DEF KInv, FiledInv, TradeSide, StopEntry
<1> QED
  BY <1>3, <1>4 DEF Places

\* A stop that is due waits in odr_list instead of its book.
LEMMA SweepPlaces ==
  ASSUME KInv, ~corrupt, SweepStops
  PROVE  Places'
<1>1. /\ UNCHANGED <<odrMap, book, o, taker, sweep>> /\ pc = "sweep" /\ pc' = "fire"
      /\ due = {} /\ due' \subseteq stopBook[sweep] /\ sweep \in Sides
      /\ \A s \in Sides : stopBook'[s] = IF s = sweep THEN stopBook[s] \ due' ELSE stopBook[s]
  BY SweepFacts DEF KInv, JInv, IInv, TypeOK
<1>2. /\ \A s \in Sides : stopBook'[s] \cup due' \subseteq stopBook[s] \cup stopBook[sweep]
      /\ \A s \in Sides : stopBook[s] \subseteq stopBook'[s] \cup due'
  BY <1>1
<1>3. LimitInv'
  BY <1>1, <1>2 DEF KInv, LimitInv, StopLimit
<1>4. LiveInv'
  BY <1>1, <1>2 DEF KInv, LiveInv
<1>5. Canceling' <=> Canceling
  BY <1>1 DEF Canceling
<1>6. \A i \in DOMAIN odrMap : TradeSide(odrMap[i]) \in Sides
  BY DEF TradeSide, Sides
<1>7. ASSUME NEW i \in DOMAIN odrMap' PROVE Placed(i, odrMap[i])'
  <2>1. Placed(i, odrMap[i])
    BY <1>1, FiledPlaced DEF KInv
  <2> QED
    BY <1>1, <1>2, <1>5, <1>6, <2>1 DEF Placed, TradeSide, StopEntry
<1>8. FiledInv' <=>
        /\ Canceling' => /\ o'.order_id \in DOMAIN odrMap' /\ o'.order_id # taker'
                         /\ odrMap'[o'.order_id].order_state \in
                              {"CANCELED_BY_USER", "CANCELED_BY_AMEND"}
        /\ \A i \in DOMAIN odrMap' : Placed(i, odrMap[i])'
  BY DEF FiledInv, Placed
<1>9. FiledInv'
  BY <1>1, <1>5, <1>7, <1>8 DEF KInv, FiledInv
<1> QED
  BY <1>3, <1>4, <1>9 DEF Places

\* A stop that fires is live; it gets its limit as its price.
LEMMA FirePlaces ==
  ASSUME KInv, ~corrupt, FireStop
  PROVE  Places'
<1>1. /\ Places /\ IInv /\ TypeOK /\ CallInv /\ RestingInv /\ StopInv /\ ApartInv
  BY DEF KInv, Places, JInv, IInv
<1>2. PICK e \in due :
        /\ UNCHANGED <<book, stopBook, o, sweep>> /\ pc = "fire"
        /\ Waiting(sweep, e) /\ sweep \in Sides /\ e[2] \in Nat /\ e[2] > 0
        /\ taker' = e[2] /\ due' = due \ {e} /\ pc' \in {"match", "fok"}
        /\ DOMAIN odrMap' = DOMAIN odrMap
        /\ \A i \in DOMAIN odrMap : i # e[2] => odrMap'[i] = odrMap[i]
        /\ Taker' = odrMap'[e[2]]
        /\ Same(odrMap'[e[2]], odrMap[e[2]]) /\ SameLimits(odrMap'[e[2]], odrMap[e[2]])
        /\ odrMap'[e[2]].price = StopLimit(sweep, odrMap[e[2]])
        /\ odrMap'[e[2]].remain_quantity = odrMap[e[2]].remain_quantity
        /\ odrMap'[e[2]].order_state = odrMap[e[2]].order_state
  BY <1>1, FireFacts
<1>3. /\ e[2] \in DOMAIN odrMap /\ e = StopEntry(sweep, odrMap[e[2]])
      /\ odrMap[e[2]].remain_quantity > 0 /\ odrMap[e[2]].order_state \in LiveStates
  BY <1>1, <1>2 DEF Waiting, Places, LiveInv
<1>4. \A s \in Sides : \A f \in stopBook[s] \cup due' : f[2] # e[2] /\ f[2] \in DOMAIN odrMap
  <2>1. \A s \in Sides : \A f \in stopBook[s] : Waiting(s, f)
    BY <1>1 DEF StopInv
  <2>2. \A f \in due : Waiting(sweep, f) /\ f \notin stopBook[sweep]
    BY <1>1 DEF StopInv
  <2>3. \A f \in due' : f[2] # e[2]
    BY <1>2, <1>3, <2>2 DEF Waiting
  <2>4. ASSUME NEW s \in Sides, NEW f \in stopBook[s] PROVE f[2] # e[2]
    <3>1. SUFFICES ASSUME f[2] = e[2] PROVE FALSE
      OBVIOUS
    <3>2. s = sweep
      BY <1>2, <2>1, <3>1 DEF Waiting
    <3> QED
      BY <1>3, <2>1, <2>2, <3>1, <3>2 DEF Waiting
  <2> QED
    BY <1>2, <2>1, <2>2, <2>3, <2>4 DEF Waiting
<1>5. \A s \in Sides : \A f \in book[s] : f[2] # e[2] /\ f[2] \in DOMAIN odrMap
  BY <1>1, <1>2 DEF RestingInv, ApartInv
<1>6. LimitInv'
  <2>1. \A i \in DOMAIN odrMap' : \A s \in Sides :
          StopLimit(s, odrMap'[i]) > STOP_PRICE + MiniTick
    <3>1. \A i \in DOMAIN odrMap' : SameLimits(odrMap'[i], odrMap[i])
      BY <1>2 DEF SameLimits
    <3> QED
      BY <1>1, <1>2, <3>1 DEF Places, LimitInv, StopLimit, SameLimits
  <2>2. Taker'.price > STOP_PRICE + MiniTick
    BY <1>1, <1>2, <1>3 DEF Places, LimitInv
  <2>3. \A s \in Sides : \A f \in stopBook[s] \cup due' : odrMap'[f[2]].price = STOP_PRICE
    BY <1>1, <1>2, <1>4 DEF Places, LimitInv
  <2>4. \A s \in Sides : StopLimit(s, o') > STOP_PRICE + MiniTick
    BY <1>1, <1>2 DEF Places, LimitInv, StopLimit
  <2> QED
    BY <1>1, <1>2, <2>1, <2>2, <2>3, <2>4 DEF Places, LimitInv
<1>7. LiveInv'
  <2>1. \A s \in Sides : \A f \in book'[s] \cup stopBook'[s] \cup due' :
          odrMap'[f[2]].order_state \in LiveStates
    BY <1>1, <1>2, <1>4, <1>5 DEF Places, LiveInv
  <2> QED
    BY <1>2, <1>3, <2>1 DEF LiveInv
<1>8. FiledInv'
  <2>1. Canceling' <=> Canceling
    BY <1>2 DEF Canceling
  <2>2. ASSUME Canceling
        PROVE  /\ o.order_id \in DOMAIN odrMap' /\ odrMap'[o.order_id] = odrMap[o.order_id]
               /\ o.order_id # e[2]
    BY <1>2, <2>2, CanceledApart
  <2>3. ASSUME NEW i \in DOMAIN odrMap' PROVE Placed(i, odrMap[i])'
    <3>1. CASE i = e[2]
      BY <1>2, <1>3, <3>1 DEF Placed
    <3>2. CASE i # e[2]
      <4>1. /\ odrMap'[i] = odrMap[i] /\ Placed(i, odrMap[i])
        BY <1>1, <1>2, <3>2, FiledPlaced DEF Places
      <4>2. ASSUME odrMap[i].side \in StopSides,
                   StopEntry(TradeSide(odrMap[i]), odrMap[i]) \in
                     stopBook[TradeSide(odrMap[i])] \cup due
            PROVE  StopEntry(TradeSide(odrMap[i]), odrMap[i]) \in
                     stopBook[TradeSide(odrMap[i])] \cup due'
        <5>1. StopEntry(TradeSide(odrMap[i]), odrMap[i])[2] = i
          BY <1>1, <1>2 DEF TypeOK, StopEntry
        <5> QED
          BY <1>2, <3>2, <4>2, <5>1
      <4> QED
        BY <1>2, <2>1, <3>2, <4>1, <4>2 DEF Placed, TradeSide, StopEntry
    <3> QED
      BY <3>1, <3>2
  <2>4. FiledInv' <=>
          /\ Canceling' => /\ o'.order_id \in DOMAIN odrMap' /\ o'.order_id # taker'
                           /\ odrMap'[o'.order_id].order_state \in
                                {"CANCELED_BY_USER", "CANCELED_BY_AMEND"}
          /\ \A i \in DOMAIN odrMap' : Placed(i, odrMap[i])'
    BY DEF FiledInv, Placed
  <2> QED
    BY <1>1, <1>2, <2>1, <2>2, <2>3, <2>4 DEF Places, FiledInv
<1> QED
  BY <1>6, <1>7, <1>8 DEF Places

\* The fields that say where an order is filed.
SameEntry(a, b) ==
  /\ a.order_id = b.order_id /\ a.side = b.side /\ a.price = b.price
  /\ a.buy_stop_trigger_price = b.buy_stop_trigger_price
  /\ a.sell_stop_trigger_price = b.sell_stop_trigger_price
  /\ SameLimits(a, b)

\* handle_cancel marks its order and takes its entry, and no other, out.
LEMMA CancelFacts ==
  ASSUME KInv, ~corrupt, CancelParked \/ CancelResting
  PROVE  LET id == o.order_id
             ori == odrMap[id]
             s == TradeSide(ori)
         IN /\ UNCHANGED <<o, taker, due>> /\ taker = 0 /\ due = {} /\ o.order_action # "NEW"
            /\ pc = "cancel" /\ pc' \in {"erase", "sweep"}
            /\ id \in DOMAIN odrMap /\ s \in Sides /\ DOMAIN odrMap' = DOMAIN odrMap
            /\ \A i \in DOMAIN odrMap : i # id => odrMap'[i] = odrMap[i]
            /\ SameEntry(odrMap'[id], ori)
            /\ odrMap'[id].order_state \in {"CANCELED_BY_USER", "CANCELED_BY_AMEND"}
            /\ \/ /\ IsParked(ori) /\ book' = book
                  /\ \A t \in Sides : stopBook'[t] = IF t = s THEN stopBook[t] \ {StopEntry(s, ori)}
                                                     ELSE stopBook[t]
                  /\ corrupt' = ~HasLevel(stopBook[s], StopEntry(s, ori)[1])
               \/ /\ ~IsParked(ori) /\ stopBook' = stopBook
                  /\ \A t \in Sides : book'[t] = IF t = s THEN book[t] \ {<<ori.price, id>>}
                                                 ELSE book[t]
                  /\ corrupt' = ~HasLevel(book[s], ori.price)
<1> DEFINE id == o.order_id
           ori == odrMap[id]
           s == TradeSide(ori)
           st == IF o.order_action = "CANCEL" THEN "CANCELED_BY_USER" ELSE "CANCELED_BY_AMEND"
           ord == [ori EXCEPT !.order_state = st]
<1>1. TypeOK /\ CallInv /\ FiredInv
  BY DEF KInv, JInv, IInv
<1>2. /\ UNCHANGED <<o, taker, due>> /\ pc = "cancel" /\ pc' \in {"erase", "sweep"}
      /\ id \in DOMAIN odrMap /\ odrMap' = [odrMap EXCEPT ![id] = ord]
  BY DEF CancelParked, CancelResting, CancelReport, matchVars, sweepVars
<1>3. taker = 0 /\ due = {} /\ o.order_action # "NEW"
  BY <1>1, <1>2 DEF CallInv, FiredInv
<1>4. /\ ori \in Order /\ ori.order_id = id /\ ori.side # "BUY_SELL_STOP"
      /\ ori.side \in Sides \cup StopSides /\ s \in Sides
  <2>1. ori \in Order /\ ori.order_id = id /\ ori.side # "BUY_SELL_STOP"
    BY <1>1, <1>2 DEF TypeOK, CallInv
  <2>2. ori.side \in Sides \cup StopSides
    BY <2>1 DEF Order
  <2> QED
    BY <2>1, <2>2 DEF TradeSide, Sides
<1>5. SameEntry(ord, ori) /\ ord.order_state \in {"CANCELED_BY_USER", "CANCELED_BY_AMEND"}
  BY <1>4 DEF Order, SameEntry, SameLimits
<1> HIDE DEF ord
<1>6. /\ DOMAIN odrMap' = DOMAIN odrMap /\ odrMap'[id] = ord
      /\ \A i \in DOMAIN odrMap : i # id => odrMap'[i] = odrMap[i]
  BY <1>1, <1>2 DEF TypeOK
<1>7. CASE CancelParked
  <2>1. /\ IsParked(ori) /\ stopBook' = Unparked(ori) /\ UNCHANGED book
        /\ corrupt' = \E t \in ParkedSides(ori) : ~HasLevel(stopBook[t], StopEntry(t, ori)[1])
    BY <1>7 DEF CancelParked
  <2>2. ParkedSides(ori) = {s}
    BY <1>4, <2>1 DEF IsParked, ParkedSides, TradeSide, StopSides
  <2>3. \A t \in Sides : stopBook'[t] = IF t = s THEN stopBook[t] \ {StopEntry(s, ori)}
                                        ELSE stopBook[t]
    BY <2>1, <2>2 DEF Unparked
  <2>4. corrupt' = ~HasLevel(stopBook[s], StopEntry(s, ori)[1])
    BY <2>1, <2>2
  <2> QED
    BY <1>2, <1>3, <1>4, <1>5, <1>6, <2>1, <2>3, <2>4
<1>8. CASE CancelResting
  <2>1. RestingSide(ori) = s
    BY <1>4 DEF RestingSide, TradeSide
  <2>2. /\ ~IsParked(ori) /\ UNCHANGED stopBook
        /\ book' = [book EXCEPT ![s] = @ \ {<<ori.price, id>>}]
        /\ corrupt' = ~HasLevel(book[s], ori.price)
    BY <1>4, <1>8, <2>1 DEF CancelResting
  <2>3. \A t \in Sides : book'[t] = IF t = s THEN book[t] \ {<<ori.price, id>>} ELSE book[t]
    BY <1>1, <1>4, <2>2 DEF TypeOK
  <2> QED
    BY <1>2, <1>3, <1>4, <1>5, <1>6, <2>2, <2>3
<1> QED
  BY <1>7, <1>8

\* The canceled order is in no book any more.
LEMMA CancelPlaces ==
  ASSUME KInv, ~corrupt, CancelParked \/ CancelResting
  PROVE  Places'
<1> DEFINE id == o.order_id
           ori == odrMap[id]
           s == TradeSide(ori)
<1>1. /\ Places /\ TypeOK /\ RestingInv /\ StopInv
      /\ \A t \in Sides : book[t] \in SUBSET Entries
  BY DEF KInv, Places, JInv, IInv, TypeOK
<1>2. /\ UNCHANGED <<o, taker, due>> /\ taker = 0 /\ due = {} /\ o.order_action # "NEW"
      /\ pc = "cancel" /\ pc' \in {"erase", "sweep"}
      /\ id \in DOMAIN odrMap /\ s \in Sides /\ DOMAIN odrMap' = DOMAIN odrMap
      /\ \A i \in DOMAIN odrMap : i # id => odrMap'[i] = odrMap[i]
      /\ SameEntry(odrMap'[id], ori)
      /\ odrMap'[id].order_state \in {"CANCELED_BY_USER", "CANCELED_BY_AMEND"}
  BY CancelFacts
<1>3. \/ /\ IsParked(ori) /\ book' = book
         /\ \A t \in Sides : stopBook'[t] = IF t = s THEN stopBook[t] \ {StopEntry(s, ori)}
                                            ELSE stopBook[t]
      \/ /\ ~IsParked(ori) /\ stopBook' = stopBook
         /\ \A t \in Sides : book'[t] = IF t = s THEN book[t] \ {<<ori.price, id>>}
                                        ELSE book[t]
  BY CancelFacts
<1>4. StopEntry(s, ori) = <<StopEntry(s, ori)[1], id>> /\ id \in Nat /\ id > 0
  BY <1>1, <1>2 DEF TypeOK, StopEntry
<1> HIDE DEF id, ori, s
<1>5. \A t \in Sides : book'[t] \subseteq book[t] /\ stopBook'[t] \subseteq stopBook[t]
  BY <1>3
<1>6. ASSUME NEW t \in Sides, NEW e \in book'[t] PROVE e[2] # id
  <2>1. SUFFICES ASSUME e[2] = id PROVE FALSE
    OBVIOUS
  <2>2. /\ e \in book[t] /\ e \in Entries /\ e = <<e[1], e[2]>>
    BY <1>1, <1>5 DEF Entries
  <2>3. ori.price = e[1] /\ s = t
    BY <1>1, <2>1, <2>2 DEF RestingInv, ori, s
  <2>4. e[1] > STOP_PRICE
    <3>1. e[1] \in Int
      BY <2>2 DEF Entries
    <3> QED
      BY <1>1, <2>2, <3>1, SentinelAssumption, TickAssumption DEF Places, LimitInv, Sides
  <2>5. ~IsParked(ori)
    BY <2>2, <2>3, <2>4, SentinelAssumption DEF IsParked, Entries
  <2> QED
    BY <1>3, <2>1, <2>2, <2>3, <2>5
<1>7. ASSUME NEW t \in Sides, NEW e \in stopBook'[t] PROVE e[2] # id
  <2>1. SUFFICES ASSUME e[2] = id PROVE FALSE
    OBVIOUS
  <2>2. e \in stopBook[t] /\ Waiting(t, e) /\ odrMap[e[2]].price = STOP_PRICE
    BY <1>1, <1>5 DEF StopInv, Places, LimitInv
  <2>3. s = t /\ e = StopEntry(s, ori) /\ IsParked(ori)
    BY <2>1, <2>2 DEF Waiting, ori, s, IsParked
  <2> QED
    BY <1>3, <2>2, <2>3
<1>8. \A t \in Sides : \A e \in book'[t] \cup stopBook'[t] \cup due' :
        e[2] \in DOMAIN odrMap /\ odrMap'[e[2]] = odrMap[e[2]]
  BY <1>1, <1>2, <1>5, <1>6, <1>7 DEF RestingInv, StopInv, Waiting
<1>9. LimitInv'
  <2>1. \A i \in DOMAIN odrMap' : \A t \in Sides :
          StopLimit(t, odrMap'[i]) > STOP_PRICE + MiniTick
    <3>1. \A i \in DOMAIN odrMap : SameLimits(odrMap'[i], odrMap[i])
      BY <1>2 DEF SameLimits, SameEntry, ori
    <3> QED
      BY <1>1, <1>2, <3>1 DEF Places, LimitInv, StopLimit, SameLimits
  <2>2. \A t \in Sides : \A e \in stopBook'[t] \cup due' : odrMap'[e[2]].price = STOP_PRICE
    BY <1>1, <1>2, <1>5, <1>8 DEF Places, LimitInv
  <2>3. \A t \in Sides : StopLimit(t, o') > STOP_PRICE + MiniTick
    BY <1>1, <1>2 DEF Places, LimitInv, StopLimit
  <2>4. "BUY" \in Sides /\ "SELL" \in Sides
    BY DEF Sides
  <2> QED
    BY <1>1, <1>2, <1>5, <2>1, <2>2, <2>3, <2>4 DEF Places, LimitInv
<1>10. LiveInv'
  <2>1. \A t \in Sides : \A e \in book'[t] \cup stopBook'[t] \cup due' :
          odrMap'[e[2]].order_state \in LiveStates
    BY <1>1, <1>2, <1>5, <1>8 DEF Places, LiveInv
  <2> QED
    BY <1>2, <2>1 DEF LiveInv
<1>11. FiledInv'
  <2>1. Canceling' /\ ~Canceling /\ o'.order_id = id
    BY <1>2 DEF Canceling, id
  <2>2. ASSUME NEW i \in DOMAIN odrMap' PROVE Placed(i, odrMap[i])'
    <3>1. CASE i = id
      BY <1>2, <2>1, <3>1 DEF Placed, DoneStates, LiveStates
    <3>2. CASE i # id
      <4>1. /\ odrMap'[i] = odrMap[i] /\ Placed(i, odrMap[i]) /\ TradeSide(odrMap[i]) \in Sides
        BY <1>1, <1>2, <3>2, FiledPlaced DEF Places, TradeSide, Sides
      <4>2. CASE odrMap[i].order_state \notin LiveStates
        BY <2>1, <4>1, <4>2 DEF Placed
      <4>3. CASE /\ odrMap[i].order_state \in LiveStates
                 /\ <<odrMap[i].price, i>> \in book[TradeSide(odrMap[i])]
        <5>1. <<odrMap[i].price, i>> # <<ori.price, id>>
          BY <3>2
        <5>2. <<odrMap[i].price, i>> \in book'[TradeSide(odrMap[i])]
          BY <1>3, <4>1, <4>3, <5>1
        <5> QED
          BY <4>1, <4>3, <5>2 DEF Placed, TradeSide
      <4>4. CASE /\ odrMap[i].order_state \in LiveStates
                 /\ odrMap[i].side \in StopSides /\ odrMap[i].price = STOP_PRICE
                 /\ StopEntry(TradeSide(odrMap[i]), odrMap[i]) \in
                      stopBook[TradeSide(odrMap[i])] \cup due
        <5>1. StopEntry(TradeSide(odrMap[i]), odrMap[i])[2] = i
          BY <1>1, <1>2 DEF TypeOK, StopEntry
        <5>2. StopEntry(TradeSide(odrMap[i]), odrMap[i]) # StopEntry(s, ori)
          BY <1>4, <3>2, <5>1
        <5>3. StopEntry(TradeSide(odrMap[i]), odrMap[i]) \in stopBook'[TradeSide(odrMap[i])]
          BY <1>2, <1>3, <4>1, <4>4, <5>2
        <5> QED
          BY <4>1, <4>4, <5>3 DEF Placed, TradeSide, StopEntry
      <4> QED
        BY <1>2, <4>1, <4>2, <4>3, <4>4 DEF Placed
    <3> QED
      BY <3>1, <3>2
  <2>3. FiledInv' <=>
          /\ Canceling' => /\ o'.order_id \in DOMAIN odrMap' /\ o'.order_id # taker'
                           /\ odrMap'[o'.order_id].order_state \in
                                {"CANCELED_BY_USER", "CANCELED_BY_AMEND"}
          /\ \A i \in DOMAIN odrMap' : Placed(i, odrMap[i])'
    BY DEF FiledInv, Placed
  <2> QED
    BY <1>2, <1>4, <2>1, <2>2, <2>3
<1> QED
  BY <1>9, <1>10, <1>11 DEF Places

\* A cancel runs into undefined behaviour only for a stop that was triggered and
\* has ended: any other order of _odr_map has a level to be found at.
LEMMA CancelCorrupts ==
  ASSUME KInv, ~corrupt, CancelParked \/ CancelResting, corrupt'
  PROVE  /\ pc = "cancel" /\ odrMap[o.order_id].side \in StopSides
         /\ odrMap[o.order_id].order_state \in DoneStates
<1> DEFINE id == o.order_id
           ori == odrMap[id]
           s == TradeSide(ori)
<1>1. Places /\ TypeOK
  BY DEF KInv, Places, JInv, IInv, TypeOK
<1>2. pc = "cancel" /\ taker = 0 /\ due = {} /\ id \in DOMAIN odrMap /\ s \in Sides
  BY CancelFacts
<1>3. \/ IsParked(ori) /\ ~HasLevel(stopBook[s], StopEntry(s, ori)[1])
      \/ ~IsParked(ori) /\ ~HasLevel(book[s], ori.price)
  BY CancelFacts
<1>4. Placed(id, ori) /\ ~Canceling
  BY <1>1, <1>2, FiledPlaced DEF Places, Canceling
<1>5. ori.order_state \notin LiveStates
  <2>1. SUFFICES ASSUME ori.order_state \in LiveStates PROVE FALSE
    OBVIOUS
  <2>2. CASE <<ori.price, id>> \in book[s]
    <3>1. ori.price > STOP_PRICE /\ ori.price \in Int
      <4>1. ori.price \in Int
        BY <1>1, <1>2, FieldFacts DEF TypeOK
      <4>2. ori.price > STOP_PRICE + MiniTick \/ ori.price > STOP_PRICE
        BY <1>1, <1>2, <2>2 DEF Places, LimitInv, Sides
      <4> QED
        BY <4>1, <4>2, SentinelAssumption, TickAssumption
    <3>2. HasLevel(book[s], ori.price)
      BY <2>2 DEF HasLevel
    <3> QED
      BY <1>3, <3>1, <3>2, SentinelAssumption DEF IsParked
  <2>3. CASE /\ ori.side \in StopSides /\ ori.price = STOP_PRICE
             /\ StopEntry(s, ori) \in stopBook[s] \cup due
    BY <1>2, <1>3, <2>3 DEF IsParked, HasLevel
  <2> QED
    BY <1>2, <1>4, <2>1, <2>2, <2>3 DEF Placed
<1> QED
  BY <1>2, <1>4, <1>5 DEF Placed

\* An order that is erased was canceled; nothing points to it.
LEMMA ErasePlaces ==
  ASSUME KInv, ~corrupt, EraseCanceled
  PROVE  Places' /\ corrupt' = FALSE
<1>1. Places /\ TypeOK /\ CallInv /\ RestingInv /\ StopInv /\ FiredInv
  BY DEF KInv, Places, JInv, IInv
<1>2. /\ UNCHANGED <<book, stopBook, taker, due>> /\ odrMap' = Drop(odrMap, o.order_id)
      /\ pc = "erase" /\ corrupt' = (o.order_id \notin DOMAIN odrMap \/ Dangling(odrMap', book))
      /\ \/ pc' = "done" /\ o' = o
         \/ pc' = "new" /\ o' = [o EXCEPT !.order_id = 0, !.order_action = "NEW"]
  BY DEF EraseCanceled, matchVars, sweepVars
<1>3. taker = 0 /\ due = {} /\ Canceling
  BY <1>1, <1>2 DEF CallInv, FiredInv, Canceling
<1>4. /\ DOMAIN odrMap' = DOMAIN odrMap \ {o.order_id}
      /\ \A i \in DOMAIN odrMap' : odrMap'[i] = odrMap[i]
  BY <1>2 DEF Drop
<1>5. /\ o.order_id \in DOMAIN odrMap
      /\ \A s \in Sides : \A e \in book[s] \cup stopBook[s] \cup due :
           e[2] \in DOMAIN odrMap' /\ odrMap'[e[2]] = odrMap[e[2]]
  BY <1>1, <1>3, <1>4, CanceledApart DEF RestingInv, StopInv, Waiting
<1>6. corrupt' = FALSE
  BY <1>2, <1>5 DEF Dangling
<1>7. ~Canceling' /\ SameLimits(o', o) /\ o'.side = o.side /\ o'.price = o.price
  BY <1>1, <1>2 DEF Canceling, SameLimits, TypeOK, Order
<1>8. LimitInv'
  <2>1. \A s \in Sides : StopLimit(s, o') > STOP_PRICE + MiniTick
    BY <1>1, <1>7 DEF Places, LimitInv, StopLimit, SameLimits
  <2>2. o'.side \in Sides => o'.price > STOP_PRICE + MiniTick
    BY <1>1, <1>3, <1>7 DEF Places, LimitInv, Canceling
  <2>3. \A i \in DOMAIN odrMap' : \A s \in Sides :
          StopLimit(s, odrMap'[i]) > STOP_PRICE + MiniTick
    BY <1>1, <1>4 DEF Places, LimitInv
  <2> QED
    BY <1>1, <1>2, <1>5, <2>1, <2>2, <2>3 DEF Places, LimitInv
<1>9. LiveInv'
  BY <1>1, <1>2, <1>5 DEF Places, LiveInv
<1>10. ASSUME NEW i \in DOMAIN odrMap' PROVE Placed(i, odrMap[i])'
  <2>1. odrMap'[i] = odrMap[i] /\ Placed(i, odrMap[i]) /\ i # o.order_id
    BY <1>1, <1>4, FiledPlaced DEF Places
  <2> QED
    BY <1>2, <2>1 DEF Placed, TradeSide, StopEntry
<1>11. FiledInv' <=>
        /\ Canceling' => /\ o'.order_id \in DOMAIN odrMap' /\ o'.order_id # taker'
                         /\ odrMap'[o'.order_id].order_state \in
                              {"CANCELED_BY_USER", "CANCELED_BY_AMEND"}
        /\ \A i \in DOMAIN odrMap' : Placed(i, odrMap[i])'
  BY DEF FiledInv, Placed
<1> QED
  BY <1>6, <1>7, <1>8, <1>9, <1>10, <1>11 DEF Places

\* handle_amend leaves its order where it is.
LEMMA AmendPlaces ==
  ASSUME KInv, ~corrupt, AmendInPlace \/ AmendReplace
  PROVE  Places'
<1> DEFINE id == o.order_id
           ori == odrMap[id]
<1>1. Places /\ TypeOK /\ CallInv /\ RestingInv /\ StopInv
  BY DEF KInv, Places, JInv, IInv
<1>2. /\ UNCHANGED <<book, stopBook, o, taker, due>> /\ pc = "amend" /\ pc' \in {"done", "cancel"}
      /\ id \in DOMAIN odrMap
  BY DEF AmendInPlace, AmendReplace, AmendReason, matchVars, sweepVars
<1>3. /\ DOMAIN odrMap' = DOMAIN odrMap
      /\ \A i \in DOMAIN odrMap : /\ SameEntry(odrMap'[i], odrMap[i])
                                  /\ odrMap'[i].order_state = odrMap[i].order_state
  <2>1. ori \in Order
    BY <1>1, <1>2 DEF TypeOK
  <2>2. PICK ord : /\ odrMap' = [odrMap EXCEPT ![id] = ord]
                   /\ SameEntry(ord, ori) /\ ord.order_state = ori.order_state
    <3>1. CASE AmendInPlace
      <4> DEFINE new == [ori EXCEPT !.order_action = "AMEND", !.quantity = o.quantity,
                                    !.display_quantity = o.display_quantity,
                                    !.remain_quantity = o.quantity]
      <4>1. SameEntry(new, ori) /\ new.order_state = ori.order_state
        BY <2>1 DEF Order, SameEntry, SameLimits
      <4>2. odrMap' = [odrMap EXCEPT ![id] = new]
        BY <1>1, <1>2, <2>1, <3>1 DEF AmendInPlace, TypeOK, Order
      <4> HIDE DEF new
      <4> QED
        BY <4>1, <4>2
    <3>2. CASE AmendReplace
      <4> DEFINE new == [ori EXCEPT !.order_action = "AMEND"]
      <4>1. SameEntry(new, ori) /\ new.order_state = ori.order_state
        BY <2>1 DEF Order, SameEntry, SameLimits
      <4>2. odrMap' = [odrMap EXCEPT ![id] = new]
        BY <3>2 DEF AmendReplace
      <4> HIDE DEF new
      <4> QED
        BY <4>1, <4>2
    <3> QED
      BY <3>1, <3>2
  <2> QED
    BY <1>1, <1>2, <2>2 DEF TypeOK, SameEntry, SameLimits
<1>4. ~Canceling /\ ~Canceling'
  BY <1>2 DEF Canceling
<1>5. \A s \in Sides : \A e \in book[s] \cup stopBook[s] \cup due : e[2] \in DOMAIN odrMap
  <2>1. sweep \in Sides
    BY <1>1 DEF TypeOK
  <2> QED
    BY <1>1, <2>1 DEF RestingInv, StopInv, Waiting
<1>6. LimitInv'
  <2>1. \A i \in DOMAIN odrMap' : \A s \in Sides :
          StopLimit(s, odrMap'[i]) > STOP_PRICE + MiniTick
    BY <1>1, <1>3 DEF Places, LimitInv, StopLimit, SameEntry, SameLimits
  <2>2. \A s \in Sides : \A e \in stopBook[s] \cup due : odrMap'[e[2]].price = STOP_PRICE
    BY <1>1, <1>3, <1>5 DEF Places, LimitInv, SameEntry
  <2>3. \A s \in Sides : StopLimit(s, o') > STOP_PRICE + MiniTick
    BY <1>1, <1>2 DEF Places, LimitInv, StopLimit
  <2> QED
    BY <1>1, <1>2, <2>1, <2>2, <2>3 DEF Places, LimitInv
<1>7. LiveInv'
  <2>1. \A s \in Sides : \A e \in book[s] \cup stopBook[s] \cup due :
          odrMap'[e[2]].order_state \in LiveStates
    BY <1>1, <1>3, <1>5 DEF Places, LiveInv
  <2> QED
    BY <1>2, <2>1 DEF LiveInv
<1>8. ASSUME NEW i \in DOMAIN odrMap' PROVE Placed(i, odrMap[i])'
  <2>1. /\ SameEntry(odrMap'[i], odrMap[i]) /\ odrMap'[i].order_state = odrMap[i].order_state
        /\ Placed(i, odrMap[i])
    BY <1>1, <1>3, FiledPlaced DEF Places
  <2>2. /\ TradeSide(odrMap'[i]) = TradeSide(odrMap[i])
        /\ \A s \in Sides : StopEntry(s, odrMap'[i]) = StopEntry(s, odrMap[i])
        /\ TradeSide(odrMap[i]) \in Sides
    BY <2>1 DEF TradeSide, StopEntry, SameEntry, Sides
  <2> QED
    BY <1>2, <1>4, <2>1, <2>2 DEF Placed, SameEntry, TradeSide, StopEntry
<1>9. FiledInv' <=>
        /\ Canceling' => /\ o'.order_id \in DOMAIN odrMap' /\ o'.order_id # taker'
                         /\ odrMap'[o'.order_id].order_state \in
                              {"CANCELED_BY_USER", "CANCELED_BY_AMEND"}
        /\ \A i \in DOMAIN odrMap' : Placed(i, odrMap[i])'
  BY DEF FiledInv, Placed
<1> QED
  BY <1>4, <1>6, <1>7, <1>8, <1>9 DEF Places

\* Stuttering changes no place.
LEMMA StutterPlaces ==
  ASSUME Places, UNCHANGED vars
  PROVE  Places'
<1> USE DEF vars, engineVars, callVars
<1>1. LimitInv' /\ LiveInv'
  BY DEF Places, LimitInv, LiveInv, Taker, StopLimit
<1>2. FiledInv'
  BY DEF Places, FiledInv, Canceling, TradeSide, StopEntry
<1> QED
  BY <1>1, <1>2 DEF Places

\* Every step keeps KInv.
LEMMA PlacesOk ==
  ASSUME NoBothStops, PricesAboveStop, KInv, [Next]_vars
  PROVE  KInv'
<1>1. JInv'
  BY CallsOk DEF KInv
<1>2. IInv'
  BY <1>1 DEF JInv
<1>3. CASE UNCHANGED vars
  <2>1. corrupt' = corrupt
    BY <1>3 DEF vars, engineVars
  <2> QED
    BY <1>1, <1>3, <2>1, StutterPlaces DEF KInv, Places
<1>4. CASE Next
  <2>1. ~corrupt
    BY <1>4 DEF Next
  <2>2. CASE \E r \in Requests : Handle(r) \/ HandleAuctionStop(r)
    BY <1>1, <2>1, <2>2, HandlePlaces DEF KInv, Places
  <2>3. CASE Step
    <3>1. QuietStep \/ StartStep \/ MatchTop \/ FokFill \/ KillStep \/ RestStep \/ FokCollect
          \/ SweepStops \/ FireStop \/ CancelParked \/ CancelResting \/ EraseCanceled
          \/ AmendReplace \/ AmendInPlace
      BY <2>3 DEF Step, QuietStep, StartStep, KillStep, RestStep
    <3>2. Places'
      BY <1>2, <2>1, <3>1, QuietPlaces, StartPlaces, FillPlaces, KillPlaces, RestPlaces,
         CollectPlaces, SweepPlaces, FirePlaces, CancelPlaces, ErasePlaces, AmendPlaces
    <3> QED
      BY <1>1, <3>2 DEF KInv, Places
  <2> QED
    BY <1>4, <2>2, <2>3 DEF Next
<1> QED
  BY <1>3, <1>4

\* The empty engine satisfies KInv.
LEMMA PlacesInit ==
  ASSUME NoBothStops, PricesAboveStop, Empty
  PROVE  KInv
<1>1. IInv /\ JInv
  <2>1. IInv
    BY InitOk
  <2> QED
    BY <2>1 DEF Empty, JInv, StopsLeftBehind, FiredInv, RecordedInv, PassInv, SecondPass
<1>2. \A s \in Sides : book[s] = {} /\ stopBook[s] = {} /\ due = {}
  BY DEF Empty
<1>3. LimitInv
  <2>1. \A s \in Sides : StopLimit(s, o) > STOP_PRICE + MiniTick
    BY DefaultLimits DEF Empty, StopLimit, PricesAboveStop
  <2> QED
    BY <1>2, <2>1, DefaultLimits DEF Empty, LimitInv, Sides
<1>4. LiveInv
  BY <1>2 DEF Empty, LiveInv
<1>5. FiledInv
  BY DEF Empty, FiledInv, Canceling
<1> QED
  BY <1>1, <1>3, <1>4, <1>5 DEF KInv

\* KInv is an invariant: the engine always knows where its orders are.
THEOREM PlacesInductive ==
  ASSUME NoBothStops, PricesAboveStop
  PROVE  Spec => []KInv
<1>1. Init => KInv
  BY InitEmpty, PlacesInit
<1>2. KInv /\ [Next]_vars => KInv'
  BY PlacesOk
<1> QED
  BY <1>1, <1>2, PTL DEF Spec

\* Every entry of a book is the one entry of a live order with something left, on
\* the side and at the price that handle_cancel will look for it.
THEOREM BooksPointToLiveOrdersHolds ==
  ASSUME NoBothStops, PricesAboveStop
  PROVE  Spec => []BooksPointToLiveOrders
<1>1. KInv => BooksPointToLiveOrders
  <2>1. SUFFICES ASSUME KInv, ~corrupt, NEW s \in Sides, NEW e \in book[s]
                 PROVE  /\ e[2] \in DOMAIN odrMap
                        /\ odrMap[e[2]].price = e[1] /\ RestingSide(odrMap[e[2]]) = s
                        /\ odrMap[e[2]].remain_quantity > 0
                        /\ odrMap[e[2]].order_state \in LiveStates
    BY DEF BooksPointToLiveOrders
  <2>2. RestingInv /\ LiveInv /\ CallInv
    BY <2>1 DEF KInv, JInv, IInv
  <2>3. e[2] \in DOMAIN odrMap /\ TradeSide(odrMap[e[2]]) = s
    BY <2>2 DEF RestingInv
  <2>4. RestingSide(odrMap[e[2]]) = s
    BY <2>2, <2>3 DEF CallInv, RestingSide, TradeSide
  <2> QED
    BY <2>2, <2>3, <2>4 DEF RestingInv, LiveInv
<1> QED
  BY <1>1, PlacesInductive, PTL

\* The only step into undefined behaviour is handle_cancel of a stop that ended.
LEMMA CorruptStep ==
  ASSUME KInv, KInv', Next
  PROVE  corrupt' => /\ pc = "cancel"
                     /\ odrMap[o.order_id].side \in StopSides
                     /\ odrMap[o.order_id].order_state \in DoneStates
<1>1. ~corrupt /\ IInv
  BY DEF Next, KInv, JInv
<1>2. CASE \E r \in Requests : Handle(r) \/ HandleAuctionStop(r)
  BY <1>1, <1>2 DEF Handle, HandleAuctionStop
<1>3. CASE Step
  <2>1. CASE MatchTop \/ FokFill
    <3>1. IInv'
      BY DEF KInv, JInv
    <3> QED
      BY <1>1, <2>1, <3>1, FillPlaces
  <2>2. CASE EraseCanceled
    BY <1>1, <2>2, ErasePlaces
  <2>3. CASE CancelParked \/ CancelResting
    BY <1>1, <2>3, CancelCorrupts
  <2>4. CASE QuietStep
    BY <1>1, <2>4 DEF QuietStep, RejectNew, CancelUnknown, RejectAmend, Unlock, MatchDone,
       FokDone, MatchReturn, SweepReturn, FireReturn, FlushAuction
  <2>5. CASE StartStep
    BY <1>1, <2>5 DEF StartStep, NewBuySell, NewBuyStop, NewSellStop, NewBuySellStop
  <2>6. CASE KillStep \/ RestStep
    BY <1>1, <2>6, KillFacts, RestFacts
  <2>7. CASE FokCollect \/ SweepStops \/ FireStop \/ AmendReplace \/ AmendInPlace
    BY <1>1, <2>7 DEF FokCollect, SweepStops, CollectStops, FireStop, AmendReplace,
       AmendInPlace
  <2> QED
    BY <1>3, <2>1, <2>2, <2>3, <2>4, <2>5, <2>6, <2>7
       DEF Step, QuietStep, StartStep, KillStep, RestStep
<1> QED
  BY <1>2, <1>3 DEF Next

\* Undefined behaviour is reached by no other step than handle_cancel of a stop
\* that was triggered and has ended.
THEOREM CorruptOnlyByEndedStopHolds ==
  ASSUME NoBothStops, PricesAboveStop
  PROVE  Spec => CorruptOnlyByEndedStop
<1> DEFINE A == corrupt' =>
                  /\ pc = "cancel"
                  /\ odrMap[o.order_id].side \in StopSides
                  /\ odrMap[o.order_id].order_state \in DoneStates
<1>1. KInv /\ KInv' /\ [Next]_vars => [A]_vars
  BY CorruptStep
<1>2. QED
  BY <1>1, PlacesInductive, PTL DEF Spec, CorruptOnlyByEndedStop, A

\* Between calls the mutex is free, but for the call that handle left early: the
\* auction order with a stop side.
THEOREM HeldOnlyInCallHolds == Spec => []HeldOnlyInCall
<1>1. Init => HeldOnlyInCall
  BY DEF Init, HeldOnlyInCall
<1>2. HeldOnlyInCall /\ [Next]_vars => HeldOnlyInCall'
  <2>1. SUFFICES ASSUME HeldOnlyInCall, [Next]_vars, mutex', pc' = "idle"
                 PROVE  \E i \in DOMAIN emitted' :
                          emitted'[i].order_state = "REJECT_AUCTION_SUPPORT_BUY_SELL_ONLY"
    BY DEF HeldOnlyInCall
  <2>2. CASE UNCHANGED vars
    BY <2>1, <2>2 DEF HeldOnlyInCall, vars, engineVars, callVars
  <2>3. ASSUME NEW r \in Requests, Handle(r) PROVE FALSE
    <3>1. r.order_action \in Actions
      BY RequestActions
    <3> QED
      BY <2>1, <2>3, <3>1 DEF Handle, Actions
  <2>4. ASSUME NEW r \in Requests, HandleAuctionStop(r)
        PROVE  \E i \in DOMAIN emitted' :
                 emitted'[i].order_state = "REJECT_AUCTION_SUPPORT_BUY_SELL_ONLY"
    <3> DEFINE ord == [r EXCEPT !.order_state = "REJECT_AUCTION_SUPPORT_BUY_SELL_ONLY"]
    <3>1. "order_state" \in DOMAIN r
      BY RequestActions
    <3>2. ord.order_state = "REJECT_AUCTION_SUPPORT_BUY_SELL_ONLY"
      BY <3>1
    <3> HIDE DEF ord
    <3>3. emitted' = <<ord>>
      BY <2>4 DEF HandleAuctionStop, ord
    <3>4. 1 \in DOMAIN emitted' /\ emitted'[1] = ord
      BY <3>3
    <3> QED
      BY <3>2, <3>4
  <2>5. CASE Step
    <3>1. pc' # "idle" \/ ~mutex'
      <4>1. CASE RejectNew \/ NewBuySell \/ NewBuyStop \/ NewSellStop \/ NewBuySellStop
        BY <4>1 DEF RejectNew, NewBuySell, NewBuyStop, NewSellStop, NewBuySellStop, StartMatch,
           StopNow, Park
      <4>2. CASE MatchTop \/ FokCollect \/ FokFill
        BY <4>2 DEF MatchTop, FokCollect, FokFill
      <4>3. CASE MatchDone \/ FokDone \/ MatchReturn
        BY <4>3 DEF MatchDone, FokDone, MatchReturn
      <4>4. CASE CancelMakerOnly \/ CancelRemainder \/ CancelMarket \/ FokKill
        BY <4>4 DEF CancelMakerOnly, CancelRemainder, CancelMarket, FokKill, CancelTaker
      <4>5. CASE RestRemainder \/ RestRepriced
        BY <4>5 DEF RestRemainder, RestRepriced, Rest
      <4>6. CASE SweepStops \/ SweepReturn \/ FireStop \/ FireReturn
        BY <4>6 DEF SweepStops, CollectStops, SweepReturn, FireStop, StartMatch, FireReturn
      <4>7. CASE CancelUnknown \/ CancelParked \/ CancelResting \/ EraseCanceled
        BY <4>7 DEF CancelUnknown, CancelParked, CancelResting, EraseCanceled
      <4>8. CASE RejectAmend \/ AmendInPlace \/ AmendReplace
        BY <4>8 DEF RejectAmend, AmendInPlace, AmendReplace
      <4>9. CASE FlushAuction \/ Unlock
        BY <4>9 DEF FlushAuction, Unlock, callVars
      <4> QED
        BY <2>5, <4>1, <4>2, <4>3, <4>4, <4>5, <4>6, <4>7, <4>8, <4>9 DEF Step
    <3> QED
      BY <2>1, <3>1
  <2> QED
    BY <2>1, <2>2, <2>3, <2>4, <2>5 DEF Next
<1> QED
  BY <1>1, <1>2, PTL DEF Spec

-----------------------------------------------------------------------------
(* The records of an auction.                                              *)

\* engine::match notes the price and the role.
LEMMA MatchRecords ==
  ASSUME NEW ord \in Order, NEW mtype \in {"MAKER", "TAKER"}, NEW p \in Int,
         NEW q \in Nat, q <= ord.remain_quantity
  PROVE  /\ Match(ord, mtype, p, q).last_match_price = p
         /\ Match(ord, mtype, p, q).matched_type = mtype
         /\ Match(ord, mtype, p, q).order_state \in {"FILLED", "PARTIAL_FILL"}
<1> DEFINE st == IF ord.remain_quantity = q THEN "FILLED" ELSE "PARTIAL_FILL"
           r == [ord EXCEPT !.matched_type = mtype, !.last_match_price = p,
                            !.last_match_quantity = q, !.remain_quantity = @ - q,
                            !.order_state = st]
<1>1. /\ r.last_match_price = p /\ r.matched_type = mtype
      /\ DOMAIN r = DOMAIN ord
  BY DEF Order
<1>2. /\ UpdateDisplay(r).last_match_price = r.last_match_price
      /\ UpdateDisplay(r).matched_type = r.matched_type
  <2>1. DOMAIN r = DOMAIN [order_id |-> 0, side |-> 0, type |-> 0, time_condition |-> 0,
          order_action |-> 0, price |-> 0, quantity |-> 0, display_quantity |-> 0,
          remain_quantity |-> 0, last_match_price |-> 0, last_match_quantity |-> 0,
          buy_stop_trigger_price |-> 0, buy_stop_limit_price |-> 0,
          sell_stop_trigger_price |-> 0, sell_stop_limit_price |-> 0,
          order_state |-> 0, matched_type |-> 0]
    BY DEF Order
  <2> HIDE DEF r
  <2> QED
    BY <2>1 DEF UpdateDisplay
<1>3. Match(ord, mtype, p, q) = UpdateDisplay(r)
  BY DEF Match
<1> HIDE DEF r
<1> QED
  BY <1>1, <1>2, <1>3, MatchStates

\* Two records are appended.
LEMMA TwoMore ==
  ASSUME NEW s \in Seq(Order), NEW a \in Order, NEW b \in Order
  PROVE  LET r == s \o <<a, b>>
         IN /\ Len(r) = Len(s) + 2 /\ DOMAIN r = 1 .. Len(s) + 2 /\ r # <<>>
            /\ r[Len(s) + 1] = a /\ r[Len(s) + 2] = b
            /\ \A i \in DOMAIN s : r[i] = s[i]
<1> DEFINE t == <<a, b>>
           r == s \o t
<1>1. t \in Seq(Order) /\ Len(t) = 2 /\ t[1] = a /\ t[2] = b
  OBVIOUS
<1> HIDE DEF t
<1>2. /\ r \in Seq(Order) /\ Len(r) = Len(s) + Len(t) /\ Len(s) \in Nat /\ DOMAIN s = 1 .. Len(s)
      /\ \A i \in 1 .. Len(s) + Len(t) : r[i] = IF i <= Len(s) THEN s[i] ELSE t[i - Len(s)]
  BY <1>1, ConcatProperties, LenProperties
<1> HIDE DEF r
<1>3. Len(r) = Len(s) + 2 /\ DOMAIN r = 1 .. Len(s) + 2 /\ r # <<>>
  BY <1>1, <1>2
<1>4. r[Len(s) + 1] = a /\ r[Len(s) + 2] = b
  <2>1. Len(s) + 1 \in 1 .. Len(s) + Len(t) /\ ~(Len(s) + 1 <= Len(s)) /\ Len(s) + 1 - Len(s) = 1
    BY <1>1, <1>2
  <2>2. Len(s) + 2 \in 1 .. Len(s) + Len(t) /\ ~(Len(s) + 2 <= Len(s)) /\ Len(s) + 2 - Len(s) = 2
    BY <1>1, <1>2
  <2> QED
    BY <1>1, <1>2, <2>1, <2>2
<1>5. \A i \in DOMAIN s : r[i] = s[i]
  BY <1>1, <1>2
<1> QED
  BY <1>3, <1>4, <1>5 DEF r, t

\* A request is an auction only as a new order.
LEMMA RequestAuctions ==
  ASSUME NoAuctionAmends, NEW r \in Requests, r.time_condition = "AUCTION"
  PROVE  r.order_action = "NEW"
<1>1. CASE r \in NewRequests
  BY <1>1, RequestAssumption
<1>2. ASSUME NEW a \in AmendRequests, NEW id, r = [a EXCEPT !.order_id = id]
      PROVE  FALSE
  <2>1. r.time_condition = a.time_condition
    BY <1>2, RequestAssumption DEF Order
  <2> QED
    BY <2>1 DEF NoAuctionAmends
<1>3. ASSUME NEW id, r = CancelRequest(id)
      PROVE  FALSE
  BY <1>3 DEF CancelRequest, DefaultOrder
<1> QED
  BY <1>1, <1>2, <1>3 DEF Requests

\* A step after which the auction order is not filled and not being matched.
LEMMA AuctionOpen ==
  ASSUME isAuction', pc' \notin {"idle", "new"}, pc' = "match" => taker' # 0,
         o'.order_action = "NEW", o'.time_condition = "AUCTION", o'.order_state # "FILLED"
  PROVE  AuctionInv'
  BY DEF AuctionInv

\* A step that leaves the order and the records alone.
LEMMA AuctionKept ==
  ASSUME AuctionInv, UNCHANGED <<isAuction, cbRecords, o>>,
         isAuction => /\ pc' \notin {"idle", "new"} /\ (pc' = "match" => taker' # 0)
                      /\ o.order_state = "FILLED" =>
                           pc # "new" /\ pc' \in {"matched", "done"} /\ taker' = taker
  PROVE  AuctionInv'
<1>1. CASE ~isAuction
  BY <1>1 DEF AuctionInv
<1>2. CASE isAuction
  BY <1>2 DEF AuctionInv, PaidInv
<1> QED
  BY <1>1, <1>2

\* Outside an auction nothing is recorded.
LEMMA RecordsKept ==
  ASSUME Step, ~isAuction
  PROVE  isAuction' = FALSE /\ cbRecords' = cbRecords
<1> USE DEF Callback, Silent, lockVars
<1>1. CASE RejectNew \/ NewBuySell \/ NewBuyStop \/ NewSellStop \/ NewBuySellStop
  BY <1>1 DEF RejectNew, NewBuySell, NewBuyStop, NewSellStop, NewBuySellStop, StopNow, Park
<1>2. CASE MatchTop \/ FokCollect \/ FokFill
  <2>1. ASSUME NEW e, NEW q, Fill(e, q) PROVE cbRecords' = cbRecords
    BY <2>1 DEF Fill
  <2>2. CASE MatchTop
    BY <2>1, <2>2 DEF MatchTop
  <2>3. CASE FokCollect
    BY <2>3 DEF FokCollect
  <2>4. CASE FokFill
    BY <2>1, <2>4 DEF FokFill
  <2> QED
    BY <1>2, <2>2, <2>3, <2>4
<1>3. CASE MatchDone \/ FokDone \/ MatchReturn
  BY <1>3 DEF MatchDone, FokDone, MatchReturn
<1>4. CASE CancelMakerOnly \/ CancelRemainder \/ CancelMarket \/ FokKill
  BY <1>4 DEF CancelMakerOnly, CancelRemainder, CancelMarket, FokKill, CancelTaker
<1>5. CASE RestRemainder \/ RestRepriced
  BY <1>5 DEF RestRemainder, RestRepriced, Rest
<1>6. CASE SweepStops \/ SweepReturn \/ FireStop \/ FireReturn
  BY <1>6 DEF SweepStops, CollectStops, SweepReturn, FireStop, FireReturn
<1>7. CASE CancelUnknown \/ CancelParked \/ CancelResting \/ EraseCanceled
  <2>1. ASSUME NEW ori, CancelReport(ori) PROVE cbRecords' = cbRecords
    BY <2>1 DEF CancelReport
  <2>2. CASE CancelUnknown \/ EraseCanceled
    BY <2>2 DEF CancelUnknown, EraseCanceled
  <2>3. CASE CancelParked
    BY <2>1, <2>3 DEF CancelParked
  <2>4. CASE CancelResting
    BY <2>1, <2>4 DEF CancelResting
  <2> QED
    BY <1>7, <2>2, <2>3, <2>4
<1>8. CASE RejectAmend \/ AmendInPlace \/ AmendReplace
  BY <1>8 DEF RejectAmend, AmendInPlace, AmendReplace
<1>9. CASE FlushAuction \/ Unlock
  BY <1>9 DEF FlushAuction, Unlock
<1> QED
  BY <1>1, <1>2, <1>3, <1>4, <1>5, <1>6, <1>7, <1>8, <1>9 DEF Step

\* Outside an auction there is nothing to say of its records.
LEMMA NoRecords ==
  ASSUME Step, ~isAuction, AuctionInv
  PROVE  AuctionInv'
  BY RecordsKept DEF AuctionInv

\* A fill of the auction order is at the price of the best maker: not better for the
\* auction order than the fills before, not worse than those still to come.
LEMMA AuctionFill ==
  ASSUME KInv, ~corrupt, isAuction, AuctionInv, MatchTop, taker = 0
  PROVE  AuctionInv'
<1>1. /\ IInv /\ TypeOK /\ CallInv /\ RestingInv /\ Calls /\ o \in Order /\ Taker = o
      /\ o.side \in Sides /\ pc = "match" /\ cbRecords \in Seq(Order)
  BY DEF KInv, JInv, IInv, TypeOK, CallInv, Calls, MatchTop, Taker
<1>2. /\ UNCHANGED <<isAuction, pc, taker, mside>>
  BY DEF MatchTop, lockVars, matchVars
<1>3. PICK e \in OppBook, q \in Nat :
        /\ q <= odrMap[e[2]].remain_quantity /\ q <= o.remain_quantity
        /\ Fill(e, q) /\ Filled(e, q) /\ Crossing(e)
  BY <1>1, FillCalls
<1> DEFINE maker == odrMap[e[2]]
           m == Match(maker, "MAKER", maker.price, q)
           t == Match(o, "TAKER", maker.price, q)
<1>4. /\ Opposite(mside) \in Sides /\ maker \in Order /\ maker.price = e[1] /\ e[1] \in Int
      /\ \A f \in OppBook : f[1] \in Int
  <2>1. Opposite(mside) \in Sides
    BY DEF Opposite, Sides
  <2> QED
    BY <1>1, <2>1, EntryFacts DEF OppBook, RestingInv
<1>5. /\ m \in Order /\ m.price = e[1]
      /\ t \in Order /\ t.last_match_price = e[1] /\ t.matched_type = "TAKER"
      /\ t.order_state \in {"FILLED", "PARTIAL_FILL"}
      /\ t.order_state = "FILLED" => t.remain_quantity = 0
      /\ t.order_action = o.order_action /\ t.time_condition = o.time_condition
      /\ t.side = o.side
  BY <1>1, <1>3, <1>4, MatchFacts, MatchStates, MatchRecords DEF Same
<1>6. o' = t /\ cbRecords' = cbRecords \o <<m, t>>
  BY <1>1, <1>3 DEF Fill, SetTaker, Callback
<1> HIDE DEF maker, m, t
<1> DEFINE n == Len(cbRecords)
<1>7. /\ n \in Nat /\ DOMAIN cbRecords = 1 .. n /\ cbRecords' # <<>> /\ Len(cbRecords') = n + 2
      /\ DOMAIN cbRecords' = 1 .. n + 2 /\ cbRecords'[n + 1] = m /\ cbRecords'[n + 2] = t
      /\ \A i \in DOMAIN cbRecords : cbRecords'[i] = cbRecords[i]
  BY <1>1, <1>5, <1>6, TwoMore
<1>8. cbRecords # <<>> => n \in DOMAIN cbRecords
  BY <1>1, <1>7
<1>9. \A i \in DOMAIN cbRecords : cbRecords[i].price \in Int /\ cbRecords[i].last_match_price \in Int
  <2>1. \A i \in DOMAIN cbRecords : cbRecords[i] \in Order
    BY <1>1
  <2> QED
    BY <2>1 DEF Order
<1> HIDE DEF n
<1>10. o.side = mside
  BY <1>1 DEF CallInv, TradeSide, Sides
<1>11. \A f \in OppBook : IF o.side = "BUY" THEN e[1] <= f[1] ELSE e[1] >= f[1]
  BY <1>1, <1>3, <1>4, <1>10 DEF Crossing, TopOpposite, IsTop, Ahead, Opposite, Sides
<1>12. ASSUME NEW i \in DOMAIN cbRecords', cbRecords'[i].matched_type = "MAKER",
              cbRecords'[i].last_match_quantity > 0
       PROVE  IF o.side = "BUY" THEN e[1] >= cbRecords'[i].price ELSE e[1] <= cbRecords'[i].price
  <2>1. CASE i \in DOMAIN cbRecords
    <3>1. PaidInv /\ NextInv /\ cbRecords # <<>> /\ cbRecords'[i] = cbRecords[i]
      BY <1>1, <1>7, <2>1 DEF AuctionInv
    <3>2. /\ n \in DOMAIN cbRecords
          /\ IF o.side = "BUY" THEN cbRecords[n].last_match_price >= cbRecords[i].price
             ELSE cbRecords[n].last_match_price <= cbRecords[i].price
          /\ IF o.side = "BUY" THEN cbRecords[n].last_match_price <= e[1]
             ELSE cbRecords[n].last_match_price >= e[1]
      BY <1>8, <1>12, <2>1, <3>1 DEF PaidInv, NextInv, n
    <3> QED
      BY <1>4, <1>9, <2>1, <3>1, <3>2
  <2>2. CASE i = n + 1
    BY <1>4, <1>5, <1>7, <2>2
  <2>3. CASE i = n + 2
    BY <1>5, <1>7, <1>12, <2>3
  <2> QED
    BY <1>7, <2>1, <2>2, <2>3
<1>13. cbRecords'[Len(cbRecords')] = t
  BY <1>7
<1>14. PaidInv'
  BY <1>5, <1>6, <1>12, <1>13 DEF PaidInv
<1>15. NextInv'
  <2>1. OppBook' \subseteq OppBook
    BY <1>2, <1>3, <1>4 DEF Filled, OppBook
  <2> QED
    BY <1>5, <1>6, <1>11, <1>13, <2>1 DEF NextInv
<1> QED
  BY <1>1, <1>2, <1>5, <1>6, <1>7, <1>14, <1>15 DEF AuctionInv

\* Every step keeps AuctionInv.
LEMMA AuctionOk ==
  ASSUME NoBothStops, NoAuctionAmends, KInv, ~corrupt, AuctionInv, Next
  PROVE  AuctionInv'
<1>1. /\ IInv /\ TypeOK /\ CallInv /\ FiredInv /\ LiveInv /\ o \in Order /\ FokInv
  BY DEF KInv, JInv, IInv, TypeOK
<1>2. CASE \E r \in Requests : Handle(r) \/ HandleAuctionStop(r)
  <2>1. pc = "idle" /\ isAuction = FALSE /\ cbRecords = <<>> /\ cbRecords' = <<>>
    BY <1>1, <1>2 DEF Handle, HandleAuctionStop, AuctionInv, Silent, TypeOK
  <2>2. ASSUME NEW r \in Requests, Handle(r), isAuction' PROVE AuctionInv'
    BY <2>1, <2>2, RequestAuctions DEF Handle, AuctionInv
  <2>3. ASSUME ~isAuction' PROVE AuctionInv'
    BY <2>1, <2>3 DEF AuctionInv
  <2> QED
    BY <1>2, <2>1, <2>2, <2>3 DEF HandleAuctionStop
<1>3. CASE Step /\ ~isAuction
  BY <1>3, NoRecords
<1>4. CASE Step /\ isAuction
  <2>1. /\ pc # "idle" /\ o.order_action = "NEW" /\ o.time_condition = "AUCTION" /\ o.side \in Sides
        /\ o.order_state = "FILLED" /\ pc # "new" =>
             taker = 0 /\ pc \in {"match", "matched", "done"} /\ o.remain_quantity = 0
        /\ pc \notin {"cancel", "amend", "erase"}
        /\ pc = "fok" => taker # 0
    BY <1>1, <1>4 DEF AuctionInv, CallInv, FiredInv, FokInv, Taker
  <2>2. CASE RejectNew
    <3>1. RejectReason(o) \in RejectStates /\ isAuction' /\ pc' = "done"
      BY <1>4, <2>2 DEF RejectNew, RejectReason, RejectStates, lockVars
    <3>2. o'.order_state = RejectReason(o) /\ o'.order_action = o.order_action
          /\ o'.time_condition = o.time_condition
      BY <1>1, <2>2 DEF RejectNew, Order
    <3> QED
      BY <2>1, <3>1, <3>2, AuctionOpen DEF RejectStates
  <2>3. CASE StartStep
    <3>1. NewBuySell
      BY <2>1, <2>3 DEF StartStep, NewBuyStop, NewSellStop, NewBuySellStop, Sides, StopSides
    <3>2. /\ o' = InitNewOrder(o) /\ pc = "new" /\ isAuction' /\ cbRecords' = cbRecords
          /\ pc' = IF o'.time_condition = "FOK" THEN "fok" ELSE "match"
      BY <1>4, <3>1 DEF NewBuySell, StartMatch, Silent, lockVars
    <3>3. /\ o'.order_action = o.order_action /\ o'.time_condition = o.time_condition
          /\ o'.order_state = "OPEN"
      BY <1>1, <3>2 DEF InitNewOrder, Order
    <3> QED
      BY <1>4, <2>1, <3>2, <3>3 DEF AuctionInv, PaidInv, NextInv
  <2>4. CASE MatchTop /\ taker = 0
    BY <1>4, <2>4, AuctionFill
  <2>5. CASE (MatchTop \/ FokFill \/ KillStep \/ RestStep) /\ taker # 0
    <3>1. o' = o /\ isAuction' /\ taker' = taker /\ pc' \notin {"idle", "new"} /\ pc # "new"
      <4>1. CASE MatchTop \/ FokFill
        <5>1. \A e, q : Fill(e, q) => o' = o
          BY <2>5 DEF Fill, SetTaker
        <5> QED
          BY <1>4, <4>1, <5>1 DEF MatchTop, FokFill, lockVars, matchVars
      <4>2. CASE KillStep
        <5>1. isAuction'
          BY <1>4, <4>2 DEF KillStep, CancelMakerOnly, CancelRemainder, CancelMarket, FokKill,
             CancelTaker, lockVars
        <5> QED
          BY <1>1, <2>5, <4>2, <5>1, KillFacts
      <4>3. CASE RestStep
        <5>1. isAuction'
          BY <1>4, <4>3 DEF RestStep, RestRemainder, RestRepriced, Rest, lockVars
        <5> QED
          BY <1>1, <2>5, <4>3, <5>1, RestFacts
      <4> QED
        BY <2>5, <4>1, <4>2, <4>3
    <3> QED
      BY <2>1, <2>5, <3>1, AuctionOpen
  <2>6. CASE KillStep /\ taker = 0
    <3>1. PICK st \in DoneStates \ {"FILLED"} : CancelTaker(st)
      BY <2>6 DEF KillStep, CancelMakerOnly, CancelRemainder, CancelMarket, FokKill, DoneStates
    <3>2. o' = [o EXCEPT !.order_state = st] /\ isAuction' /\ pc' = "matched"
      BY <1>4, <2>6, <3>1 DEF CancelTaker, SetTaker, Taker, lockVars
    <3>3. /\ o'.order_state # "FILLED" /\ o'.order_action = o.order_action
          /\ o'.time_condition = o.time_condition
      BY <1>1, <3>2 DEF Order
    <3> QED
      BY <2>1, <3>2, <3>3, AuctionOpen
  <2>7. CASE (FokFill \/ RestStep) /\ taker = 0
    BY <2>1, <2>7 DEF FokFill, RestStep, RestRemainder, RestRepriced, Taker
  <2>8. CASE MatchDone \/ FokDone \/ FokCollect
    <3>1. /\ UNCHANGED <<isAuction, cbRecords, o, taker>> /\ pc \in {"match", "fok"}
          /\ pc' \in {"matched", "fok"} /\ (pc' = "fok" => taker # 0)
      BY <2>1, <2>8 DEF MatchDone, FokDone, FokCollect, Silent, lockVars, matchVars
    <3> QED
      BY <2>1, <3>1, AuctionKept
  <2>9. CASE MatchReturn
    <3>1. /\ UNCHANGED <<isAuction, cbRecords, o>> /\ pc = "matched" /\ taker' = 0
          /\ pc' \in {"fire", "sweep", "done"}
          /\ taker = 0 /\ o.remain_quantity = 0 => pc' = "done"
      BY <2>9 DEF MatchReturn, Silent, lockVars
    <3> QED
      BY <2>1, <3>1, AuctionKept
  <2>10. CASE SweepStops \/ SweepReturn \/ FireStop \/ FireReturn
    <3>1. /\ UNCHANGED <<isAuction, o>> /\ pc \in {"sweep", "fire"} /\ pc' \notin {"idle", "new"}
          /\ pc' = "match" => taker' # 0
      <4>1. CASE SweepStops \/ SweepReturn \/ FireReturn
        BY <4>1 DEF SweepStops, CollectStops, SweepReturn, FireReturn, lockVars
      <4>2. CASE FireStop
        <5>1. UNCHANGED isAuction
          BY <4>2 DEF FireStop, lockVars
        <5> QED
          BY <1>1, <4>2, <5>1, FireFacts
      <4> QED
        BY <2>10, <4>1, <4>2
    <3> QED
      BY <1>4, <2>1, <3>1, AuctionOpen
  <2>11. CASE CancelUnknown \/ CancelParked \/ CancelResting \/ EraseCanceled \/ RejectAmend
              \/ AmendInPlace \/ AmendReplace \/ Unlock
    BY <1>4, <2>1, <2>11 DEF CancelUnknown, CancelParked, CancelResting, EraseCanceled,
       RejectAmend, AmendInPlace, AmendReplace, Unlock
  <2>12. CASE FlushAuction
    BY <2>12 DEF FlushAuction, AuctionInv
  <2> QED
    BY <1>4, <2>2, <2>3, <2>4, <2>5, <2>6, <2>7, <2>8, <2>9, <2>10, <2>11, <2>12
       DEF Step, StartStep, KillStep, RestStep
<1> QED
  BY <1>2, <1>3, <1>4 DEF Next

\* LInv is an invariant when no client amends an order into an auction order.
THEOREM AuctionInductive ==
  ASSUME NoBothStops, PricesAboveStop, NoAuctionAmends
  PROVE  Spec => []LInv
<1>1. Init => LInv
  <2>1. Init => AuctionInv
    BY DEF Init, AuctionInv
  <2> QED
    BY <2>1, InitEmpty, PlacesInit DEF LInv
<1>2. LInv /\ [Next]_vars => LInv'
  <2>1. SUFFICES ASSUME LInv, [Next]_vars PROVE LInv'
    OBVIOUS
  <2>2. KInv'
    BY <2>1, PlacesOk DEF LInv
  <2>3. CASE UNCHANGED vars
    <3>1. AuctionInv' <=> AuctionInv
      BY <2>3 DEF AuctionInv, PaidInv, NextInv, OppBook, vars, engineVars, callVars
    <3>2. corrupt' = corrupt
      BY <2>3 DEF vars, engineVars
    <3> QED
      BY <2>1, <2>2, <3>1, <3>2 DEF LInv
  <2>4. CASE Next
    <3>1. ~corrupt
      BY <2>4 DEF Next
    <3> QED
      BY <2>1, <2>2, <2>4, <3>1, AuctionOk DEF LInv
  <2> QED
    BY <2>1, <2>3, <2>4
<1> QED
  BY <1>1, <1>2, PTL DEF Spec

\* An auction order that is filled completely is reported at the price of its last
\* fill: no maker of the auction is reported at a price worse than its own.
THEOREM AuctionPaysMakersHolds ==
  ASSUME NoBothStops, PricesAboveStop, NoAuctionAmends
  PROVE  Spec => AuctionPaysMakers
<1> DEFINE A == pc = "done" /\ isAuction /\ o.order_state = "FILLED" =>
                  \A i \in DOMAIN emitted' :
                    emitted'[i].matched_type = "MAKER" /\ emitted'[i].last_match_quantity > 0 =>
                      IF o.side = "BUY" THEN emitted'[i].last_match_price >= emitted'[i].price
                      ELSE emitted'[i].last_match_price <= emitted'[i].price
<1>1. LInv /\ [Next]_vars => [A]_vars
  <2>1. SUFFICES ASSUME LInv, Next, pc = "done", isAuction, o.order_state = "FILLED" PROVE A
    OBVIOUS
  <2>2. /\ AuctionInv /\ IInv /\ TypeOK /\ CallInv
    BY <2>1 DEF Next, LInv, KInv, JInv, IInv
  <2>3. /\ PaidInv /\ cbRecords # <<>> /\ o.remain_quantity = 0 /\ o.side \in Sides
        /\ cbRecords \in Seq(Order) /\ o \in Order
    BY <2>1, <2>2 DEF AuctionInv, CallInv, TypeOK
  <2>4. FlushAuction
    <3>1. Step
      BY <2>1 DEF Next, Handle, HandleAuctionStop
    <3> QED
      BY <2>1, <3>1 DEF Step, RejectNew, NewBuySell, NewBuyStop, NewSellStop, NewBuySellStop,
         MatchTop, MatchDone, CancelMakerOnly, CancelRemainder, CancelMarket, RestRemainder,
         RestRepriced, FokCollect, FokKill, FokFill, FokDone, MatchReturn, SweepStops,
         CollectStops, SweepReturn, FireStop, FireReturn, CancelUnknown, CancelParked,
         CancelResting, EraseCanceled, RejectAmend, AmendInPlace, AmendReplace, Unlock
  <2> DEFINE n == Len(cbRecords)
             p == cbRecords[n].last_match_price
  <2>5. /\ n \in Nat /\ DOMAIN cbRecords = 1 .. n /\ n \in DOMAIN cbRecords
        /\ \A i \in DOMAIN cbRecords : cbRecords[i] \in Order
    BY <2>3
  <2>6. p \in Int /\ \A i \in DOMAIN cbRecords : cbRecords[i].price \in Int
    BY <2>5 DEF Order
  <2>7. n \in Traded /\ LastTraded = n
    <3>1. n \in Traded /\ \A j \in Traded : j <= n /\ j \in Nat
      BY <2>3, <2>5 DEF Traded, PaidInv
    <3> QED
      BY <2>5, <3>1 DEF LastTraded
  <2>8. AuctionPrice = IF o.side = "BUY" THEN (IF p < 0 THEN 0 ELSE p)
                       ELSE (IF p > 0 THEN 0 ELSE p)
    BY <2>3, <2>7 DEF AuctionPrice, Sides
  <2>9. \A i \in DOMAIN cbRecords :
          cbRecords[i].matched_type = "MAKER" /\ cbRecords[i].last_match_quantity > 0 =>
            IF o.side = "BUY" THEN p >= cbRecords[i].price ELSE p <= cbRecords[i].price
    BY <2>3 DEF PaidInv
  <2> HIDE DEF n, p
  <2>10. AuctionPrice \in Int
    BY <2>6, <2>8
  <2>11. /\ DOMAIN emitted' = DOMAIN cbRecords
         /\ \A i \in DOMAIN cbRecords :
              emitted'[i] = [cbRecords[i] EXCEPT !.last_match_price = AuctionPrice]
    BY <2>4, <2>7 DEF FlushAuction
  <2>12. ASSUME NEW i \in DOMAIN cbRecords
         PROVE  /\ emitted'[i].last_match_price = AuctionPrice
                /\ emitted'[i].matched_type = cbRecords[i].matched_type
                /\ emitted'[i].last_match_quantity = cbRecords[i].last_match_quantity
                /\ emitted'[i].price = cbRecords[i].price
    BY <2>5, <2>11 DEF Order
  <2> QED
    BY <2>3, <2>6, <2>8, <2>9, <2>10, <2>11, <2>12 DEF Sides
<1>2. QED
  BY <1>1, AuctionInductive, PTL DEF Spec, AuctionPaysMakers, A

-----------------------------------------------------------------------------
(* EngineRecovery: dumps, inserts and restarts of an engine that gets no stops. *)

\* Without stops there are no triggered ones: the taker is the order in hand.
Plain == taker = 0 /\ o.side \in Sides /\ \A i \in DOMAIN odrMap : odrMap[i].side \in Sides

\* A step of the engine without stops: ids rise, and an id is put into _odr_map only
\* for the order in hand, which got it when its match began.
PlainStep ==
  /\ Plain'
  /\ nextId' \in {nextId, nextId + 1}
  /\ \A i \in DOMAIN odrMap' : i \in DOMAIN odrMap \/ (pc = "match" /\ i = o.order_id)
  /\ pc' \in {"match", "fok"} =>
       o'.order_id = nextId \/ (pc \in {"match", "fok"} /\ o'.order_id = o.order_id)

\* No client sends a stop, so none is canceled or amended either.
LEMMA PlainRequests ==
  ASSUME NoStops
  PROVE  NoBothStops /\ \A r \in Requests : r.side \in Sides
<1>1. NoBothStops
  BY DEF NoStops, NoBothStops, Sides
<1>2. ASSUME NEW r \in Requests
      PROVE  r.side \in Sides
  <2>1. CASE r \in NewRequests
    BY <2>1 DEF NoStops
  <2>2. ASSUME NEW a \in AmendRequests, NEW id, r = [a EXCEPT !.order_id = id]
        PROVE  r.side \in Sides
    <3>1. a \in Order /\ a.side \in Sides
      BY RequestAssumption DEF NoStops
    <3> QED
      BY <2>2, <3>1 DEF Order
  <2>3. ASSUME NEW id, r = CancelRequest(id)
        PROVE  r.side \in Sides
    BY <2>3, DefaultFacts DEF CancelRequest, Order, Sides
  <2> QED
    BY <1>2, <2>1, <2>2, <2>3 DEF Requests
<1> QED
  BY <1>1, <1>2

\* No stop waits.
LEMMA PlainStores ==
  ASSUME IInv, ~corrupt, Plain
  PROVE  due = {} /\ \A s \in Sides : stopBook[s] = {}
<1>1. StopInv /\ sweep \in Sides
  BY DEF IInv, TypeOK
<1>2. \A s \in Sides : \A e : ~Waiting(s, e)
  BY DEF Waiting, Plain, Sides, StopSides
<1> QED
  BY <1>1, <1>2 DEF StopInv

\* Steps that start no match and add no order.
LEMMA PlainQuiet ==
  ASSUME IInv, ~corrupt, Plain, QuietStep
  PROVE  PlainStep
<1>1. UNCHANGED odrMap /\ pc' \notin {"match", "fok"}
  BY QuietFacts
<1>2. TypeOK /\ o \in Order
  BY DEF IInv, TypeOK
<1>3. nextId' \in {nextId, nextId + 1}
  BY DEF QuietStep, RejectNew, MatchDone, FokDone, MatchReturn, SweepReturn, FireReturn,
     CancelUnknown, RejectAmend, FlushAuction, Unlock, storeVars
<1>4. taker' = 0
  BY DEF Plain, QuietStep, RejectNew, MatchDone, FokDone, MatchReturn, SweepReturn, FireReturn,
     CancelUnknown, RejectAmend, FlushAuction, Unlock, NoCall, matchVars, callVars
<1>5. o'.side \in Sides
  <2>1. CASE RejectNew
    <3>1. o'.side = o.side
      BY <1>2, <2>1 DEF RejectNew, Order
    <3> QED
      BY <3>1 DEF Plain
  <2>2. CASE CancelUnknown \/ RejectAmend
    <3>1. o'.side = o.side
      BY <1>2, <2>2 DEF CancelUnknown, RejectAmend, Order
    <3> QED
      BY <3>1 DEF Plain
  <2>3. CASE Unlock
    BY <2>3, DefaultFacts DEF Unlock, NoCall, Sides
  <2>4. CASE MatchDone \/ FokDone \/ MatchReturn \/ SweepReturn \/ FireReturn \/ FlushAuction
    BY <2>4 DEF Plain, MatchDone, FokDone, MatchReturn, SweepReturn, FireReturn, FlushAuction, callVars
  <2> QED
    BY <2>1, <2>2, <2>3, <2>4 DEF QuietStep
<1> QED
  BY <1>1, <1>3, <1>4, <1>5 DEF PlainStep, Plain

\* The steps of a match.
LEMMA PlainMatch ==
  ASSUME JInv, ~corrupt, Plain, MatchTop \/ FokFill \/ FokCollect \/ KillStep \/ RestStep
  PROVE  PlainStep
<1>1. IInv /\ Calls
  BY DEF JInv, Calls
<1>2. CASE MatchTop \/ FokFill
  <2>1. PICK e \in OppBook, q \in Nat : Filled(e, q)
    BY <1>1, <1>2, FillCalls
  <2>2. nextId' = nextId + 1 /\ taker' = taker /\ pc' = pc /\ pc \in {"match", "fok"}
    BY <1>2 DEF MatchTop, FokFill, Fill, matchVars
  <2>3. Same(o', o) /\ \A i \in DOMAIN odrMap' : i \in DOMAIN odrMap /\ Same(odrMap'[i], odrMap[i])
    BY <2>1 DEF Filled
  <2> QED
    BY <2>2, <2>3 DEF PlainStep, Plain, Same
<1>3. CASE FokCollect
  BY <1>3 DEF FokCollect, storeVars, PlainStep, Plain
<1>4. CASE KillStep
  <2>1. /\ taker' = taker /\ pc' = "matched" /\ Same(o', o)
        /\ DOMAIN odrMap' = DOMAIN odrMap /\ \A i \in DOMAIN odrMap : i # taker => odrMap'[i] = odrMap[i]
    BY <1>1, <1>4, KillFacts
  <2>2. nextId' = nextId
    BY <1>4 DEF KillStep, CancelMakerOnly, CancelRemainder, CancelMarket, FokKill, CancelTaker
  <2>3. 0 \notin DOMAIN odrMap
    BY <1>1 DEF IInv, TypeOK
  <2> QED
    BY <2>1, <2>2, <2>3 DEF PlainStep, Plain, Same
<1>5. CASE RestStep
  <2>1. /\ taker' = taker /\ pc = "match" /\ pc' = "matched" /\ Same(o', o)
        /\ DOMAIN odrMap' = DOMAIN odrMap \cup {Taker.order_id}
        /\ \A i \in DOMAIN odrMap : i # Taker.order_id => odrMap'[i] = odrMap[i]
        /\ Same(odrMap'[Taker.order_id], Taker)
    BY <1>1, <1>5, RestFacts
  <2>2. nextId' = nextId
    BY <1>5 DEF RestStep, RestRemainder, RestRepriced, Rest
  <2>3. Taker = o
    BY DEF Plain, Taker
  <2>4. Plain'
    BY <2>1, <2>3 DEF Plain, Same
  <2> QED
    BY <2>1, <2>2, <2>3, <2>4 DEF PlainStep
<1> QED
  BY <1>2, <1>3, <1>4, <1>5

\* The steps of a cancel and of an amend.
LEMMA PlainCancel ==
  ASSUME KInv, ~corrupt, Plain,
         CancelParked \/ CancelResting \/ EraseCanceled \/ AmendInPlace \/ AmendReplace
  PROVE  PlainStep
<1>1. TypeOK /\ o \in Order
  BY DEF KInv, JInv, IInv, TypeOK
<1>2. CASE CancelParked \/ CancelResting
  <2>1. /\ UNCHANGED <<o, taker>> /\ pc' \in {"erase", "sweep"}
        /\ o.order_id \in DOMAIN odrMap /\ DOMAIN odrMap' = DOMAIN odrMap
        /\ \A i \in DOMAIN odrMap : i # o.order_id => odrMap'[i] = odrMap[i]
        /\ SameEntry(odrMap'[o.order_id], odrMap[o.order_id])
    BY <1>2, CancelFacts
  <2>2. nextId' = nextId
    BY <1>2 DEF CancelParked, CancelResting
  <2> QED
    BY <2>1, <2>2 DEF PlainStep, Plain, SameEntry
<1>3. CASE EraseCanceled
  <2>1. /\ taker' = taker /\ nextId' = nextId /\ pc' \in {"done", "new"}
        /\ odrMap' = Drop(odrMap, o.order_id)
        /\ o' = o \/ o' = [o EXCEPT !.order_id = 0, !.order_action = "NEW"]
    BY <1>3 DEF EraseCanceled, matchVars
  <2>2. o'.side = o.side
    BY <1>1, <2>1 DEF Order
  <2> QED
    BY <2>1, <2>2 DEF PlainStep, Plain, Drop
<1>4. CASE AmendInPlace \/ AmendReplace
  <2>1. taker' = taker /\ nextId' = nextId /\ pc' \in {"done", "cancel"} /\ o' = o
    BY <1>4 DEF AmendInPlace, AmendReplace, matchVars
  <2>2. DOMAIN odrMap' = DOMAIN odrMap
    BY <1>4 DEF AmendInPlace, AmendReplace
  <2>3. \A i \in DOMAIN odrMap : odrMap[i] \in Order
    BY <1>1 DEF TypeOK
  <2>4. \A i \in DOMAIN odrMap : odrMap'[i].side = odrMap[i].side
    BY <1>4, <2>3 DEF AmendInPlace, AmendReplace, Order
  <2> QED
    BY <2>1, <2>2, <2>4 DEF PlainStep, Plain
<1> QED
  BY <1>2, <1>3, <1>4

\* Every step of an engine that gets no stops.
LEMMA PlainWork ==
  ASSUME NoStops, KInv, ~corrupt, Plain, Next
  PROVE  PlainStep
<1>1. IInv /\ JInv /\ TypeOK /\ o \in Order
  BY DEF KInv, JInv, IInv, TypeOK
<1>2. ASSUME NEW r \in Requests, Handle(r) \/ HandleAuctionStop(r)
      PROVE  PlainStep
  <2>1. r.side \in Sides /\ r.order_action \in Actions
    BY PlainRequests, RequestActions
  <2>2. CASE Handle(r)
    BY <2>1, <2>2 DEF Handle, PlainStep, Plain, storeVars, matchVars, Actions
  <2>3. CASE HandleAuctionStop(r)
    BY <2>1, <2>3 DEF HandleAuctionStop, AuctionStop, Sides, StopSides
  <2> QED
    BY <1>2, <2>2, <2>3
<1>3. CASE StartStep
  <2>1. /\ taker' = taker /\ o.side \in Sides /\ o' = InitNewOrder(o) /\ nextId' = nextId + 1
        /\ odrMap' = odrMap
    <3>1. o.side \in Sides /\ o.side \notin StopSides
      BY DEF Plain, Sides, StopSides
    <3> QED
      BY <1>1, <1>3, <3>1, StartFacts
  <2>2. o'.side = o.side /\ o'.order_id = nextId
    BY <1>1, <2>1, InitFacts DEF TypeOK
  <2> QED
    BY <2>1, <2>2 DEF PlainStep, Plain
<1>4. ~(SweepStops \/ FireStop)
  BY <1>1, PlainStores DEF SweepStops, CollectStops, DueStops, FireStop, TypeOK
<1>5. CASE Step
  <2>1. QuietStep \/ StartStep \/ MatchTop \/ FokFill \/ KillStep \/ RestStep \/ FokCollect
        \/ SweepStops \/ FireStop \/ CancelParked \/ CancelResting \/ EraseCanceled
        \/ AmendReplace \/ AmendInPlace
    BY <1>5 DEF Step, QuietStep, StartStep, KillStep, RestStep
  <2> QED
    BY <1>1, <1>3, <1>4, <2>1, PlainQuiet, PlainMatch, PlainCancel
<1> QED
  BY <1>2, <1>5 DEF Next
\* Undefined behaviour needs a stop.
LEMMA NoStopNoCorrupt ==
  ASSUME NoStops, PricesAboveStop, KInv, ~corrupt, Plain, Next
  PROVE  ~corrupt'
<1>1. KInv'
  BY PlainRequests, PlacesOk
<1>2. corrupt' => pc = "cancel" /\ odrMap[o.order_id].side \in StopSides
  BY <1>1, CorruptStep
<1>3. CASE CancelParked \/ CancelResting
  <2>1. o.order_id \in DOMAIN odrMap
    BY <1>3 DEF CancelParked, CancelResting
  <2> QED
    BY <1>2, <2>1 DEF Plain, Sides, StopSides
<1>4. CASE ~(CancelParked \/ CancelResting)
  <2>1. SUFFICES ASSUME pc = "cancel" PROVE ~corrupt'
    BY <1>2
  <2> QED
    BY <2>1, <1>4 DEF Next, Step, Handle, HandleAuctionStop, RejectNew, NewBuySell, NewBuyStop,
       NewSellStop, NewBuySellStop, MatchTop, FokFill, CancelMakerOnly, CancelRemainder, CancelMarket,
       FokKill, RestRemainder, RestRepriced, MatchDone, FokDone, FokCollect, MatchReturn, SweepStops,
       CollectStops, SweepReturn, FireStop, FireReturn, CancelUnknown,
       EraseCanceled, RejectAmend, AmendInPlace, AmendReplace, FlushAuction, Unlock
<1> QED
  BY <1>3, <1>4

-----------------------------------------------------------------------------
EntryOf(ord) == <<ord.price, ord.order_id>>
Filed(orders, s) == {EntryOf(ord) : ord \in {x \in orders : x.side = s}}

\* What INSERT needs of an order: it is live, and it has the price and the limits of
\* an order that rests.
Restorable(ord) ==
  /\ ord \in Order /\ ord.side \in Sides
  /\ 0 < ord.order_id /\ ord.order_id < nextId
  /\ ord.remain_quantity > 0 /\ ord.order_state \in LiveStates
  /\ \A s \in Sides : StopLimit(s, ord) > STOP_PRICE + MiniTick
  /\ ord.price > STOP_PRICE /\ (ord.side = "SELL" => ord.price > STOP_PRICE + MiniTick)

\* The saved orders are those of the books that were saved.
SavedInv ==
  /\ \A ord \in saved : Restorable(ord)
  /\ \A x, y \in saved : x.order_id = y.order_id => x = y
  /\ \A s \in Sides : snap.book[s] = Filed(saved, s) /\ snap.stopBook[s] = {}

\* An order that is still to be inserted has an id that nothing else has.
PendingInv ==
  /\ pending \subseteq saved /\ (fresh => pending = {})
  /\ \A ord \in pending :
       /\ ord.order_id \notin DOMAIN odrMap
       /\ pc \in {"match", "fok"} => ord.order_id # o.order_id

\* As long as nobody else comes, the engine has the inserted orders and no other.
QuietInv ==
  (pending # {} /\ ~early) \/ fresh =>
    /\ pc = "idle"
    /\ DOMAIN odrMap = {ord.order_id : ord \in saved \ pending}
    /\ \A ord \in saved \ pending : odrMap[ord.order_id] = ord
    /\ \A s \in Sides : book[s] = Filed(saved \ pending, s)

\* Only an inserted order is in a pair that is crossed.
CrossInv ==
  \A b \in book["BUY"], a \in book["SELL"] :
    b[1] < a[1] \/ ((early \/ SavedCrossed) /\ (b[2] \in restored \/ a[2] \in restored))

RInv == ~corrupt /\ KInv /\ Plain /\ SavedInv /\ PendingInv /\ QuietInv /\ CrossInv

\* Between calls the books and _odr_map are the same orders.
LEMMA IdleOrders ==
  ASSUME KInv, ~corrupt, Plain, pc = "idle"
  PROVE  /\ \A i \in DOMAIN odrMap : Restorable(odrMap[i]) /\ odrMap[i].order_id = i
         /\ \A s \in Sides : book[s] = Filed({odrMap[i] : i \in DOMAIN odrMap}, s)
<1>1. TypeOK /\ RestingInv /\ Places /\ due = {} /\ \A s \in Sides : stopBook[s] = {}
  BY PlainStores DEF KInv, JInv, IInv, Places
<1>2. ASSUME NEW i \in DOMAIN odrMap
      PROVE  /\ odrMap[i].order_id = i /\ 0 < i /\ i < nextId /\ odrMap[i] \in Order
             /\ odrMap[i].side \in Sides /\ odrMap[i].side \notin StopSides
             /\ TradeSide(odrMap[i]) = odrMap[i].side
  <2>1. odrMap[i].side \in Sides
    BY DEF Plain
  <2> QED
    BY <1>1, <2>1 DEF TypeOK, Sides, StopSides, TradeSide
<1>3. ASSUME NEW i \in DOMAIN odrMap
      PROVE  /\ odrMap[i].order_state \in LiveStates
             /\ <<odrMap[i].price, i>> \in book[odrMap[i].side]
  BY <1>1, <1>2 DEF Places, FiledInv, Canceling
<1>4. ASSUME NEW i \in DOMAIN odrMap
      PROVE  Restorable(odrMap[i])
  <2> DEFINE ord == odrMap[i]
             e == <<ord.price, i>>
  <2>1. e \in book[ord.side] /\ e[1] = ord.price /\ e[2] = i /\ ord.side \in Sides
    BY <1>2, <1>3
  <2>2. ord.remain_quantity > 0
    BY <1>1, <2>1 DEF RestingInv
  <2>3. \A s \in Sides : StopLimit(s, ord) > STOP_PRICE + MiniTick
    BY <1>1 DEF Places, LimitInv
  <2>4. ord.side = "SELL" => ord.price > STOP_PRICE + MiniTick
    BY <1>1, <2>1 DEF Places, LimitInv
  <2>5. ord.side = "BUY" => ord.price > STOP_PRICE
    BY <1>1, <2>1 DEF Places, LimitInv
  <2>6. ord.price \in Int
    BY <1>2, FieldFacts
  <2>7. ord.price > STOP_PRICE
    BY <2>1, <2>4, <2>5, <2>6, SentinelAssumption, TickAssumption DEF Sides
  <2> QED
    BY <1>2, <1>3, <2>2, <2>3, <2>4, <2>7 DEF Restorable
<1>5. ASSUME NEW s \in Sides
      PROVE  book[s] = Filed({odrMap[i] : i \in DOMAIN odrMap}, s)
  <2>1. ASSUME NEW e \in book[s]
        PROVE  e \in Filed({odrMap[i] : i \in DOMAIN odrMap}, s)
    <3>1. e[2] \in DOMAIN odrMap /\ odrMap[e[2]].price = e[1] /\ TradeSide(odrMap[e[2]]) = s
      BY <1>1, <2>1 DEF RestingInv
    <3>2. e = <<e[1], e[2]>>
      BY <1>1, <2>1 DEF TypeOK, Entries
    <3>3. EntryOf(odrMap[e[2]]) = e /\ odrMap[e[2]].side = s
      BY <1>2, <3>1, <3>2 DEF EntryOf
    <3> QED
      BY <3>1, <3>3 DEF Filed
  <2>2. ASSUME NEW e \in Filed({odrMap[i] : i \in DOMAIN odrMap}, s)
        PROVE  e \in book[s]
    <3>1. PICK i \in DOMAIN odrMap : odrMap[i].side = s /\ e = EntryOf(odrMap[i])
      BY <2>2 DEF Filed
    <3> QED
      BY <1>2, <1>3, <3>1 DEF EntryOf
  <2> QED
    BY <2>1, <2>2
<1> QED
  BY <1>2, <1>4, <1>5

\* Restorable and what is saved do not depend on more than nextId.
LEMMA SavedKept ==
  ASSUME SavedInv, UNCHANGED <<saved, snap>>, nextId \in Nat, nextId' \in Nat, nextId <= nextId'
  PROVE  SavedInv'
<1>1. ASSUME NEW ord \in saved
      PROVE  Restorable(ord)'
  <2>1. Restorable(ord)
    BY DEF SavedInv
  <2>2. ord.order_id \in Nat
    BY <2>1, FieldFacts DEF Restorable
  <2> QED
    BY <2>1, <2>2 DEF Restorable
<1> QED
  BY <1>1 DEF SavedInv, Filed

\* DUMP.
LEMMA DumpOk ==
  ASSUME NoStops, PricesAboveStop, RInv, Dump
  PROVE  RInv'
<1>1. UNCHANGED vars /\ pc = "idle" /\ pending' = {} /\ fresh' = FALSE /\ UNCHANGED <<restored, early>>
      /\ saved' = {odrMap[i] : i \in DOMAIN odrMap}
      /\ snap' = [book |-> book, stopBook |-> stopBook]
  BY DEF Dump
<1>2. ~corrupt' /\ KInv' /\ Plain'
  <2>1. ~corrupt' /\ Plain'
    BY <1>1 DEF RInv, Plain, vars, engineVars, callVars
  <2>2. KInv'
    BY <1>1, PlainRequests, PlacesOk DEF RInv
  <2> QED
    BY <2>1, <2>2
<1>3. SavedInv'
  <2>1. /\ \A i \in DOMAIN odrMap : Restorable(odrMap[i]) /\ odrMap[i].order_id = i
        /\ \A s \in Sides : book[s] = Filed(saved', s)
    BY <1>1, IdleOrders DEF RInv
  <2>2. \A s \in Sides : stopBook[s] = {}
    BY PlainStores DEF RInv, KInv, JInv
  <2>3. nextId' = nextId
    BY <1>1 DEF vars, engineVars
  <2>4. \A ord \in saved' : Restorable(ord)'
    BY <1>1, <2>1, <2>3 DEF Restorable
  <2> QED
    BY <1>1, <2>1, <2>2, <2>4 DEF SavedInv, Filed
<1>4. PendingInv' /\ QuietInv'
  BY <1>1 DEF PendingInv, QuietInv
<1>5. CrossInv'
  <2>1. book' = book /\ restored' = restored /\ snap'.book = book
    BY <1>1 DEF vars, engineVars
  <2>2. ASSUME NEW b \in book["BUY"], NEW a \in book["SELL"], ~(b[1] < a[1])
        PROVE  SavedCrossed' /\ (b[2] \in restored \/ a[2] \in restored)
    <3>1. b[1] \in Int /\ a[1] \in Int
      BY DEF RInv, KInv, JInv, IInv, TypeOK, Entries, Sides
    <3>2. SavedCrossed'
      BY <2>1, <2>2, <3>1 DEF SavedCrossed
    <3> QED
      BY <2>2, <3>2 DEF RInv, CrossInv
  <2> QED
    BY <2>1, <2>2 DEF CrossInv
<1> QED
  BY <1>2, <1>3, <1>4, <1>5 DEF RInv

\* A new process starts empty.
LEMMA EmptyPlaces ==
  ASSUME NoBothStops, PricesAboveStop
  PROVE  Empty' => KInv'
<1>1. Empty => KInv
  BY PlacesInit
<1> QED
  BY <1>1, PTL

\* The process dies and another one starts.
LEMMA RestartOk ==
  ASSUME NoStops, PricesAboveStop, RInv, Restart
  PROVE  RInv'
<1>1. nextId \in Nat /\ nextId > 0 /\ UNCHANGED <<nextId, saved, snap>>
  BY DEF Restart, RInv, KInv, JInv, IInv, TypeOK
<1>2. Empty'
  BY <1>1 DEF Restart, NoCall, Empty
<1>3. KInv' /\ ~corrupt'
  BY <1>2, PlainRequests, EmptyPlaces DEF Empty
<1>4. DOMAIN odrMap' = {} /\ pc' = "idle" /\ \A s \in Sides : book'[s] = {}
  BY DEF Restart
<1>5. Plain'
  BY <1>4, DefaultFacts DEF Restart, NoCall, Plain, Sides
<1>6. SavedInv'
  BY <1>1, SavedKept DEF RInv
<1>7. PendingInv'
  BY <1>4 DEF PendingInv, Restart
<1>8. QuietInv'
  BY <1>4 DEF QuietInv, Restart, Filed
<1>9. CrossInv'
  BY <1>4 DEF CrossInv, Sides
<1> QED
  BY <1>3, <1>5, <1>6, <1>7, <1>8, <1>9 DEF RInv

\* The engine serves a client.
LEMMA WorkOk ==
  ASSUME NoStops, PricesAboveStop, RInv, Work
  PROVE  RInv'
<1>1. /\ Next /\ UNCHANGED <<saved, snap, pending, restored>> /\ fresh' = FALSE
      /\ early' = (early \/ (pending # {} /\ pc = "idle"))
  BY DEF Work, Noted
<1>2. KInv' /\ TypeOK /\ TypeOK'
  <2>1. KInv'
    BY <1>1, PlainRequests, PlacesOk DEF RInv
  <2> QED
    BY <2>1 DEF RInv, KInv, JInv, IInv
<1>3. ~corrupt' /\ PlainStep
  BY <1>1, NoStopNoCorrupt, PlainWork DEF RInv
<1>4. nextId \in Nat /\ nextId' \in Nat /\ nextId <= nextId'
  BY <1>2, <1>3 DEF TypeOK, PlainStep
<1>5. SavedInv'
  BY <1>1, <1>4, SavedKept DEF RInv
<1>6. PendingInv'
  <2>1. ASSUME NEW ord \in pending
        PROVE  /\ ord.order_id \notin DOMAIN odrMap'
               /\ pc' \in {"match", "fok"} => ord.order_id # o'.order_id
    <3>1. /\ ord.order_id \notin DOMAIN odrMap
          /\ pc \in {"match", "fok"} => ord.order_id # o.order_id
          /\ ord \in saved
      BY DEF RInv, PendingInv
    <3>2. ord.order_id \in Nat /\ ord.order_id < nextId
      BY <3>1, FieldFacts DEF RInv, SavedInv, Restorable
    <3> QED
      BY <1>3, <1>4, <3>1, <3>2 DEF PlainStep
  <2> QED
    BY <1>1, <2>1 DEF RInv, PendingInv
<1>7. QuietInv'
  BY <1>1 DEF RInv, QuietInv
<1>8. CrossInv'
  <2>1. TypeOK /\ CallInv /\ RestingInv
    BY DEF RInv, KInv, JInv, IInv
  <2>2. ASSUME NEW b \in book'["BUY"], NEW a \in book'["SELL"]
        PROVE  b[1] < a[1] \/ (b \in book["BUY"] /\ a \in book["SELL"])
    BY <1>1, <2>1, NoNewCross
  <2>3. SavedCrossed' <=> SavedCrossed
    BY <1>1 DEF SavedCrossed
  <2> QED
    BY <1>1, <2>2, <2>3 DEF RInv, CrossInv
<1> QED
  BY <1>2, <1>3, <1>5, <1>6, <1>7, <1>8 DEF RInv, PlainStep

\* INSERT of an order: a step of the stores in which one order comes to its book.
LEMMA InsertFacts ==
  ASSUME RInv, NEW ord \in pending, Insert(ord)
  PROVE  /\ ord \in saved /\ Restorable(ord) /\ ord.order_id \notin DOMAIN odrMap
         /\ odrMap' = Put(odrMap, ord.order_id, ord)
         /\ book' = [book EXCEPT ![ord.side] = @ \cup {EntryOf(ord)}]
         /\ stopBook' = stopBook /\ emitted' = <<ord>>
<1>1. ord \in saved /\ Restorable(ord) /\ ord.order_id \notin DOMAIN odrMap
  BY DEF RInv, PendingInv, SavedInv
<1>2. ~ParkedByInsert(ord) /\ ord.side \in Sides /\ ord.side \notin StopSides
  BY <1>1 DEF Restorable, ParkedByInsert, Sides, StopSides
<1>3. RestingSide(ord) = ord.side
  BY <1>2 DEF RestingSide, Sides
<1> QED
  BY <1>1, <1>2, <1>3 DEF Insert, AsInserted, BookWith, StopBookWith, EntryOf

\* The places of the orders when one is inserted.
LEMMA InsertPlaces ==
  ASSUME PricesAboveStop, RInv, NEW ord \in pending, Insert(ord)
  PROVE  KInv' /\ ~corrupt' /\ Plain'
<1> DEFINE id == ord.order_id
<1>1. /\ Restorable(ord) /\ id \notin DOMAIN odrMap
      /\ odrMap' = Put(odrMap, id, ord)
      /\ book' = [book EXCEPT ![ord.side] = @ \cup {EntryOf(ord)}]
      /\ stopBook' = stopBook /\ emitted' = <<ord>>
  BY InsertFacts
<1>2. ~corrupt /\ KInv /\ JInv /\ IInv /\ TypeOK /\ Plain
  BY DEF RInv, KInv, JInv, IInv
<1>3. /\ pc = "idle" /\ UNCHANGED <<nextId, isAuction, mutex, cbRecords, corrupt>>
      /\ UNCHANGED <<pc, o, taker, mside, sweep, due, left, plan>>
  BY DEF Insert, lockVars, callVars
<1>4. /\ ord \in Order /\ ord.side \in Sides /\ id \in Nat /\ 0 < id /\ id < nextId
      /\ ord.remain_quantity > 0 /\ ord.order_state \in LiveStates /\ ord.price \in Int
  BY <1>1, FieldFacts DEF Restorable
<1>5. /\ DOMAIN odrMap' = DOMAIN odrMap \cup {id} /\ odrMap'[id] = ord
      /\ \A i \in DOMAIN odrMap : i # id /\ odrMap'[i] = odrMap[i]
  BY <1>1 DEF Put
<1>6. EntryOf(ord) \in Entries /\ EntryOf(ord)[1] = ord.price /\ EntryOf(ord)[2] = id
  BY <1>4 DEF EntryOf, Entries
<1>7. \A s \in Sides : book'[s] = IF s = ord.side THEN book[s] \cup {EntryOf(ord)} ELSE book[s]
  BY <1>1, <1>2 DEF TypeOK
<1>8. due = {} /\ \A s \in Sides : stopBook[s] = {} /\ stopBook'[s] = {}
  BY <1>1, <1>2, PlainStores
<1>9. Plain'
  BY <1>2, <1>3, <1>4, <1>5 DEF Plain
<1>10. TypeOK'
  <2>1. odrMap' \in [DOMAIN odrMap' -> Order]
    <3>1. \A i \in DOMAIN odrMap' : odrMap'[i] \in Order
      BY <1>2, <1>4, <1>5 DEF TypeOK
    <3>2. odrMap' = [i \in DOMAIN odrMap' |-> odrMap'[i]]
      BY <1>1 DEF Put
    <3> QED
      BY <3>1, <3>2
  <2>2. \A i \in DOMAIN odrMap' :
          odrMap'[i].order_id = i /\ i \in Nat /\ 0 < i /\ i < nextId'
    BY <1>2, <1>3, <1>4, <1>5 DEF TypeOK
  <2>3. book' \in [Sides -> SUBSET Entries] /\ stopBook' \in [Sides -> SUBSET Entries]
    <3>1. \A s \in Sides : book'[s] \in SUBSET Entries
      <4>1. ASSUME NEW s \in Sides
            PROVE  book'[s] \in SUBSET Entries
        <5>1. book[s] \in SUBSET Entries
          BY <1>2 DEF TypeOK
        <5>2. book'[s] = book[s] \cup {EntryOf(ord)} \/ book'[s] = book[s]
          BY <1>7
        <5> QED
          BY <1>6, <5>1, <5>2
      <4> QED
        BY <4>1
    <3>2. book' = [s \in Sides |-> book'[s]]
      BY <1>1, <1>2 DEF TypeOK
    <3> QED
      BY <1>1, <1>2, <3>1, <3>2 DEF TypeOK
  <2>4. emitted' \in Seq(Order)
    BY <1>1, <1>4
  <2> QED
    BY <1>2, <1>3, <2>1, <2>2, <2>3, <2>4 DEF TypeOK
<1>11. IInv'
  <2>1. CallInv /\ RestingInv /\ StopInv /\ ApartInv /\ PlanInv /\ FokInv
    BY <1>2 DEF IInv
  <2>2. CallInv'
    BY <1>3, <1>5, <1>9, <2>1, <1>4 DEF CallInv, Plain, Sides
  <2>3. RestingInv'
    <3>1. ASSUME NEW s \in Sides, NEW e \in book'[s]
          PROVE  /\ e[2] \in DOMAIN odrMap' /\ odrMap'[e[2]].price = e[1]
                 /\ TradeSide(odrMap'[e[2]]) = s /\ odrMap'[e[2]].remain_quantity > 0
      <4>1. CASE e \in book[s]
        BY <1>5, <2>1, <4>1 DEF RestingInv
      <4>2. CASE e \notin book[s]
        <5>1. e = EntryOf(ord) /\ s = ord.side
          BY <1>7, <3>1, <4>2
        <5> QED
          BY <1>4, <1>5, <1>6, <5>1 DEF TradeSide, Sides
      <4> QED
        BY <4>1, <4>2
    <3> QED
      BY <3>1 DEF RestingInv
  <2>4. StopInv' /\ ApartInv'
    BY <1>3, <1>8 DEF StopInv, ApartInv
  <2>5. PlanInv' /\ FokInv'
    BY <1>3 DEF PlanInv, FokInv, FokAllOrNothing
  <2> QED
    BY <1>10, <2>2, <2>3, <2>4, <2>5 DEF IInv
<1>12. JInv'
  BY <1>3, <1>11 DEF JInv, StopsLeftBehind, FiredInv, RecordedInv, PassInv, SecondPass, Plain
<1>13. LimitInv /\ LiveInv /\ FiledInv
  BY <1>2 DEF KInv
<1>14. LimitInv'
  <2>1. \A i \in DOMAIN odrMap' : \A s \in Sides : StopLimit(s, odrMap'[i]) > STOP_PRICE + MiniTick
    BY <1>1, <1>5, <1>13 DEF LimitInv, Restorable
  <2>2. /\ \A e \in book'["SELL"] : e[1] > STOP_PRICE + MiniTick
        /\ \A e \in book'["BUY"] : e[1] > STOP_PRICE
    BY <1>1, <1>6, <1>7, <1>13 DEF LimitInv, Restorable, Sides
  <2>3. /\ \A s \in Sides : StopLimit(s, o)' > STOP_PRICE + MiniTick
        /\ (pc' = "new" \/ o'.order_action # "NEW") /\ o'.side \in Sides =>
             o'.price > STOP_PRICE + MiniTick
    BY <1>3, <1>13 DEF LimitInv, StopLimit
  <2> QED
    BY <1>3, <1>8, <2>1, <2>2, <2>3 DEF LimitInv
<1>15. LiveInv'
  <2>1. ASSUME NEW s \in Sides, NEW e \in book'[s]
        PROVE  odrMap'[e[2]].order_state \in LiveStates
    <3>1. CASE e \in book[s]
      BY <1>2, <1>5, <1>13, <3>1 DEF LiveInv, IInv, RestingInv
    <3>2. CASE e \notin book[s]
      BY <1>4, <1>5, <1>6, <1>7, <2>1, <3>2
    <3> QED
      BY <3>1, <3>2
  <2> QED
    BY <1>3, <1>8, <2>1 DEF LiveInv
<1>16. FiledInv'
  <2>1. ~Canceling /\ ~Canceling'
    BY <1>3 DEF Canceling
  <2>2. ASSUME NEW i \in DOMAIN odrMap'
        PROVE  /\ odrMap'[i].order_state \in LiveStates
               /\ <<odrMap'[i].price, i>> \in book'[TradeSide(odrMap'[i])]
    <3>1. CASE i = id
      <4>1. TradeSide(ord) = ord.side
        BY <1>4 DEF TradeSide, Sides
      <4> QED
        BY <1>4, <1>5, <1>7, <3>1, <4>1 DEF EntryOf
    <3>2. CASE i \in DOMAIN odrMap
      <4>1. /\ odrMap[i].order_state \in LiveStates
            /\ <<odrMap[i].price, i>> \in book[TradeSide(odrMap[i])]
        <5>1. odrMap[i].side \notin StopSides
          BY <1>2, <3>2 DEF Plain, Sides, StopSides
        <5> QED
          BY <1>3, <1>13, <2>1, <3>2, <5>1 DEF FiledInv
      <4>2. TradeSide(odrMap[i]) \in Sides
        BY DEF TradeSide, Sides
      <4> QED
        BY <1>5, <1>7, <3>2, <4>1, <4>2
    <3> QED
      BY <1>5, <3>1, <3>2
  <2> QED
    BY <2>1, <2>2 DEF FiledInv
<1> QED
  BY <1>2, <1>3, <1>9, <1>12, <1>14, <1>15, <1>16 DEF KInv

\* INSERT.
LEMMA InsertOk ==
  ASSUME PricesAboveStop, RInv, NEW ord \in pending, Insert(ord)
  PROVE  RInv'
<1>1. /\ ord \in saved /\ Restorable(ord) /\ ord.order_id \notin DOMAIN odrMap
      /\ odrMap' = Put(odrMap, ord.order_id, ord)
      /\ book' = [book EXCEPT ![ord.side] = @ \cup {EntryOf(ord)}]
  BY InsertFacts
<1>2. KInv' /\ ~corrupt' /\ Plain'
  BY InsertPlaces
<1>3. /\ pc = "idle" /\ pc' = "idle" /\ nextId' = nextId
      /\ UNCHANGED <<saved, snap, early>>
      /\ pending' = pending \ {ord} /\ restored' = restored \cup {ord.order_id}
      /\ fresh' = (pending' = {} /\ ~early)
  BY DEF Insert, callVars
<1>4. TypeOK /\ nextId \in Nat /\ ord.side \in Sides
  BY <1>1 DEF RInv, KInv, JInv, IInv, TypeOK, Restorable
<1>5. SavedInv'
  BY <1>3, <1>4, SavedKept DEF RInv
<1>6. PendingInv'
  <2>1. ASSUME NEW x \in pending'
        PROVE  x.order_id \notin DOMAIN odrMap'
    <3>1. x.order_id # ord.order_id
      BY <1>1, <1>3, <2>1 DEF RInv, PendingInv, SavedInv
    <3> QED
      BY <1>1, <1>3, <2>1, <3>1 DEF RInv, PendingInv, Put
  <2> QED
    BY <1>3, <2>1 DEF RInv, PendingInv
<1>7. \A s \in Sides : book'[s] = IF s = ord.side THEN book[s] \cup {EntryOf(ord)} ELSE book[s]
  BY <1>1, <1>4 DEF TypeOK
<1>8. ASSUME ~early
      PROVE  /\ DOMAIN odrMap' = {x.order_id : x \in saved \ pending'}
             /\ \A x \in saved \ pending' : odrMap'[x.order_id] = x
             /\ \A s \in Sides : book'[s] = Filed(saved \ pending', s)
  <2>1. /\ DOMAIN odrMap = {x.order_id : x \in saved \ pending}
        /\ \A x \in saved \ pending : odrMap[x.order_id] = x
        /\ \A s \in Sides : book[s] = Filed(saved \ pending, s)
    BY <1>8 DEF RInv, QuietInv
  <2>2. saved \ pending' = (saved \ pending) \cup {ord}
    BY <1>1, <1>3
  <2>3. DOMAIN odrMap' = {x.order_id : x \in saved \ pending'}
    BY <1>1, <2>1, <2>2 DEF Put
  <2>4. \A x \in saved \ pending' : odrMap'[x.order_id] = x
    BY <1>1, <2>1, <2>2 DEF Put
  <2>5. ASSUME NEW s \in Sides
        PROVE  book'[s] = Filed(saved \ pending', s)
    <3>1. Filed(saved \ pending', s)
            = Filed(saved \ pending, s) \cup (IF ord.side = s THEN {EntryOf(ord)} ELSE {})
      BY <2>2 DEF Filed
    <3> QED
      BY <1>7, <2>1, <3>1
  <2> QED
    BY <2>3, <2>4, <2>5
<1>9. QuietInv'
  BY <1>3, <1>8 DEF QuietInv
<1>10. CrossInv'
  <2>1. SUFFICES ASSUME NEW b \in book'["BUY"], NEW a \in book'["SELL"], ~(b[1] < a[1])
                 PROVE  (early \/ SavedCrossed) /\ (b[2] \in restored' \/ a[2] \in restored')
    BY <1>3 DEF CrossInv, SavedCrossed
  <2>2. CASE b \in book["BUY"] /\ a \in book["SELL"]
    BY <1>3, <2>1, <2>2 DEF RInv, CrossInv
  <2>3. CASE ~(b \in book["BUY"] /\ a \in book["SELL"])
    <3>1. b[2] = ord.order_id \/ a[2] = ord.order_id
      BY <1>7, <2>1, <2>3 DEF EntryOf, Sides
    <3>2. CASE ~early
      <4>1. ASSUME NEW s \in Sides, NEW e \in book'[s]
            PROVE  e \in snap.book[s]
        BY <1>1, <1>3, <1>8, <3>2, <4>1 DEF RInv, SavedInv, PendingInv, Filed
      <4>2. b \in snap.book["BUY"] /\ a \in snap.book["SELL"]
        BY <2>1, <4>1 DEF Sides
      <4>3. b[1] \in Int /\ a[1] \in Int
        BY <1>2, <2>1 DEF KInv, JInv, IInv, TypeOK, Entries, Sides
      <4>4. b[1] >= a[1]
        BY <2>1, <4>3
      <4> QED
        BY <1>3, <3>1, <4>2, <4>4 DEF SavedCrossed
    <3> QED
      BY <1>3, <3>1, <3>2
  <2> QED
    BY <2>2, <2>3
<1> QED
  BY <1>2, <1>5, <1>6, <1>9, <1>10 DEF RInv

\* RInv is an invariant.
THEOREM RecoveryInductive ==
  ASSUME NoStops, PricesAboveStop
  PROVE  RecoverySpec => []RInv
<1>1. RecoveryInit => RInv
  <2>1. SUFFICES ASSUME RecoveryInit PROVE RInv
    OBVIOUS
  <2>2. Empty /\ KInv
    BY <2>1, InitEmpty, PlainRequests, PlacesInit DEF RecoveryInit
  <2>3. Plain
    BY <2>2, DefaultFacts DEF Empty, Plain, Sides
  <2>4. SavedInv /\ PendingInv /\ QuietInv /\ CrossInv
    BY <2>1, <2>2 DEF Empty, RecoveryInit, SavedInv, PendingInv, QuietInv, CrossInv, Filed, Sides
  <2> QED
    BY <2>2, <2>3, <2>4 DEF Empty, RInv
<1>2. RInv /\ [RecoveryNext]_allVars => RInv'
  <2>1. SUFFICES ASSUME RInv, [RecoveryNext]_allVars PROVE RInv'
    OBVIOUS
  <2>2. CASE UNCHANGED allVars
    <3>1. UNCHANGED vars /\ UNCHANGED recoveryVars
      BY <2>2 DEF allVars
    <3>2. KInv'
      BY <2>1, <3>1, PlainRequests, PlacesOk DEF RInv
    <3>3. ~corrupt' /\ Plain' /\ nextId' = nextId
      BY <2>1, <3>1 DEF RInv, Plain, vars, engineVars, callVars
    <3>4. SavedInv' /\ PendingInv' /\ QuietInv' /\ CrossInv'
      <4> USE DEF vars, engineVars, callVars, recoveryVars
      <4>1. SavedInv'
        BY <2>1, <3>1 DEF RInv, SavedInv, Restorable
      <4>2. PendingInv' /\ QuietInv'
        BY <2>1, <3>1 DEF RInv, PendingInv, QuietInv
      <4>3. CrossInv'
        BY <2>1, <3>1 DEF RInv, CrossInv, SavedCrossed
      <4> QED
        BY <4>1, <4>2, <4>3
    <3> QED
      BY <3>2, <3>3, <3>4 DEF RInv
  <2> QED
    BY <2>1, <2>2, DumpOk, InsertOk, RestartOk, WorkOk DEF RecoveryNext
<1> QED
  BY <1>1, <1>2, PTL DEF RecoverySpec

\* When the last saved order has been inserted and nobody else has been there, the
\* engine has the saved orders, with their contents, where DUMP found them.
THEOREM RestoredAsSavedHolds ==
  ASSUME NoStops, PricesAboveStop
  PROVE  RecoverySpec => []RestoredAsSaved
<1>1. RInv => RestoredAsSaved
  <2>1. SUFFICES ASSUME RInv, fresh
                 PROVE  /\ DOMAIN odrMap = {ord.order_id : ord \in saved}
                        /\ \A ord \in saved : odrMap[ord.order_id] = ord
                        /\ book["BUY"] = snap.book["BUY"] /\ book["SELL"] = snap.book["SELL"]
                        /\ \A s \in Sides : stopBook[s] = {} /\ snap.stopBook[s] = {}
    BY DEF RestoredAsSaved, EntriesOf, Sides
  <2>2. saved \ pending = saved
    BY <2>1 DEF RInv, PendingInv
  <2>3. /\ DOMAIN odrMap = {ord.order_id : ord \in saved}
        /\ \A ord \in saved : odrMap[ord.order_id] = ord
        /\ \A s \in Sides : book[s] = Filed(saved, s)
    BY <2>1, <2>2 DEF RInv, QuietInv
  <2>4. \A s \in Sides : snap.book[s] = Filed(saved, s) /\ snap.stopBook[s] = {}
    BY <2>1 DEF RInv, SavedInv
  <2>5. \A s \in Sides : stopBook[s] = {}
    BY <2>1, PlainStores DEF RInv, KInv, JInv
  <2> QED
    BY <2>3, <2>4, <2>5 DEF Sides
<1> QED
  BY <1>1, RecoveryInductive, PTL

\* INSERT crosses the books only when somebody came before the last one, or when
\* the books that were saved were crossed already.
THEOREM CrossedOnlyByRestoreHolds ==
  ASSUME NoStops, PricesAboveStop
  PROVE  RecoverySpec => []CrossedOnlyByRestore
<1>1. RInv => CrossedOnlyByRestore
  <2>1. SUFFICES ASSUME RInv, NEW b \in book["BUY"], NEW a \in book["SELL"]
                 PROVE  \/ PriceOf(b) < PriceOf(a)
                        \/ \E e \in {a, b} : e[2] \in restored /\ (early \/ SavedCrossed)
    BY DEF CrossedOnlyByRestore
  <2>2. PriceOf(b) = b[1] /\ PriceOf(a) = a[1]
    BY <2>1 DEF RInv, KInv, JInv, IInv, RestingInv, PriceOf, Sides
  <2> QED
    BY <2>1, <2>2 DEF RInv, CrossInv
<1> QED
  BY <1>1, RecoveryInductive, PTL

-----------------------------------------------------------------------------
(* The market-data book behind the engine.                                 *)
(*                                                                         *)
(* Untold and Due say, of the engine's stores alone, which orders a book   *)
(* has to count and with how much; FeedInv says that a book that receives  *)
(* all that is under way counts that much of each, at the one level the    *)
(* order ever has.  A step of the engine keeps it because it is Truthful:  *)
(* what it changes of Due is what its messages say.                        *)

\* A market order goes to a book after a part of it was filled.
MarketStays ==
  /\ pc = "match" /\ Taker.price = MARKET_PRICE /\ Taker.remain_quantity < Taker.quantity
  /\ \E p \in Int : <<p, Taker.order_id>> \in book'[mside]

\* The numbers that the market-data book adds up stay in its range.
QuantitiesFit == SumOver(mdOrders, DOMAIN mdOrders) < QuantityModulus

\* The order that is being matched; it is not in _odr_map unless it is a stop.
InHand(i) == pc \in {"match", "fok"} /\ Taker.order_id = i
Known(i) == i \in DOMAIN odrMap \/ InHand(i)
OrderAt(i) == IF i \in DOMAIN odrMap THEN odrMap[i] ELSE o

\* No message has counted the order yet: its id is to come, it waits as a stop, or
\* it is being matched and nothing of it was filled.
Untold(i) ==
  \/ i >= nextId
  \/ i \in DOMAIN odrMap /\ odrMap[i].price = STOP_PRICE
  \/ InHand(i) /\ Taker.remain_quantity = Taker.quantity

\* What the book is to count of an order when it has received everything.
Due(i) == IF Untold(i) \/ ~Known(i) THEN 0 ELSE CalcRemainQuantity(OrderAt(i))

\* The order has ended.
Gone(i) == i < nextId /\ ~Known(i)

\* The level of an order.
Spots == Sides \X Int
Spot(ord) == <<TradeSide(ord), ord.price>>

\* A message that makes the book count its order, or not count it any more.
Says(m) == m.price # STOP_PRICE /\ m.order_state \notin RejectStates
About(m, i) == Says(m) /\ m.order_id = i

Has(i) == IF i \in DOMAIN mdOrders THEN mdOrders[i] ELSE 0

\* A book that counts h of order i counts q of it after the messages w.
Tells(h, w, i, q) ==
  \/ \E k \in DOMAIN w : /\ About(w[k], i) /\ CalcRemainQuantity(w[k]) = q
                         /\ \A j \in DOMAIN w : j > k => ~About(w[j], i)
  \/ (\A k \in DOMAIN w : ~About(w[k], i)) /\ h = q

\* What is under way to the book: sent, or kept until the end of an auction.
Pending == wire \o cbRecords

\* What the engine's part of the argument needs besides KInv: how much is left of an
\* order in hand.
TakerInv ==
  /\ pc \in {"match", "fok"} =>
       Taker.remain_quantity <= Taker.quantity /\ 0 < Taker.quantity
  /\ pc = "match" /\ Taker.time_condition = "MAKER_ONLY_REPRICE" =>
       Taker.remain_quantity = Taker.quantity
  /\ pc = "fok" => \A k \in DOMAIN plan : plan[k].quantity > 0
RecordsInv == (~isAuction => cbRecords = <<>>) /\ (pc = "idle" => ~isAuction)

\* Every order that was told of is at one level for good.
SpotsInv(at) ==
  /\ \A i \in Nat : Known(i) /\ ~Untold(i) => at[i] = Spot(OrderAt(i))
  /\ \A i \in DOMAIN mdOrders : ~Untold(i)
Faithful(m, at) ==
  Says(m) => /\ m.order_id \in Nat /\ ~Untold(m.order_id)
             /\ at[m.order_id] = Spot(m) /\ m.side # "BUY_SELL_STOP"
UnderWayInv(at) == \A k \in DOMAIN Pending : Faithful(Pending[k], at)

At(at, sp) == {i \in DOMAIN mdOrders : at[i] = sp}
LevelsInv(at) ==
  \A s \in Sides : \A p \in Int :
    /\ p \in DOMAIN mdBook[s] <=> At(at, <<s, p>>) # {}
    /\ p \in DOMAIN mdBook[s] => mdBook[s][p] = SumOver(mdOrders, At(at, <<s, p>>))

ToldInv == up => \A i \in Nat : Tells(Has(i), Pending, i, Due(i)) \/ (cuts > 0 /\ Gone(i))
DownInv == ~up => wire = <<>> /\ (cuts = 0 => DOMAIN mdOrders = {})

FeedTypeOK ==
  /\ up \in BOOLEAN /\ wire \in Seq(Order) /\ cuts \in Nat
  /\ IsFiniteSet(DOMAIN mdOrders) /\ DOMAIN mdOrders \subseteq Nat
  /\ mdOrders = [i \in DOMAIN mdOrders |-> mdOrders[i]]
  /\ \A i \in DOMAIN mdOrders : mdOrders[i] \in Nat \ {0}
  /\ mdBook = [s \in Sides |-> mdBook[s]]
  /\ \A s \in Sides : /\ DOMAIN mdBook[s] \subseteq Int
                      /\ mdBook[s] = [p \in DOMAIN mdBook[s] |-> mdBook[s][p]]
  /\ mdCorrupt \in BOOLEAN /\ misled \in BOOLEAN

BookInv(at) ==
  /\ SpotsInv(at) /\ UnderWayInv(at) /\ LevelsInv(at) /\ ToldInv /\ DownInv /\ ~mdCorrupt

FeedInv ==
  /\ KInv /\ TakerInv /\ RecordsInv
  /\ ~misled => FeedTypeOK /\ \E at \in [Nat -> Spots] : BookInv(at)

-----------------------------------------------------------------------------
\* What a step of the engine does to the orders, when it reports cbs; every order
\* it first tells of is at sp.
Told(cbs, sp) ==
  /\ \A i \in Nat : Untold(i)' => Untold(i)
  /\ \A i \in Nat : Known(i)' /\ ~Untold(i)' =>
       /\ Untold(i) => Spot(OrderAt(i))' = sp
       /\ ~Untold(i) => Known(i) /\ Spot(OrderAt(i))' = Spot(OrderAt(i))
  /\ \A k \in DOMAIN cbs : Says(cbs[k]) =>
       LET i == cbs[k].order_id
       IN /\ i \in Nat /\ ~Untold(i)' /\ cbs[k].side # "BUY_SELL_STOP"
          /\ Untold(i) => Spot(cbs[k]) = sp
          /\ ~Untold(i) => Known(i) /\ Spot(cbs[k]) = Spot(OrderAt(i))
  /\ \A i \in Nat :
       /\ \A k \in DOMAIN cbs : About(cbs[k], i) => Due(i)' = CalcRemainQuantity(cbs[k])
       /\ (\A k \in DOMAIN cbs : ~About(cbs[k], i)) => Due(i)' = Due(i)
       /\ Gone(i) => Gone(i)'

-----------------------------------------------------------------------------
\* Messages that the book cannot tell apart.
Alike(m, n) ==
  /\ m.order_id = n.order_id /\ m.price = n.price /\ m.side = n.side
  /\ m.order_state = n.order_state /\ m.remain_quantity = n.remain_quantity

Carries(cbs) ==
  /\ up => /\ DOMAIN Pending' = DOMAIN (Pending \o cbs)
           /\ \A k \in DOMAIN Pending' : Alike(Pending'[k], (Pending \o cbs)[k])
  /\ \A k \in DOMAIN Pending' : \E j \in DOMAIN (Pending \o cbs) :
        Alike(Pending'[k], (Pending \o cbs)[j])
  /\ ~up => wire' = <<>>

\* Messages that look alike to the book say the same.
LEMMA AlikeFacts ==
  ASSUME NEW m, NEW n, Alike(m, n)
  PROVE  /\ Says(m) <=> Says(n)
         /\ \A i : About(m, i) <=> About(n, i)
         /\ CalcRemainQuantity(m) = CalcRemainQuantity(n)
         /\ Spot(m) = Spot(n)
  BY DEF Alike, Says, About, CalcRemainQuantity, Spot, TradeSide

\* What a sequence of messages tells is told by one that looks alike.
LEMMA TellsAlike ==
  ASSUME NEW h, NEW w, NEW v, NEW i, NEW q, DOMAIN w = DOMAIN v,
         \A k \in DOMAIN w : Alike(w[k], v[k]), Tells(h, v, i, q)
  PROVE  Tells(h, w, i, q)
<1>1. \A k \in DOMAIN w : /\ About(w[k], i) <=> About(v[k], i)
                          /\ CalcRemainQuantity(w[k]) = CalcRemainQuantity(v[k])
  BY AlikeFacts
<1> QED
  BY <1>1 DEF Tells

\* One message more.
LEMMA TellsOne ==
  ASSUME NEW h, NEW S, NEW w \in Seq(S), NEW m \in S, NEW i, NEW q, Tells(h, w, i, q)
  PROVE  /\ About(m, i) => Tells(h, Append(w, m), i, CalcRemainQuantity(m))
         /\ ~About(m, i) => Tells(h, Append(w, m), i, q)
<1> DEFINE v == Append(w, m)
<1>1. /\ DOMAIN v = 1 .. Len(w) + 1 /\ DOMAIN w = 1 .. Len(w) /\ Len(w) \in Nat
      /\ v[Len(w) + 1] = m /\ \A k \in DOMAIN w : v[k] = w[k]
  OBVIOUS
<1> HIDE DEF v
<1>2. \A k \in DOMAIN v : k \in DOMAIN w \/ k = Len(w) + 1
  BY <1>1
<1>3. \A k \in DOMAIN w : k \in DOMAIN v /\ ~(k > Len(w) + 1) /\ k \in Int
  BY <1>1
<1>4. About(m, i) => Tells(h, v, i, CalcRemainQuantity(m))
  <2>1. \A j \in DOMAIN v : ~(j > Len(w) + 1)
    BY <1>1
  <2>2. Len(w) + 1 \in DOMAIN v
    BY <1>1
  <2> QED
    BY <1>1, <2>1, <2>2 DEF Tells
<1>5. ASSUME ~About(m, i) PROVE Tells(h, v, i, q)
  <2>1. CASE \A k \in DOMAIN w : ~About(w[k], i)
    <3>1. h = q
      BY <2>1 DEF Tells
    <3> QED
      BY <1>1, <1>2, <1>5, <2>1, <3>1 DEF Tells
  <2>2. CASE ~(\A k \in DOMAIN w : ~About(w[k], i))
    <3>1. PICK k \in DOMAIN w : /\ About(w[k], i) /\ CalcRemainQuantity(w[k]) = q
                                /\ \A j \in DOMAIN w : j > k => ~About(w[j], i)
      BY <2>2 DEF Tells
    <3>2. k \in DOMAIN v /\ About(v[k], i) /\ CalcRemainQuantity(v[k]) = q
      BY <1>1, <1>3, <3>1
    <3>3. \A j \in DOMAIN v : j > k => ~About(v[j], i)
      BY <1>1, <1>2, <1>5, <3>1
    <3> QED
      BY <3>2, <3>3 DEF Tells
  <2> QED
    BY <2>1, <2>2
<1> QED
  BY <1>4, <1>5 DEF v

\* One or two messages more.
Few(cbs, S) ==
  \/ cbs = <<>>
  \/ \E m \in S : cbs = <<m>>
  \/ \E m, n \in S : cbs = <<m, n>>

\* Two messages at most are a sequence.
LEMMA FewSeq ==
  ASSUME NEW S, NEW cbs, Few(cbs, S)
  PROVE  cbs \in Seq(S)
<1>1. CASE cbs = <<>>
  BY <1>1
<1>2. ASSUME NEW m \in S, cbs = <<m>> PROVE cbs \in Seq(S)
  BY <1>2
<1>3. ASSUME NEW m \in S, NEW n \in S, cbs = <<m, n>> PROVE cbs \in Seq(S)
  BY <1>3
<1> QED
  BY <1>1, <1>2, <1>3 DEF Few

\* What a step reports is added to what is under way.
LEMMA TellsOn ==
  ASSUME NEW h, NEW S, NEW w \in Seq(S), NEW cbs, Few(cbs, S), NEW i, NEW q, NEW r,
         Tells(h, w, i, q),
         \A k \in DOMAIN cbs : About(cbs[k], i) => r = CalcRemainQuantity(cbs[k]),
         (\A k \in DOMAIN cbs : ~About(cbs[k], i)) => r = q
  PROVE  Tells(h, w \o cbs, i, r)
<1>1. CASE cbs = <<>>
  <2>1. w \o cbs = w /\ r = q
    BY <1>1
  <2> QED
    BY <2>1
<1>2. ASSUME NEW m \in S, cbs = <<m>> PROVE Tells(h, w \o cbs, i, r)
  <2>1. w \o cbs = Append(w, m) /\ DOMAIN cbs = {1} /\ cbs[1] = m
    BY <1>2
  <2>2. r = IF About(m, i) THEN CalcRemainQuantity(m) ELSE q
    BY <2>1
  <2> QED
    BY <2>1, <2>2, TellsOne
<1>3. ASSUME NEW m \in S, NEW n \in S, cbs = <<m, n>> PROVE Tells(h, w \o cbs, i, r)
  <2>1. /\ w \o cbs = Append(Append(w, m), n) /\ DOMAIN cbs = {1, 2} /\ cbs[1] = m /\ cbs[2] = n
        /\ Append(w, m) \in Seq(S)
    BY <1>3
  <2>2. /\ About(m, i) => r = CalcRemainQuantity(m)
        /\ About(n, i) => r = CalcRemainQuantity(n)
        /\ ~About(m, i) /\ ~About(n, i) => r = q
    BY <2>1
  <2> DEFINE t == IF About(m, i) THEN CalcRemainQuantity(m) ELSE q
             v == Append(w, m)
  <2>3. Tells(h, v, i, t)
    BY TellsOne
  <2>4. v \in Seq(S) /\ w \o cbs = Append(v, n)
    BY <2>1
  <2>5. ~About(n, i) => r = t
    BY <2>2
  <2> HIDE DEF t, v
  <2> QED
    BY <2>2, <2>3, <2>4, <2>5, TellsOne
<1> QED
  BY <1>1, <1>2, <1>3 DEF Few

\* The first of the messages is received.
LEMMA TellsTail ==
  ASSUME NEW h, NEW S, NEW w \in Seq(S), w # <<>>, NEW i, NEW q, Tells(h, w, i, q)
  PROVE  /\ About(Head(w), i) => Tells(CalcRemainQuantity(Head(w)), Tail(w), i, q)
         /\ ~About(Head(w), i) => Tells(h, Tail(w), i, q)
<1> DEFINE v == Tail(w)
<1>1. /\ DOMAIN w = 1 .. Len(w) /\ Len(w) \in Nat /\ Len(w) > 0
      /\ DOMAIN v = 1 .. Len(w) - 1 /\ Head(w) = w[1]
      /\ \A k \in 1 .. Len(w) - 1 : v[k] = w[k + 1]
  OBVIOUS
<1> HIDE DEF v
<1>2. CASE \E k \in DOMAIN v : About(v[k], i)
  <2>1. PICK n \in DOMAIN v : About(v[n], i)
    BY <1>2
  <2>2. n + 1 \in DOMAIN w /\ About(w[n + 1], i) /\ n >= 1
    BY <1>1, <2>1
  <2>3. PICK k \in DOMAIN w : /\ About(w[k], i) /\ CalcRemainQuantity(w[k]) = q
                              /\ \A j \in DOMAIN w : j > k => ~About(w[j], i)
    BY <2>2 DEF Tells
  <2>4. k - 1 \in DOMAIN v /\ v[k - 1] = w[k]
    <3>1. ~(n + 1 > k)
      BY <2>2, <2>3
    <3> QED
      BY <1>1, <2>1, <2>3, <3>1
  <2>5. \A j \in DOMAIN v : j > k - 1 => ~About(v[j], i)
    <3> SUFFICES ASSUME NEW j \in DOMAIN v, j > k - 1 PROVE ~About(v[j], i)
      OBVIOUS
    <3>1. j + 1 \in DOMAIN w /\ j + 1 > k /\ v[j] = w[j + 1]
      BY <1>1, <2>3
    <3> QED
      BY <2>3, <3>1
  <2> QED
    BY <2>3, <2>4, <2>5 DEF Tells, v
<1>3. CASE \A k \in DOMAIN v : ~About(v[k], i)
  <2>1. \A k \in DOMAIN w : k # 1 => ~About(w[k], i)
    <3> SUFFICES ASSUME NEW k \in DOMAIN w, k # 1 PROVE ~About(w[k], i)
      OBVIOUS
    <3>1. k - 1 \in DOMAIN v /\ v[k - 1] = w[k]
      BY <1>1
    <3> QED
      BY <1>3, <3>1
  <2>2. IF About(w[1], i) THEN CalcRemainQuantity(w[1]) = q ELSE h = q
    BY <1>1, <2>1 DEF Tells
  <2> QED
    BY <1>1, <1>3, <2>2 DEF Tells, v
<1> QED
  BY <1>2, <1>3

\* callback sends, or keeps for the end of the auction, what it is given.
LEMMA CallbackCarries ==
  ASSUME TypeOK, RecordsInv, FeedTypeOK, DownInv, Carried,
         NEW cbs \in Seq(Order), Callback(cbs) \/ (cbs = <<>> /\ Silent)
  PROVE  Carries(cbs)
<1>1. wire \in Seq(Order) /\ cbRecords \in Seq(Order)
  BY DEF TypeOK, FeedTypeOK
<1>2. CASE isAuction /\ Callback(cbs)
  <2>1. cbRecords' = cbRecords \o cbs /\ emitted' = <<>>
    BY <1>2 DEF Callback
  <2>2. wire' = wire
    BY <1>1, <2>1 DEF Carried, FeedTypeOK
  <2>3. Pending' = Pending \o cbs
    BY <1>1, <2>1, <2>2 DEF Pending
  <2> QED
    BY <2>2, <2>3 DEF Carries, Alike, DownInv
<1>3. CASE ~isAuction /\ Callback(cbs)
  <2>1. cbRecords' = <<>> /\ emitted' = cbs /\ cbRecords = <<>>
    BY <1>3 DEF Callback, RecordsInv
  <2>2. Pending = wire /\ Pending' = wire'
    <3>1. wire' \in Seq(Order)
      BY <1>1, <2>1 DEF Carried
    <3> QED
      BY <1>1, <2>1, <3>1 DEF Pending
  <2>3. CASE up
    <3>1. Pending' = Pending \o cbs
      BY <2>1, <2>2, <2>3 DEF Carried
    <3> QED
      BY <2>3, <3>1 DEF Carries, Alike
  <2>4. CASE ~up
    <3>1. wire = <<>> /\ wire' = <<>>
      BY <2>4 DEF Carried, DownInv
    <3> QED
      BY <2>2, <2>4, <3>1 DEF Carries
  <2> QED
    BY <2>3, <2>4
<1>4. CASE cbs = <<>> /\ Silent
  <2>1. wire' = wire /\ cbRecords' = cbRecords
    BY <1>1, <1>4 DEF Silent, Carried
  <2>2. Pending' = Pending /\ Pending \o cbs = Pending
    BY <1>1, <1>4, <2>1 DEF Pending
  <2> QED
    BY <2>1, <2>2 DEF Carries, Alike, DownInv
<1> QED
  BY <1>2, <1>3, <1>4

\* At the end of an auction its messages are sent with a new last_match_price.
LEMMA FlushCarries ==
  ASSUME TypeOK, TypeOK', FeedTypeOK, DownInv, Carried, FlushAuction
  PROVE  Carries(<<>>)
<1>1. wire \in Seq(Order) /\ cbRecords \in Seq(Order) /\ emitted' \in Seq(Order)
  BY DEF TypeOK, FeedTypeOK
<1>2. cbRecords' = <<>>
  BY DEF FlushAuction
<1>3. CASE up
  <2>1. wire' = wire \o emitted'
    BY <1>3 DEF Carried
  <2>2. Pending' = wire \o emitted' /\ Pending \o <<>> = wire \o cbRecords
    BY <1>1, <1>2, <2>1 DEF Pending
  <2>3. /\ DOMAIN emitted' = DOMAIN cbRecords
        /\ \A k \in DOMAIN cbRecords : Alike(emitted'[k], cbRecords[k])
    <3>1. CASE Traded = {}
      BY <3>1 DEF FlushAuction, Alike
    <3>2. CASE Traded # {}
      <4>1. emitted' = [i \in DOMAIN cbRecords |->
                          [cbRecords[i] EXCEPT !.last_match_price = AuctionPrice]]
        BY <3>2 DEF FlushAuction
      <4>2. \A k \in DOMAIN cbRecords : cbRecords[k] \in Order
        BY <1>1
      <4> QED
        BY <4>1, <4>2 DEF Order, Alike
    <3> QED
      BY <3>1, <3>2
  <2>4. Len(emitted') = Len(cbRecords)
    BY <1>1, <2>3
  <2>5. /\ DOMAIN Pending' = DOMAIN (Pending \o <<>>)
        /\ \A k \in DOMAIN Pending' : Alike(Pending'[k], (Pending \o <<>>)[k])
    <3>1. DOMAIN (wire \o emitted') = DOMAIN (wire \o cbRecords)
      BY <1>1, <2>4
    <3>2. ASSUME NEW k \in DOMAIN (wire \o cbRecords)
          PROVE  Alike((wire \o emitted')[k], (wire \o cbRecords)[k])
      <4>1. CASE k <= Len(wire)
        <5>1. (wire \o emitted')[k] = (wire \o cbRecords)[k]
          BY <1>1, <2>4, <3>2, <4>1
        <5> QED
          BY <5>1 DEF Alike
      <4>2. CASE ~(k <= Len(wire))
        <5>1. /\ (wire \o emitted')[k] = emitted'[k - Len(wire)]
              /\ (wire \o cbRecords)[k] = cbRecords[k - Len(wire)]
              /\ k - Len(wire) \in DOMAIN cbRecords
          BY <1>1, <2>4, <3>2, <4>2
        <5> QED
          BY <2>3, <5>1
      <4> QED
        BY <4>1, <4>2
    <3> QED
      BY <2>2, <3>1, <3>2
  <2> QED
    BY <1>3, <2>5 DEF Carries
<1>4. CASE ~up
  <2>1. wire' = <<>> /\ Pending' = <<>>
    BY <1>2, <1>4 DEF Carried, DownInv, Pending
  <2> QED
    BY <1>4, <2>1 DEF Carries
<1> QED
  BY <1>3, <1>4

\* A step that tells the truth of the orders keeps what is said of the book.
LEMMA CarryOk ==
  ASSUME TypeOK, FeedTypeOK, NEW at \in [Nat -> Spots], BookInv(at), NEW sp \in Spots,
         NEW cbs, Few(cbs, Order), Told(cbs, sp), Carries(cbs), UNCHANGED <<up, cuts, mdVars>>
  PROVE  \E new \in [Nat -> Spots] : BookInv(new)'
<1>0. Pending \in Seq(Order) /\ cbs \in Seq(Order) /\ DOMAIN mdOrders \subseteq Nat
  <2>1. Pending \in Seq(Order) /\ DOMAIN mdOrders \subseteq Nat
    BY DEF TypeOK, FeedTypeOK, Pending
  <2>2. cbs \in Seq(Order)
    BY FewSeq
  <2> QED
    BY <2>1, <2>2
<1>1. PICK new \in [Nat -> Spots] :
        \A i \in Nat : new[i] = IF Untold(i) /\ ~Untold(i)' THEN sp ELSE at[i]
  <2> DEFINE f == [i \in Nat |-> IF Untold(i) /\ ~Untold(i)' THEN sp ELSE at[i]]
  <2>1. f \in [Nat -> Spots] /\ \A i \in Nat : f[i] = IF Untold(i) /\ ~Untold(i)' THEN sp ELSE at[i]
    OBVIOUS
  <2> QED
    BY <2>1
<1>2. \A i \in Nat : new[i] = IF Untold(i) /\ ~Untold(i)' THEN sp ELSE at[i]
  BY <1>1
<1>3. SpotsInv(new)'
  <2>1. ASSUME NEW i \in Nat, Known(i)', ~Untold(i)' PROVE new[i] = Spot(OrderAt(i))'
    <3>1. CASE Untold(i)
      BY <1>2, <2>1, <3>1 DEF Told
    <3>2. CASE ~Untold(i)
      BY <1>2, <2>1, <3>2 DEF Told, BookInv, SpotsInv
    <3> QED
      BY <3>1, <3>2
  <2>2. \A i \in DOMAIN mdOrders' : ~Untold(i)'
    BY <1>0 DEF Told, BookInv, SpotsInv, mdVars
  <2> QED
    BY <2>1, <2>2 DEF SpotsInv
<1>4. ASSUME NEW m, NEW k \in DOMAIN Pending', m = Pending'[k], Says(m)
      PROVE  /\ m.order_id \in Nat /\ ~Untold(m.order_id)'
             /\ new[m.order_id] = Spot(m) /\ m.side # "BUY_SELL_STOP"
  <2>1. PICK j \in DOMAIN (Pending \o cbs) : Alike(m, (Pending \o cbs)[j])
    BY <1>4 DEF Carries
  <2>2. PICK n : n = (Pending \o cbs)[j]
    OBVIOUS
  <2>3. /\ Says(n) /\ Spot(m) = Spot(n) /\ m.order_id = n.order_id /\ m.side = n.side
    BY <1>4, <2>1, <2>2, AlikeFacts DEF Alike
  <2>4. PICK i : i = n.order_id
    OBVIOUS
  <2>5. CASE j \in DOMAIN Pending
    <3>1. n = Pending[j]
      BY <1>0, <2>2, <2>5
    <3>2. i \in Nat /\ ~Untold(i) /\ at[i] = Spot(n) /\ n.side # "BUY_SELL_STOP"
      BY <2>3, <2>4, <2>5, <3>1 DEF BookInv, UnderWayInv, Faithful
    <3>3. ~Untold(i)' /\ new[i] = at[i]
      BY <1>2, <3>2 DEF Told
    <3> QED
      BY <2>3, <2>4, <3>2, <3>3
  <2>6. CASE j \notin DOMAIN Pending
    <3>1. PICK l \in DOMAIN cbs : n = cbs[l]
      BY <1>0, <2>2, <2>6
    <3>2. /\ i \in Nat /\ ~Untold(i)' /\ n.side # "BUY_SELL_STOP"
          /\ Untold(i) => Spot(n) = sp
          /\ ~Untold(i) => Known(i) /\ Spot(n) = Spot(OrderAt(i))
      BY <2>3, <2>4, <3>1 DEF Told
    <3>3. new[i] = Spot(n)
      BY <1>2, <3>2 DEF BookInv, SpotsInv
    <3> QED
      BY <2>3, <2>4, <3>2, <3>3
  <2> QED
    BY <2>5, <2>6
<1>5. UnderWayInv(new)'
  BY <1>4 DEF UnderWayInv, Faithful
<1>6. LevelsInv(new)'
  <2>1. \A i \in DOMAIN mdOrders : new[i] = at[i]
    BY <1>0, <1>2 DEF BookInv, SpotsInv
  <2>2. \A x : At(new, x) = At(at, x)
    BY <2>1 DEF At
  <2>3. mdOrders' = mdOrders
    BY DEF mdVars
  <2>4. \A s \in Sides : \A p \in Int : At(new, <<s, p>>)' = At(at, <<s, p>>)
    BY <2>2, <2>3 DEF At
  <2>5. LevelsInv(at)
    BY DEF BookInv
  <2>6. mdBook' = mdBook /\ mdOrders' = mdOrders
    BY DEF mdVars
  <2> QED
    BY <2>4, <2>5, <2>6 DEF LevelsInv
<1>7. ToldInv'
  <2>1. SUFFICES ASSUME up', NEW i \in Nat, ~(cuts' > 0 /\ Gone(i)')
                 PROVE  Tells(Has(i)', Pending', i, Due(i)')
    BY DEF ToldInv
  <2>2. Tells(Has(i), Pending, i, Due(i))
    BY <2>1 DEF BookInv, ToldInv, Told
  <2>3. PICK q : q = Due(i)
    OBVIOUS
  <2>4. PICK r : r = Due(i)'
    OBVIOUS
  <2>5. PICK h : h = Has(i)
    OBVIOUS
  <2>6. Tells(h, Pending \o cbs, i, r)
    <3>1. Tells(h, Pending, i, q)
      BY <2>2, <2>3, <2>5
    <3>2. \A k \in DOMAIN cbs : About(cbs[k], i) => r = CalcRemainQuantity(cbs[k])
      BY <2>4 DEF Told
    <3>3. (\A k \in DOMAIN cbs : ~About(cbs[k], i)) => r = q
      BY <2>3, <2>4 DEF Told
    <3>4. PICK w : w = Pending
      OBVIOUS
    <3> QED
      BY <1>0, <3>1, <3>2, <3>3, <3>4, TellsOn
  <2>7. up
    BY <2>1
  <2>8. PICK v : v = Pending \o cbs
    OBVIOUS
  <2>9. PICK u : u = Pending'
    OBVIOUS
  <2>10. DOMAIN u = DOMAIN v /\ \A k \in DOMAIN u : Alike(u[k], v[k])
    BY <2>7, <2>8, <2>9 DEF Carries
  <2>11. Tells(h, u, i, r)
    BY <2>6, <2>8, <2>10, TellsAlike
  <2>12. Has(i)' = h
    BY <2>5 DEF Has, mdVars
  <2> QED
    BY <2>4, <2>9, <2>11, <2>12
<1>8. DownInv' /\ ~mdCorrupt'
  BY DEF DownInv, BookInv, mdVars, Carries
<1> QED
  BY <1>1, <1>3, <1>5, <1>6, <1>7, <1>8 DEF BookInv

\* A message that moves no level.
LEMMA HandleSame ==
  ASSUME FeedTypeOK, NEW odr \in Order, HandleOdr(odr), odr.order_state \in RejectStates,
         mdOrders' = mdOrders
  PROVE  UNCHANGED mdVars
<1>1. CASE UNCHANGED mdVars
  BY <1>1
<1>2. CASE ~UNCHANGED mdVars
  <2>1. CalcRemainQuantity(odr) = 0
    BY DEF CalcRemainQuantity, RejectStates, LiveStates
  <2>2. odr.order_id \notin DOMAIN mdOrders
    <3>1. Remember(odr.order_id, 0)
      BY <1>2, <2>1 DEF HandleOdr
    <3>2. mdOrders' = Drop(mdOrders, odr.order_id)
      BY <3>1 DEF Remember
    <3> QED
      BY <3>2 DEF Drop
  <2> QED
    BY <1>2, <2>1, <2>2 DEF HandleOdr, mdVars
<1> QED
  BY <1>1, <1>2

\* A message that says something changes what the book counts of its order, and the
\* level of it by as much; the message is not the reject of a two-sided stop.
LEMMA HandleFacts ==
  ASSUME FeedTypeOK, NEW odr \in Order, HandleOdr(odr), Says(odr), odr.side # "BUY_SELL_STOP"
  PROVE  LET i == odr.order_id
             s == TradeSide(odr)
             p == odr.price
             r == CalcRemainQuantity(odr)
             old == Has(i)
         IN /\ r \in Nat /\ old \in Nat /\ s \in Sides /\ i \in Nat /\ p \in Int
            /\ Remember(i, r)
            /\ \/ r > old /\ AddQuantity(s, p, r - old) /\ UNCHANGED mdCorrupt
               \/ r < old /\ ReduceQuantity(s, p, old - r)
               \/ r = old /\ UNCHANGED <<mdBook, mdCorrupt>>
<1> DEFINE i == odr.order_id
           r == CalcRemainQuantity(odr)
           old == Has(i)
<1>1. /\ odr.side \in Sides \cup StopSides /\ odr.price \in Int /\ i \in Nat
      /\ odr.remain_quantity \in Nat
  BY DEF Order
<1>2. r \in Nat /\ old \in Nat
  BY <1>1 DEF CalcRemainQuantity, Has, FeedTypeOK
<1>3. MdSides(odr) = {TradeSide(odr)} /\ TradeSide(odr) \in Sides
  BY <1>1 DEF MdSides, TradeSide, Sides, StopSides
<1>4. odr.price # STOP_PRICE
  BY DEF Says
<1> QED
  BY <1>1, <1>2, <1>3, <1>4 DEF HandleOdr, Has

\* What the book counts after the message.
LEMMA RememberFacts ==
  ASSUME FeedTypeOK, NEW i \in Nat, NEW r \in Nat, Remember(i, r)
  PROVE  /\ DOMAIN mdOrders' = IF r = 0 THEN DOMAIN mdOrders \ {i} ELSE DOMAIN mdOrders \cup {i}
         /\ \A j \in DOMAIN mdOrders' : mdOrders'[j] = IF j = i THEN r ELSE mdOrders[j]
         /\ Has(i)' = r
         /\ \A j \in Nat : j # i => Has(j)' = Has(j)
         /\ IsFiniteSet(DOMAIN mdOrders') /\ DOMAIN mdOrders' \subseteq Nat
         /\ mdOrders' = [j \in DOMAIN mdOrders' |-> mdOrders'[j]]
         /\ \A j \in DOMAIN mdOrders' : mdOrders'[j] \in Nat \ {0}
<1>1. /\ DOMAIN mdOrders' = IF r = 0 THEN DOMAIN mdOrders \ {i} ELSE DOMAIN mdOrders \cup {i}
      /\ \A j \in DOMAIN mdOrders' : mdOrders'[j] = IF j = i THEN r ELSE mdOrders[j]
      /\ mdOrders' = [j \in DOMAIN mdOrders' |-> mdOrders'[j]]
  BY DEF Remember, Put, Drop
<1>2. Has(i)' = r /\ \A j \in Nat : j # i => Has(j)' = Has(j)
  BY <1>1 DEF Has
<1>3. IsFiniteSet(DOMAIN mdOrders')
  BY <1>1, FS_AddElement, FS_RemoveElement DEF FeedTypeOK
<1>4. DOMAIN mdOrders' \subseteq Nat /\ \A j \in DOMAIN mdOrders' : mdOrders'[j] \in Nat \ {0}
  BY <1>1 DEF FeedTypeOK
<1> QED
  BY <1>1, <1>2, <1>3, <1>4

\* g is f with r for i; a number 0 is not kept.
Sets(f, g, D, E, i, r) ==
  /\ E = IF r = 0 THEN D \ {i} ELSE D \cup {i}
  /\ \A j \in E : g[j] = IF j = i THEN r ELSE f[j]
NumberAt(f, D, i) == IF i \in D THEN f[i] ELSE 0

\* When one order counts r instead of old, so does what is at its level.
LEMMA PartChange ==
  ASSUME NEW f, NEW g, NEW D, NEW E, IsFiniteSet(D), IsFiniteSet(E), Counted(f, D), Counted(g, E),
         NEW i, NEW r \in Nat, Sets(f, g, D, E, i, r), NEW T, i \in T,
         NEW old, old = NumberAt(f, D, i)
  PROVE  /\ SumOver(f, D \cap T) \in Nat /\ SumOver(g, E \cap T) \in Nat
         /\ old <= SumOver(f, D \cap T)
         /\ SumOver(g, E \cap T) = SumOver(f, D \cap T) - old + r
<1> DEFINE U == (D \cap T) \ {i}
<1>0. /\ E = IF r = 0 THEN D \ {i} ELSE D \cup {i}
      /\ \A j \in E : g[j] = IF j = i THEN r ELSE f[j]
      /\ old = IF i \in D THEN f[i] ELSE 0
  BY DEF Sets, NumberAt
<1>1. /\ D \cap T \in SUBSET D /\ E \cap T \in SUBSET E /\ U \in SUBSET D /\ U \in SUBSET E
      /\ U = (E \cap T) \ {i}
  BY <1>0
<1>2. /\ IsFiniteSet(D \cap T) /\ IsFiniteSet(E \cap T) /\ IsFiniteSet(U)
      /\ Counted(f, D \cap T) /\ Counted(g, E \cap T) /\ Counted(f, U)
  <2>1. IsFiniteSet(D \cap T) /\ IsFiniteSet(E \cap T) /\ IsFiniteSet(U)
    BY <1>1, FS_Subset
  <2>2. Counted(f, D \cap T) /\ Counted(g, E \cap T) /\ Counted(f, U)
    BY <1>1 DEF Counted
  <2> QED
    BY <2>1, <2>2
<1>3. SumOver(f, U) = SumOver(g, U) /\ SumOver(f, U) \in Nat
  <2>1. \A j \in U : f[j] = g[j]
    BY <1>0, <1>1
  <2> HIDE DEF U
  <2> QED
    BY <1>2, <2>1, SumSame, SumNat
<1>4. SumOver(f, D \cap T) = old + SumOver(f, U) /\ old \in Nat
  <2>1. CASE i \in D
    <3>1. i \in D \cap T /\ f[i] \in Nat
      BY <1>0, <2>1 DEF Counted
    <3>2. SumOver(f, D \cap T) = f[i] + SumOver(f, (D \cap T) \ {i})
      BY <1>2, <3>1, SumTake
    <3> QED
      BY <1>0, <2>1, <3>1, <3>2
  <2>2. CASE i \notin D
    <3>1. D \cap T = U
      BY <2>2
    <3>2. SumOver(f, D \cap T) = SumOver(f, U) /\ old = 0
      BY <1>0, <2>2, <3>1
    <3> HIDE DEF U
    <3> QED
      BY <1>3, <3>2
  <2> QED
    BY <2>1, <2>2
<1>5. SumOver(g, E \cap T) = r + SumOver(g, U)
  <2>1. CASE r # 0
    <3>1. i \in E \cap T /\ g[i] = r
      BY <1>0, <2>1
    <3>2. SumOver(g, E \cap T) = g[i] + SumOver(g, (E \cap T) \ {i})
      BY <1>2, <3>1, SumTake
    <3> QED
      BY <1>1, <3>1, <3>2
  <2>2. CASE r = 0
    <3>1. E \cap T = U
      BY <1>0, <2>2
    <3>2. SumOver(g, E \cap T) = SumOver(g, U)
      BY <3>1
    <3> HIDE DEF U
    <3> QED
      BY <1>3, <2>2, <3>2
  <2> QED
    BY <2>1, <2>2
<1> HIDE DEF U
<1>6. SumOver(f, D \cap T) \in Nat /\ SumOver(g, E \cap T) \in Nat
  BY <1>3, <1>4, <1>5
<1>7. SumOver(g, E \cap T) = SumOver(f, D \cap T) - old + r /\ old <= SumOver(f, D \cap T)
  BY <1>3, <1>4, <1>5
<1> QED
  BY <1>4, <1>6, <1>7

\* Numbers above 0 add up to 0 only when there are none.
LEMMA SumPositive ==
  ASSUME NEW f, NEW S, IsFiniteSet(S), \A x \in S : f[x] \in Nat \ {0}
  PROVE  SumOver(f, S) = 0 <=> S = {}
<1>1. S = {} => SumOver(f, S) = 0
  BY SumEmpty
<1>2. ASSUME NEW x \in S PROVE SumOver(f, S) # 0
  <2>1. Counted(f, S) /\ Counted(f, S \ {x}) /\ IsFiniteSet(S \ {x})
    BY FS_Subset DEF Counted
  <2>2. SumOver(f, S) = f[x] + SumOver(f, S \ {x}) /\ SumOver(f, S \ {x}) \in Nat
    BY <2>1, SumTake, SumNat
  <2>3. f[x] \in Nat /\ f[x] > 0
    OBVIOUS
  <2> QED
    BY <2>2, <2>3
<1> QED
  BY <1>1, <1>2

\* The levels go on being the sums of what is counted at them.
LEMMA LevelsOk ==
  ASSUME FeedTypeOK, QuantitiesFit', NEW at, LevelsInv(at), ~mdCorrupt,
         NEW i \in Nat, NEW s \in Sides, NEW p \in Int, NEW r \in Nat, at[i] = <<s, p>>,
         Remember(i, r),
         \/ r > Has(i) /\ AddQuantity(s, p, r - Has(i)) /\ UNCHANGED mdCorrupt
         \/ r < Has(i) /\ ReduceQuantity(s, p, Has(i) - r)
         \/ r = Has(i) /\ UNCHANGED <<mdBook, mdCorrupt>>
  PROVE  /\ LevelsInv(at)' /\ mdCorrupt' = FALSE
         /\ mdBook' = [t \in Sides |-> mdBook'[t]]
         /\ \A t \in Sides : /\ DOMAIN mdBook'[t] \subseteq Int
                             /\ mdBook'[t] = [x \in DOMAIN mdBook'[t] |-> mdBook'[t][x]]
<1> DEFINE T(x) == {j \in Nat : at[j] = x}
<1>1. PICK f, g, D, E, old :
        /\ f = mdOrders /\ g = mdOrders' /\ D = DOMAIN mdOrders /\ E = DOMAIN mdOrders'
        /\ old = Has(i)
  OBVIOUS
<1>2. /\ IsFiniteSet(D) /\ IsFiniteSet(E) /\ Counted(f, D) /\ Counted(g, E)
      /\ D \subseteq Nat /\ E \subseteq Nat
      /\ E = (IF r = 0 THEN D \ {i} ELSE D \cup {i})
      /\ \A j \in E : g[j] = IF j = i THEN r ELSE f[j]
      /\ (\A j \in E : g[j] \in Nat \ {0}) /\ (\A j \in D : f[j] \in Nat \ {0})
      /\ old = (IF i \in D THEN f[i] ELSE 0) /\ old \in Nat
  BY <1>1, RememberFacts DEF FeedTypeOK, Counted, Has
<1>3. ASSUME NEW x
      PROVE  At(at, x) = D \cap T(x) /\ At(at, x)' = E \cap T(x)
  BY <1>1, <1>2 DEF At
<1> HIDE DEF T
<1>4. PICK a, b : a = SumOver(f, D \cap T(<<s, p>>)) /\ b = SumOver(g, E \cap T(<<s, p>>))
  OBVIOUS
<1>5. /\ a \in Nat /\ b \in Nat /\ old <= a /\ b = a - old + r
      /\ b = 0 <=> E \cap T(<<s, p>>) = {}
      /\ b < QuantityModulus
  <2>1. i \in T(<<s, p>>)
    BY DEF T
  <2>2. PICK t : t = T(<<s, p>>)
    OBVIOUS
  <2>3. /\ a \in Nat /\ b \in Nat /\ old <= a /\ b = a - old + r
    <3>1. i \in t
      BY <2>1, <2>2
    <3>2. /\ SumOver(f, D \cap t) \in Nat /\ SumOver(g, E \cap t) \in Nat
          /\ old <= SumOver(f, D \cap t)
          /\ SumOver(g, E \cap t) = SumOver(f, D \cap t) - old + r
      <4>1. Sets(f, g, D, E, i, r) /\ old = NumberAt(f, D, i)
        BY <1>2 DEF Sets, NumberAt
      <4>2. IsFiniteSet(D) /\ IsFiniteSet(E) /\ Counted(f, D) /\ Counted(g, E)
        BY <1>2
      <4> QED
        BY <3>1, <4>1, <4>2, PartChange
    <3> QED
      BY <1>2, <1>4, <2>2, <3>2
  <2>4. b = 0 <=> E \cap t = {}
    <3>1. IsFiniteSet(E \cap t) /\ \A j \in E \cap t : g[j] \in Nat \ {0}
      BY <1>2, FS_Subset
    <3> QED
      BY <1>4, <2>2, <3>1, SumPositive
  <2>5. b <= SumOver(g, E) /\ SumOver(g, E) \in Nat
    BY <1>2, <1>4, <2>2, SumSubset, SumNat
  <2>6. SumOver(g, E) < QuantityModulus
    BY <1>1 DEF QuantitiesFit
  <2> QED
    BY <2>2, <2>3, <2>4, <2>5, <2>6, ModulusAssumption
<1>6. /\ p \in DOMAIN mdBook[s] <=> D \cap T(<<s, p>>) # {}
      /\ p \in DOMAIN mdBook[s] => mdBook[s][p] = a
  BY <1>1, <1>3, <1>4 DEF LevelsInv
<1>7. D \cap T(<<s, p>>) = {} => a = 0
  BY <1>4, SumEmpty
<1>8. \A n \in 0 .. QuantityModulus - 1 : n % QuantityModulus = n
  BY ModulusAssumption
<1>9. b % QuantityModulus = b
  BY <1>5, <1>8, ModulusAssumption
<1>10. /\ mdBook' = [t \in Sides |-> mdBook'[t]] /\ mdCorrupt' = FALSE
       /\ \A t \in Sides : t # s => mdBook'[t] = mdBook[t]
       /\ DOMAIN mdBook'[s] = (IF b = 0 THEN DOMAIN mdBook[s] \ {p} ELSE DOMAIN mdBook[s] \cup {p})
       /\ \A x \in DOMAIN mdBook'[s] : mdBook'[s][x] = IF x = p THEN b ELSE mdBook[s][x]
       /\ mdBook'[s] = [x \in DOMAIN mdBook'[s] |-> mdBook'[s][x]]
  <2>1. CASE r > old /\ AddQuantity(s, p, r - old) /\ UNCHANGED mdCorrupt
    <3>1. (IF p \in DOMAIN mdBook[s] THEN mdBook[s][p] ELSE 0) = a
      BY <1>6, <1>7
    <3>2. a + (r - old) = b /\ b # 0
      BY <1>2, <1>5, <2>1
    <3>3. mdBook' = [mdBook EXCEPT ![s] = Put(@, p, b)]
      BY <1>9, <2>1, <3>1, <3>2 DEF AddQuantity
    <3>4. mdBook'[s] = Put(mdBook[s], p, b) /\ \A t \in Sides : t # s => mdBook'[t] = mdBook[t]
      BY <3>3 DEF FeedTypeOK
    <3>5. mdBook' = [t \in Sides |-> mdBook'[t]]
      BY <3>3 DEF FeedTypeOK
    <3> QED
      BY <2>1, <3>2, <3>4, <3>5 DEF Put, FeedTypeOK
  <2>2. CASE r < old /\ ReduceQuantity(s, p, old - r)
    <3>0. a # 0
      BY <1>2, <1>5, <2>2
    <3>1. p \in DOMAIN mdBook[s]
      BY <1>6, <1>7, <3>0
    <3>2. a - (old - r) = b
      BY <1>2, <1>5
    <3>3. mdBook' = [mdBook EXCEPT ![s] = IF b = 0 THEN Drop(@, p) ELSE Put(@, p, b)]
      BY <1>6, <1>9, <2>2, <3>1, <3>2 DEF ReduceQuantity
    <3>4. mdCorrupt' = FALSE
      BY <2>2, <3>1 DEF ReduceQuantity
    <3>5. /\ mdBook'[s] = IF b = 0 THEN Drop(mdBook[s], p) ELSE Put(mdBook[s], p, b)
          /\ \A t \in Sides : t # s => mdBook'[t] = mdBook[t]
      BY <3>3 DEF FeedTypeOK
    <3>6. mdBook' = [t \in Sides |-> mdBook'[t]]
      BY <3>3 DEF FeedTypeOK
    <3> QED
      BY <3>4, <3>5, <3>6 DEF Put, Drop
  <2>3. CASE r = old /\ UNCHANGED <<mdBook, mdCorrupt>>
    <3>1. a = b
      BY <1>2, <1>5, <2>3
    <3>2. b # 0 <=> p \in DOMAIN mdBook[s]
      <4>1. D \cap T(<<s, p>>) # {} <=> E \cap T(<<s, p>>) # {}
        BY <1>2, <2>3
      <4> QED
        BY <1>5, <1>6, <4>1
    <3> QED
      BY <1>6, <2>3, <3>1, <3>2 DEF FeedTypeOK
  <2> QED
    BY <1>1, <2>1, <2>2, <2>3
<1>11. ASSUME NEW t \in Sides, NEW x \in Int
       PROVE  /\ x \in DOMAIN mdBook'[t] <=> E \cap T(<<t, x>>) # {}
              /\ x \in DOMAIN mdBook'[t] => mdBook'[t][x] = SumOver(g, E \cap T(<<t, x>>))
  <2>1. CASE t = s /\ x = p
    BY <1>4, <1>5, <1>10, <2>1
  <2>2. CASE ~(t = s /\ x = p)
    <3>1. i \notin T(<<t, x>>)
      BY <2>2 DEF T
    <3>2. E \cap T(<<t, x>>) = D \cap T(<<t, x>>)
      BY <1>2, <3>1
    <3>3. SumOver(f, D \cap T(<<t, x>>)) = SumOver(g, D \cap T(<<t, x>>))
      <4>1. PICK S : S = D \cap T(<<t, x>>)
        OBVIOUS
      <4>2. IsFiniteSet(S) /\ Counted(f, S) /\ \A j \in S : f[j] = g[j]
        BY <1>2, <3>1, <3>2, <4>1, FS_Subset DEF Counted
      <4> QED
        BY <4>1, <4>2, SumSame
    <3>4. /\ x \in DOMAIN mdBook[t] <=> D \cap T(<<t, x>>) # {}
          /\ x \in DOMAIN mdBook[t] => mdBook[t][x] = SumOver(f, D \cap T(<<t, x>>))
      BY <1>1, <1>3 DEF LevelsInv
    <3>5. /\ x \in DOMAIN mdBook'[t] <=> x \in DOMAIN mdBook[t]
          /\ x \in DOMAIN mdBook'[t] => mdBook'[t][x] = mdBook[t][x]
      BY <1>10, <2>2
    <3> QED
      BY <3>2, <3>3, <3>4, <3>5
  <2> QED
    BY <2>1, <2>2
<1>12. LevelsInv(at)'
  BY <1>1, <1>3, <1>11 DEF LevelsInv
<1>13. \A t \in Sides : /\ DOMAIN mdBook'[t] \subseteq Int
                        /\ mdBook'[t] = [x \in DOMAIN mdBook'[t] |-> mdBook'[t][x]]
  BY <1>10 DEF FeedTypeOK
<1> QED
  BY <1>10, <1>12, <1>13

\* The book receives a message that misleads it in nothing.
LEMMA ReceiveOk ==
  ASSUME TypeOK, FeedTypeOK, QuantitiesFit', NEW at \in [Nat -> Spots], BookInv(at), Receive,
         ~misled'
  PROVE  FeedTypeOK' /\ BookInv(at)'
<1>0. PICK m : m = Head(wire)
  OBVIOUS
<1>1. /\ up /\ wire # <<>> /\ ~mdCorrupt /\ HandleOdr(m) /\ wire' = Tail(wire)
      /\ UNCHANGED <<vars, up, cuts>> /\ up' = up /\ cuts' = cuts /\ cbRecords' = cbRecords
      /\ m.order_state \in RejectStates => mdOrders' = mdOrders
  BY <1>0 DEF Receive, vars, engineVars
<1>2. /\ wire \in Seq(Order) /\ cbRecords \in Seq(Order) /\ m \in Order /\ wire' \in Seq(Order)
  BY <1>0, <1>1 DEF TypeOK, FeedTypeOK
<1>3. /\ Pending \in Seq(Order) /\ Pending # <<>> /\ m = Head(Pending) /\ Pending' = Tail(Pending)
  BY <1>0, <1>1, <1>2 DEF Pending
<1>4. PICK w : w = Pending
  OBVIOUS
<1>5. /\ w \in Seq(Order) /\ w # <<>> /\ m = Head(w) /\ Pending' = Tail(w)
      /\ DOMAIN w = 1 .. Len(w) /\ Len(w) \in Nat /\ 1 \in DOMAIN w /\ m = w[1]
      /\ DOMAIN Tail(w) = 1 .. Len(w) - 1
      /\ \A k \in DOMAIN Tail(w) : k + 1 \in DOMAIN w /\ Tail(w)[k] = w[k + 1]
  BY <1>3, <1>4
<1>6. /\ Untold(m.order_id)' = Untold(m.order_id)
      /\ \A i : /\ Untold(i)' = Untold(i) /\ Known(i)' = Known(i) /\ OrderAt(i)' = OrderAt(i)
                /\ Due(i)' = Due(i) /\ Gone(i)' = Gone(i)
  BY <1>1 DEF Untold, Known, OrderAt, Due, Gone, InHand, Taker, vars, engineVars, callVars
<1>7. \A k \in DOMAIN w : Faithful(w[k], at)
  BY <1>4 DEF BookInv, UnderWayInv
<1>8. UnderWayInv(at)'
  <2>1. \A k \in DOMAIN Pending' : Faithful(Pending'[k], at)
    BY <1>5, <1>7
  <2> QED
    BY <1>6, <2>1 DEF UnderWayInv, Faithful
<1>9. Has(m.order_id) \in Nat /\ m.order_id \in Nat
  BY <1>2 DEF Has, FeedTypeOK, Order
<1>10. /\ FeedTypeOK' /\ LevelsInv(at)' /\ ~mdCorrupt'
       /\ \A i \in DOMAIN mdOrders' : ~Untold(i)
       /\ \A i \in Nat : IF About(m, i) THEN Has(i)' = CalcRemainQuantity(m) ELSE Has(i)' = Has(i)
  <2>1. CASE ~Says(m)
    <3>1. UNCHANGED mdVars
      <4>1. CASE m.price = STOP_PRICE
        BY <1>1, <4>1 DEF HandleOdr
      <4>2. CASE m.price # STOP_PRICE
        <5>1. m.order_state \in RejectStates
          BY <2>1, <4>2 DEF Says
        <5> QED
          BY <1>1, <1>2, <5>1, HandleSame
      <4> QED
        BY <4>1, <4>2
    <3>2. mdOrders' = mdOrders /\ mdBook' = mdBook /\ mdCorrupt' = mdCorrupt
      BY <3>1 DEF mdVars
    <3>3. FeedTypeOK'
      <4>1. misled' \in BOOLEAN
        BY DEF Receive, FeedTypeOK
      <4> QED
        BY <1>1, <1>2, <3>2, <4>1 DEF FeedTypeOK
    <3>4. LevelsInv(at)' /\ ~mdCorrupt'
      BY <1>1, <3>2 DEF LevelsInv, At, BookInv
    <3>5. \A i \in DOMAIN mdOrders' : ~Untold(i)
      BY <3>2 DEF BookInv, SpotsInv
    <3>6. \A i \in Nat : ~About(m, i) /\ Has(i)' = Has(i)
      BY <2>1, <3>2 DEF About, Has
    <3> QED
      BY <3>3, <3>4, <3>5, <3>6
  <2>2. CASE Says(m)
    <3>1. /\ m.order_id \in Nat /\ ~Untold(m.order_id)
          /\ at[m.order_id] = Spot(m) /\ m.side # "BUY_SELL_STOP"
      BY <1>5, <1>7, <2>2 DEF Faithful
    <3>2. PICK i, s, p, r, old :
            /\ i = m.order_id /\ s = TradeSide(m) /\ p = m.price /\ r = CalcRemainQuantity(m)
            /\ old = Has(i)
      OBVIOUS
    <3>3. /\ r \in Nat /\ old \in Nat /\ s \in Sides /\ i \in Nat /\ p \in Int
          /\ Remember(i, r)
          /\ \/ r > old /\ AddQuantity(s, p, r - old) /\ UNCHANGED mdCorrupt
             \/ r < old /\ ReduceQuantity(s, p, old - r)
             \/ r = old /\ UNCHANGED <<mdBook, mdCorrupt>>
      BY <1>1, <1>2, <2>2, <3>1, <3>2, HandleFacts
    <3>4. at[i] = <<s, p>>
      BY <3>1, <3>2 DEF Spot
    <3>5. LevelsInv(at)
      BY DEF BookInv
    <3>6. /\ LevelsInv(at)' /\ mdCorrupt' = FALSE
          /\ mdBook' = [t \in Sides |-> mdBook'[t]]
          /\ \A t \in Sides : /\ DOMAIN mdBook'[t] \subseteq Int
                              /\ mdBook'[t] = [x \in DOMAIN mdBook'[t] |-> mdBook'[t][x]]
      BY <1>1, <3>2, <3>3, <3>4, <3>5, LevelsOk
    <3>7. /\ DOMAIN mdOrders' = IF r = 0 THEN DOMAIN mdOrders \ {i} ELSE DOMAIN mdOrders \cup {i}
          /\ Has(i)' = r
          /\ \A j \in Nat : j # i => Has(j)' = Has(j)
          /\ IsFiniteSet(DOMAIN mdOrders') /\ DOMAIN mdOrders' \subseteq Nat
          /\ mdOrders' = [j \in DOMAIN mdOrders' |-> mdOrders'[j]]
          /\ \A j \in DOMAIN mdOrders' : mdOrders'[j] \in Nat \ {0}
      BY <3>3, RememberFacts
    <3>8. FeedTypeOK'
      <4>1. misled' \in BOOLEAN /\ mdCorrupt' \in BOOLEAN
        BY <3>6 DEF Receive, FeedTypeOK
      <4>2. up' \in BOOLEAN /\ wire' \in Seq(Order) /\ cuts' \in Nat
        BY <1>1, <1>2 DEF FeedTypeOK
      <4> QED
        BY <3>6, <3>7, <4>1, <4>2 DEF FeedTypeOK
    <3>9. \A j \in DOMAIN mdOrders' : ~Untold(j)
      BY <3>1, <3>2, <3>7 DEF BookInv, SpotsInv
    <3>10. \A j \in Nat : IF About(m, j) THEN Has(j)' = CalcRemainQuantity(m) ELSE Has(j)' = Has(j)
      BY <2>2, <3>2, <3>7 DEF About
    <3> QED
      BY <3>6, <3>8, <3>9, <3>10
  <2> QED
    BY <2>1, <2>2
<1>11. SpotsInv(at)'
  BY <1>6, <1>10 DEF BookInv, SpotsInv
<1>12. ToldInv'
  <2>1. SUFFICES ASSUME NEW i \in Nat, ~(cuts > 0 /\ Gone(i))
                 PROVE  Tells(Has(i)', Pending', i, Due(i)')
    BY <1>1, <1>6 DEF ToldInv
  <2>2. PICK h, q : h = Has(i) /\ q = Due(i)
    OBVIOUS
  <2>3. Tells(h, w, i, q)
    BY <1>1, <1>4, <2>1, <2>2 DEF BookInv, ToldInv
  <2>4. PICK g : g = Has(i)'
    OBVIOUS
  <2>5. Tells(g, Tail(w), i, q)
    BY <1>5, <1>10, <2>2, <2>3, <2>4, TellsTail
  <2>6. Due(i)' = q
    BY <1>6, <2>2
  <2> QED
    BY <1>5, <2>4, <2>5, <2>6
<1>13. DownInv'
  BY <1>1 DEF DownInv
<1> QED
  BY <1>8, <1>10, <1>11, <1>12, <1>13 DEF BookInv

\* SetToSeqs lists every member of a finite set once.
LEMMA ToSeqsFacts ==
  ASSUME NEW S, IsFiniteSet(S), NEW w \in SetToSeqs(S)
  PROVE  /\ w \in Seq(S)
         /\ \A x \in S : \E k \in DOMAIN w : w[k] = x
         /\ \A i, j \in DOMAIN w : w[i] = w[j] => i = j
<1> DEFINE n == Cardinality(S)
           D == 1 .. n
<1>1. n \in Nat
  BY FS_CardinalityType
<1>2. w \in [D -> S] /\ \A i, j \in D : i # j => w[i] # w[j]
  BY DEF SetToSeqs
<1>3. w \in Injection(D, S)
  BY <1>2 DEF Injection, IsInjective
<1>4. Cardinality(D) = n /\ IsFiniteSet(D)
  BY <1>1, FS_Interval
<1>5. w \in Surjection(D, S)
  BY <1>3, <1>4, FS_Injection
<1>6. DOMAIN w = D /\ w \in Seq(S)
  BY <1>1, <1>2
<1> QED
  BY <1>2, <1>5, <1>6 DEF Surjection

\* Between two calls the orders of _odr_map are finitely many.
LEMMA OrdersFinite ==
  ASSUME TypeOK
  PROVE  IsFiniteSet({odrMap[i] : i \in DOMAIN odrMap})
<1> DEFINE D == DOMAIN odrMap
           f == [i \in D |-> odrMap[i]]
           S == {odrMap[i] : i \in D}
<1>1. D \subseteq 1 .. nextId /\ IsFiniteSet(1 .. nextId)
  <2>1. nextId \in Nat /\ \A i \in D : i \in Nat /\ 0 < i /\ i < nextId
    BY DEF TypeOK
  <2>2. IsFiniteSet(1 .. nextId)
    BY <2>1, FS_Interval
  <2> QED
    BY <2>1, <2>2
<1>2. IsFiniteSet(D)
  BY <1>1, FS_Subset
<1>3. f \in Surjection(D, S)
  BY DEF Surjection
<1> HIDE DEF D, f, S
<1>4. IsFiniteSet(S)
  BY <1>2, <1>3, FS_Surjection
<1> QED
  BY <1>4 DEF S, D

\* A new connection is told of every order that is in a book.
LEMMA ConnectOk ==
  ASSUME KInv, RecordsInv, FeedTypeOK, NEW at \in [Nat -> Spots], BookInv(at), Connect
  PROVE  FeedTypeOK' /\ BookInv(at)'
<1>1. /\ ~up /\ pc = "idle" /\ ~corrupt /\ up' = TRUE
      /\ UNCHANGED <<vars, cuts, mdVars, misled>>
      /\ wire' \in SetToSeqs({odrMap[i] : i \in DOMAIN odrMap})
  BY DEF Connect
<1>2. TypeOK /\ CallInv /\ Places /\ RestingInv /\ StopInv
  BY <1>1 DEF KInv, JInv, IInv, Places
<1>3. PICK w : w = wire'
  OBVIOUS
<1>4. /\ w \in Seq({odrMap[i] : i \in DOMAIN odrMap})
      /\ \A x \in {odrMap[i] : i \in DOMAIN odrMap} : \E k \in DOMAIN w : w[k] = x
      /\ \A i, j \in DOMAIN w : w[i] = w[j] => i = j
  <2>1. PICK S : S = {odrMap[i] : i \in DOMAIN odrMap}
    OBVIOUS
  <2>2. IsFiniteSet(S) /\ w \in SetToSeqs(S)
    BY <1>1, <1>2, <1>3, <2>1, OrdersFinite
  <2>3. /\ w \in Seq(S) /\ \A x \in S : \E k \in DOMAIN w : w[k] = x
        /\ \A i, j \in DOMAIN w : w[i] = w[j] => i = j
    BY <2>2, ToSeqsFacts
  <2> QED
    BY <2>1, <2>3
<1>5. \A k \in DOMAIN w : \E i \in DOMAIN odrMap : w[k] = odrMap[i] /\ w[k].order_id = i
  <2>1. \A k \in DOMAIN w : w[k] \in {odrMap[i] : i \in DOMAIN odrMap}
    BY <1>4
  <2> QED
    BY <1>2, <2>1 DEF TypeOK
<1>6. \A i \in DOMAIN odrMap : /\ odrMap[i].order_id = i /\ i \in Nat /\ 0 < i /\ i < nextId
                               /\ odrMap[i] \in Order /\ odrMap[i].side # "BUY_SELL_STOP"
                               /\ odrMap[i].order_state \notin RejectStates
                               /\ nextId \in Nat
  <2>1. \A i \in DOMAIN odrMap : odrMap[i].order_state \in LiveStates \cup DoneStates
    BY <1>2 DEF Places, FiledInv
  <2>2. \A st \in LiveStates \cup DoneStates : st \notin RejectStates
    BY DEF LiveStates, DoneStates, RejectStates
  <2> QED
    BY <1>2, <2>1, <2>2 DEF TypeOK, CallInv
<1>7. Pending' = w
  <2>1. cbRecords' = <<>>
    BY <1>1 DEF RecordsInv, vars, engineVars
  <2> QED
    BY <1>3, <1>4, <2>1 DEF Pending
<1>8. /\ \A i : ~InHand(i)
      /\ \A i : Known(i) <=> i \in DOMAIN odrMap
      /\ \A i : Untold(i) <=> (i >= nextId \/ (i \in DOMAIN odrMap /\ odrMap[i].price = STOP_PRICE))
  BY <1>1 DEF InHand, Known, Untold
<1>9. /\ \A i : /\ Untold(i)' = Untold(i) /\ Known(i)' = Known(i) /\ OrderAt(i)' = OrderAt(i)
                /\ Due(i)' = Due(i) /\ Gone(i)' = Gone(i) /\ Has(i)' = Has(i)
      /\ mdOrders' = mdOrders /\ mdBook' = mdBook /\ cuts' = cuts /\ mdCorrupt' = mdCorrupt
      /\ misled' = misled
  BY <1>1 DEF Untold, Known, OrderAt, Due, Gone, InHand, Taker, Has, vars, engineVars, callVars, mdVars
<1>10. SpotsInv(at)' /\ LevelsInv(at)' /\ ~mdCorrupt'
  BY <1>9 DEF BookInv, SpotsInv, LevelsInv, At
<1>11. UnderWayInv(at)'
  <2>1. ASSUME NEW k \in DOMAIN w, Says(w[k])
        PROVE  /\ w[k].order_id \in Nat /\ ~Untold(w[k].order_id)
               /\ at[w[k].order_id] = Spot(w[k]) /\ w[k].side # "BUY_SELL_STOP"
    <3>1. PICK i \in DOMAIN odrMap : w[k] = odrMap[i] /\ w[k].order_id = i
      BY <1>5
    <3>2. ~Untold(i) /\ Known(i) /\ i \in Nat
      BY <1>6, <1>8, <2>1, <3>1 DEF Says
    <3>3. at[i] = Spot(odrMap[i])
      BY <3>2 DEF BookInv, SpotsInv, OrderAt
    <3> QED
      BY <1>6, <3>1, <3>2, <3>3
  <2> QED
    BY <1>7, <1>9, <2>1 DEF UnderWayInv, Faithful
<1>12. ASSUME NEW i \in Nat, ~(cuts > 0 /\ Gone(i)) PROVE Tells(Has(i), w, i, Due(i))
  <2>1. CASE i \in DOMAIN odrMap /\ odrMap[i].price # STOP_PRICE
    <3>1. PICK k \in DOMAIN w : w[k] = odrMap[i]
      BY <1>4, <2>1
    <3>2. About(w[k], i)
      BY <1>6, <2>1, <3>1 DEF About, Says
    <3>3. CalcRemainQuantity(w[k]) = Due(i)
      BY <1>6, <1>8, <2>1, <3>1 DEF Due, OrderAt
    <3>4. \A j \in DOMAIN w : j > k => ~About(w[j], i)
      <4>1. SUFFICES ASSUME NEW j \in DOMAIN w, j > k, About(w[j], i) PROVE FALSE
        OBVIOUS
      <4>2. w[j] = odrMap[i]
        BY <1>5, <4>1 DEF About
      <4>3. j = k /\ k \in Nat
        BY <1>4, <3>1, <4>2
      <4> QED
        BY <4>1, <4>3
    <3> QED
      BY <3>2, <3>3, <3>4 DEF Tells
  <2>2. CASE ~(i \in DOMAIN odrMap /\ odrMap[i].price # STOP_PRICE)
    <3>1. \A k \in DOMAIN w : ~About(w[k], i)
      BY <1>5, <2>2 DEF About, Says
    <3>2. Due(i) = 0
      BY <1>8, <2>2 DEF Due
    <3>3. Has(i) = 0
      <4>1. CASE Untold(i)
        BY <4>1 DEF BookInv, SpotsInv, Has
      <4>2. CASE ~Untold(i)
        <5>1. Gone(i)
          BY <1>2, <1>8, <2>2, <4>2 DEF Gone, TypeOK
        <5>2. cuts = 0
          BY <1>12, <5>1 DEF FeedTypeOK
        <5> QED
          BY <1>1, <5>2 DEF BookInv, DownInv, Has
      <4> QED
        BY <4>1, <4>2
    <3> QED
      BY <3>1, <3>2, <3>3 DEF Tells
  <2> QED
    BY <2>1, <2>2
<1>13. ToldInv'
  BY <1>7, <1>9, <1>12 DEF ToldInv
<1>14. DownInv'
  BY <1>1 DEF DownInv
<1>15. FeedTypeOK'
  <2>1. wire' \in Seq(Order)
    <3>1. {odrMap[i] : i \in DOMAIN odrMap} \subseteq Order
      BY <1>6
    <3>2. \A n \in Nat : [1 .. n -> {odrMap[i] : i \in DOMAIN odrMap}] \subseteq [1 .. n -> Order]
      BY <3>1
    <3> QED
      BY <1>3, <1>4, <3>1
  <2> QED
    BY <1>1, <1>9, <2>1 DEF FeedTypeOK
<1> QED
  BY <1>10, <1>11, <1>13, <1>14, <1>15 DEF BookInv

\* A connection that breaks leaves the book as it is; the records stay.
LEMMA CutOk ==
  ASSUME TypeOK, FeedTypeOK, NEW at \in [Nat -> Spots], BookInv(at), Cut
  PROVE  FeedTypeOK' /\ BookInv(at)'
<1>1. /\ up' = FALSE /\ wire' = <<>> /\ cuts' = cuts + 1 /\ UNCHANGED <<vars, mdVars, misled>>
  BY DEF Cut
<1>2. /\ \A i : /\ Untold(i)' = Untold(i) /\ Known(i)' = Known(i) /\ OrderAt(i)' = OrderAt(i)
      /\ mdOrders' = mdOrders /\ mdBook' = mdBook /\ mdCorrupt' = mdCorrupt
      /\ misled' = misled /\ cbRecords' = cbRecords
  BY <1>1 DEF Untold, Known, OrderAt, InHand, Taker, vars, engineVars, callVars, mdVars
<1>3. SpotsInv(at)' /\ LevelsInv(at)' /\ ~mdCorrupt'
  BY <1>2 DEF BookInv, SpotsInv, LevelsInv, At
<1>4. ToldInv' /\ DownInv'
  BY <1>1 DEF ToldInv, DownInv, FeedTypeOK
<1>5. UnderWayInv(at)'
  <2>1. /\ Pending' = cbRecords /\ Pending = wire \o cbRecords
        /\ wire \in Seq(Order) /\ cbRecords \in Seq(Order)
    BY <1>1, <1>2 DEF Pending, TypeOK, FeedTypeOK
  <2>2. \A k \in DOMAIN cbRecords : \E j \in DOMAIN Pending : Pending[j] = cbRecords[k]
    <3>1. SUFFICES ASSUME NEW k \in DOMAIN cbRecords
                   PROVE  \E j \in DOMAIN Pending : Pending[j] = cbRecords[k]
      OBVIOUS
    <3>2. k + Len(wire) \in DOMAIN Pending /\ Pending[k + Len(wire)] = cbRecords[k]
      BY <2>1, <3>1
    <3> QED
      BY <3>2
  <2>3. \A k \in DOMAIN Pending' : Faithful(Pending'[k], at)
    BY <2>1, <2>2 DEF BookInv, UnderWayInv
  <2> QED
    BY <1>2, <2>3 DEF UnderWayInv, Faithful
<1>6. FeedTypeOK'
  <2>1. cuts' \in Nat
    BY <1>1 DEF FeedTypeOK
  <2>2. <<>> \in Seq(Order)
    OBVIOUS
  <2>3. wire' \in Seq(Order)
    BY <1>1, <2>2
  <2>4. up' \in BOOLEAN
    BY <1>1
  <2> QED
    BY <1>2, <2>1, <2>3, <2>4 DEF FeedTypeOK
<1> QED
  BY <1>3, <1>4, <1>5, <1>6 DEF BookInv

-----------------------------------------------------------------------------
\* A step that the book need not know of leaves the order as it is for the book.
Unmoved(i) ==
  /\ Untold(i)' => Untold(i)
  /\ Known(i)' /\ ~Untold(i)' =>
       ~Untold(i) /\ Known(i) /\ Spot(OrderAt(i))' = Spot(OrderAt(i))
  /\ Due(i)' = Due(i)
  /\ Gone(i) => Gone(i)'

\* A step that the message m reports.
Moved(m, sp) ==
  /\ Says(m) /\ m.order_id \in Nat /\ m.side # "BUY_SELL_STOP"
  /\ Known(m.order_id) /\ ~Untold(m.order_id)'
  /\ Spot(m) = IF Untold(m.order_id) THEN sp ELSE Spot(OrderAt(m.order_id))
  /\ Known(m.order_id)' => Spot(OrderAt(m.order_id))' = Spot(m)
  /\ Due(m.order_id)' = CalcRemainQuantity(m)

\* A step that says nothing and leaves every order as it is for the book.
LEMMA NothingTold ==
  ASSUME NEW cbs, NEW sp, \A k \in DOMAIN cbs : ~Says(cbs[k]), \A i \in Nat : Unmoved(i)
  PROVE  Told(cbs, sp)
  BY DEF Told, Unmoved, About

\* A step that reports the one order that it moves.
LEMMA OneTold ==
  ASSUME NEW m, NEW sp, Moved(m, sp), \A i \in Nat : i # m.order_id => Unmoved(i)
  PROVE  Told(<<m>>, sp)
<1>1. PICK cbs : cbs = <<m>>
  OBVIOUS
<1>2. DOMAIN cbs = {1} /\ cbs[1] = m
  BY <1>1
<1>3. PICK n : n = m.order_id
  OBVIOUS
<1>4. /\ Says(m) /\ n \in Nat /\ m.side # "BUY_SELL_STOP" /\ Known(n) /\ ~Untold(n)'
      /\ Spot(m) = IF Untold(n) THEN sp ELSE Spot(OrderAt(n))
      /\ Known(n)' => Spot(OrderAt(n))' = Spot(m)
      /\ Due(n)' = CalcRemainQuantity(m)
  BY <1>3 DEF Moved
<1>5. \A i \in Nat : i # n => Unmoved(i)
  BY <1>3
<1>6. \A i : About(m, i) <=> i = n
  BY <1>3, <1>4 DEF About
<1>7. \A i \in Nat :
        /\ Untold(i)' => Untold(i)
        /\ Known(i)' /\ ~Untold(i)' =>
             /\ Untold(i) => Spot(OrderAt(i))' = sp
             /\ ~Untold(i) => Known(i) /\ Spot(OrderAt(i))' = Spot(OrderAt(i))
        /\ Gone(i) => Gone(i)'
  BY <1>4, <1>5 DEF Unmoved, Gone
<1>8. \A i \in Nat : IF i = n THEN Due(i)' = CalcRemainQuantity(m) ELSE Due(i)' = Due(i)
  BY <1>4, <1>5 DEF Unmoved
<1>9. \A k \in DOMAIN cbs : Says(cbs[k]) =>
        LET i == cbs[k].order_id
        IN /\ i \in Nat /\ ~Untold(i)' /\ cbs[k].side # "BUY_SELL_STOP"
           /\ Untold(i) => Spot(cbs[k]) = sp
           /\ ~Untold(i) => Known(i) /\ Spot(cbs[k]) = Spot(OrderAt(i))
  BY <1>2, <1>3, <1>4
<1>10. \A i \in Nat :
         /\ \A k \in DOMAIN cbs : About(cbs[k], i) => Due(i)' = CalcRemainQuantity(cbs[k])
         /\ (\A k \in DOMAIN cbs : ~About(cbs[k], i)) => Due(i)' = Due(i)
  BY <1>2, <1>6, <1>8
<1> QED
  BY <1>1, <1>7, <1>9, <1>10 DEF Told

\* A step that reports the two orders that it moves.
LEMMA TwoTold ==
  ASSUME NEW m, NEW t, NEW sp, Moved(m, sp), Moved(t, sp), m.order_id # t.order_id,
         \A i \in Nat : i # m.order_id /\ i # t.order_id => Unmoved(i)
  PROVE  Told(<<m, t>>, sp)
<1>1. PICK cbs : cbs = <<m, t>>
  OBVIOUS
<1>2. DOMAIN cbs = {1, 2} /\ cbs[1] = m /\ cbs[2] = t
  BY <1>1
<1>3. PICK n, l : n = m.order_id /\ l = t.order_id
  OBVIOUS
<1>4. /\ Says(m) /\ n \in Nat /\ m.side # "BUY_SELL_STOP" /\ Known(n) /\ ~Untold(n)'
      /\ Spot(m) = IF Untold(n) THEN sp ELSE Spot(OrderAt(n))
      /\ Known(n)' => Spot(OrderAt(n))' = Spot(m)
      /\ Due(n)' = CalcRemainQuantity(m)
  BY <1>3 DEF Moved
<1>5. /\ Says(t) /\ l \in Nat /\ t.side # "BUY_SELL_STOP" /\ Known(l) /\ ~Untold(l)'
      /\ Spot(t) = IF Untold(l) THEN sp ELSE Spot(OrderAt(l))
      /\ Known(l)' => Spot(OrderAt(l))' = Spot(t)
      /\ Due(l)' = CalcRemainQuantity(t)
  BY <1>3 DEF Moved
<1>6. n # l /\ \A i \in Nat : i # n /\ i # l => Unmoved(i)
  BY <1>3
<1>7. \A i : (About(m, i) <=> i = n) /\ (About(t, i) <=> i = l)
  BY <1>3, <1>4, <1>5 DEF About
<1>8. \A i \in Nat :
        /\ Untold(i)' => Untold(i)
        /\ Known(i)' /\ ~Untold(i)' =>
             /\ Untold(i) => Spot(OrderAt(i))' = sp
             /\ ~Untold(i) => Known(i) /\ Spot(OrderAt(i))' = Spot(OrderAt(i))
        /\ Gone(i) => Gone(i)'
  BY <1>4, <1>5, <1>6 DEF Unmoved, Gone
<1>9. \A i \in Nat : /\ i = n => Due(i)' = CalcRemainQuantity(m)
                     /\ i = l => Due(i)' = CalcRemainQuantity(t)
                     /\ i # n /\ i # l => Due(i)' = Due(i)
  BY <1>4, <1>5, <1>6 DEF Unmoved
<1>10. \A k \in DOMAIN cbs : Says(cbs[k]) =>
         LET i == cbs[k].order_id
         IN /\ i \in Nat /\ ~Untold(i)' /\ cbs[k].side # "BUY_SELL_STOP"
            /\ Untold(i) => Spot(cbs[k]) = sp
            /\ ~Untold(i) => Known(i) /\ Spot(cbs[k]) = Spot(OrderAt(i))
  BY <1>2, <1>3, <1>4, <1>5
<1>11. \A i \in Nat :
         /\ \A k \in DOMAIN cbs : About(cbs[k], i) => Due(i)' = CalcRemainQuantity(cbs[k])
         /\ (\A k \in DOMAIN cbs : ~About(cbs[k], i)) => Due(i)' = Due(i)
  BY <1>2, <1>6, <1>7, <1>9
<1> QED
  BY <1>1, <1>8, <1>10, <1>11 DEF Told

\* What the book reads of two orders is the same.
Looks(a, b) ==
  /\ TradeSide(a) = TradeSide(b) /\ a.price = b.price
  /\ a.order_state = b.order_state /\ a.remain_quantity = b.remain_quantity

\* Every order that exists has an id that was handed out.
LEMMA KnownFacts ==
  ASSUME TypeOK, CallInv
  PROVE  /\ \A i : Known(i) => i \in Nat /\ 0 < i /\ i < nextId
         /\ \A i : InHand(i) => OrderAt(i) = Taker
         /\ nextId \in Nat
<1>1. \A i \in DOMAIN odrMap : i \in Nat /\ 0 < i /\ i < nextId /\ odrMap[i].order_id = i
  BY DEF TypeOK
<1>2. ASSUME NEW i, InHand(i)
      PROVE  i \in Nat /\ 0 < i /\ i < nextId /\ OrderAt(i) = Taker
  <2>1. CASE taker = 0
    <3>1. i = o.order_id /\ i \notin DOMAIN odrMap /\ 0 < i /\ i < nextId /\ o \in Order
      BY <1>2, <2>1 DEF InHand, Taker, CallInv, TypeOK
    <3> QED
      BY <2>1, <3>1, FieldFacts DEF OrderAt, Taker
  <2>2. CASE taker # 0
    <3>1. taker \in DOMAIN odrMap /\ i = odrMap[taker].order_id
      BY <1>2, <2>2 DEF InHand, Taker, CallInv
    <3> QED
      BY <1>1, <2>2, <3>1 DEF OrderAt, Taker
  <2> QED
    BY <2>1, <2>2
<1> QED
  BY <1>1, <1>2 DEF Known, TypeOK

\* An order that stays where it is and as it is.
LEMMA KeptUnmoved ==
  ASSUME TypeOK, CallInv, NEW i \in Nat, nextId' \in Nat, nextId <= nextId',
         i \in DOMAIN odrMap' <=> i \in DOMAIN odrMap,
         i \in DOMAIN odrMap => Looks(odrMap'[i], odrMap[i]),
         ~InHand(i), ~InHand(i)'
  PROVE  Unmoved(i)
<1>1. nextId \in Nat /\ (i \in DOMAIN odrMap => i < nextId)
  BY DEF TypeOK
<1>2. (Known(i)' <=> Known(i)) /\ (Known(i) <=> i \in DOMAIN odrMap)
  BY DEF Known
<1>3. Untold(i) <=> i >= nextId \/ (i \in DOMAIN odrMap /\ odrMap[i].price = STOP_PRICE)
  BY DEF Untold
<1>4. Untold(i)' <=> i >= nextId' \/ (i \in DOMAIN odrMap' /\ odrMap'[i].price = STOP_PRICE)
  BY DEF Untold
<1>5. CASE i \in DOMAIN odrMap
  <2>1. Untold(i)' <=> Untold(i)
    BY <1>1, <1>3, <1>4, <1>5 DEF Looks
  <2>2. OrderAt(i) = odrMap[i] /\ OrderAt(i)' = odrMap'[i]
    BY <1>5 DEF OrderAt
  <2>3. /\ Spot(OrderAt(i))' = Spot(OrderAt(i))
        /\ CalcRemainQuantity(OrderAt(i))' = CalcRemainQuantity(OrderAt(i))
    BY <1>5, <2>2 DEF Looks, Spot, CalcRemainQuantity
  <2> QED
    BY <1>2, <1>5, <2>1, <2>3 DEF Unmoved, Due, Gone
<1>6. CASE i \notin DOMAIN odrMap
  <2>1. ~Known(i) /\ ~Known(i)' /\ (Untold(i)' => Untold(i))
    BY <1>1, <1>2, <1>3, <1>4, <1>6
  <2>2. i < nextId => i < nextId'
    BY <1>1
  <2> QED
    BY <2>1, <2>2 DEF Unmoved, Due, Gone
<1> QED
  BY <1>5, <1>6

\* The same when every order stays as it is and the one in hand stays in hand.
LEMMA AllUnmoved ==
  ASSUME UNCHANGED <<odrMap, nextId, o, taker>>, pc' = pc
  PROVE  \A i \in Nat : Unmoved(i)
<1>1. \A i : /\ Untold(i)' = Untold(i) /\ Known(i)' = Known(i) /\ OrderAt(i)' = OrderAt(i)
             /\ Due(i)' = Due(i) /\ Gone(i)' = Gone(i)
  BY DEF Untold, Known, OrderAt, Due, Gone, InHand, Taker
<1> QED
  BY <1>1 DEF Unmoved

\* A step tells the truth about the orders, in at most two messages.
Truthful ==
  \E sp \in Spots : \E cbs :
    Few(cbs, Order) /\ Told(cbs, sp) /\ (Callback(cbs) \/ (cbs = <<>> /\ Silent))

\* The same three, for a step and its call of callback.
LEMMA SilentTruth ==
  ASSUME Silent, \A i \in Nat : Unmoved(i)
  PROVE  Truthful
<1>1. PICK sp : sp = <<"BUY", 0>>
  OBVIOUS
<1>2. sp \in Spots
  BY <1>1 DEF Spots, Sides
<1>3. PICK cbs : cbs = <<>>
  OBVIOUS
<1>4. DOMAIN cbs = {}
  BY <1>3
<1>5. Told(cbs, sp)
  BY <1>4, NothingTold
<1> QED
  BY <1>2, <1>3, <1>5 DEF Truthful, Few

\* A message that the book passes over.
LEMMA QuietTruth ==
  ASSUME NEW m \in Order, ~Says(m), Callback(<<m>>), \A i \in Nat : Unmoved(i)
  PROVE  Truthful
<1>1. PICK sp : sp = <<"BUY", 0>>
  OBVIOUS
<1>2. sp \in Spots
  BY <1>1 DEF Spots, Sides
<1>3. PICK cbs : cbs = <<m>>
  OBVIOUS
<1>4. DOMAIN cbs = {1} /\ cbs[1] = m
  BY <1>3
<1>5. Told(cbs, sp)
  BY <1>4, NothingTold
<1>6. Few(cbs, Order)
  BY <1>3 DEF Few
<1> QED
  BY <1>2, <1>3, <1>5, <1>6 DEF Truthful

\* A message about the one order that moves.
LEMMA OneTruth ==
  ASSUME NEW m \in Order, NEW sp \in Spots, Moved(m, sp), Callback(<<m>>),
         \A i \in Nat : i # m.order_id => Unmoved(i)
  PROVE  Truthful
<1>1. Told(<<m>>, sp) /\ Few(<<m>>, Order)
  BY OneTold DEF Few
<1> QED
  BY <1>1 DEF Truthful

\* A call that starts reports nothing, or rejects a stop of an auction.
LEMMA HandleTells ==
  ASSUME KInv, ~corrupt, RecordsInv, NoBothStops, NEW r \in Requests,
         Handle(r) \/ HandleAuctionStop(r)
  PROVE  Truthful
<1>1. TypeOK /\ CallInv
  BY DEF KInv, JInv, IInv
<1>2. /\ UNCHANGED <<odrMap, nextId>> /\ pc \notin {"match", "fok"} /\ pc' \notin {"match", "fok"}
      /\ nextId \in Nat
  BY <1>1, RequestActions DEF Handle, HandleAuctionStop, storeVars, callVars, TypeOK, Actions
<1>3. \A i \in Nat : Unmoved(i)
  BY <1>1, <1>2, KeptUnmoved DEF InHand, Looks
<1>4. CASE Handle(r)
  BY <1>3, <1>4, SilentTruth DEF Handle
<1>5. CASE HandleAuctionStop(r)
  <2>1. PICK m : m = [r EXCEPT !.order_state = "REJECT_AUCTION_SUPPORT_BUY_SELL_ONLY"]
    OBVIOUS
  <2>2. r \in Order /\ "REJECT_AUCTION_SUPPORT_BUY_SELL_ONLY" \in States
    BY <1>1, RequestFacts DEF States, RejectStates
  <2>3. m \in Order /\ m.order_state \in RejectStates
    BY <2>1, <2>2, StateFacts DEF RejectStates
  <2>4. emitted' = <<m>> /\ cbRecords' = cbRecords
    BY <1>5, <2>1 DEF HandleAuctionStop
  <2>5. ~isAuction
    BY <1>5 DEF HandleAuctionStop, RecordsInv
  <2>6. Callback(<<m>>)
    BY <2>4, <2>5 DEF Callback
  <2> QED
    BY <1>3, <2>3, <2>6, QuietTruth DEF Says
<1> QED
  BY <1>4, <1>5

\* The order in hand that is filled leaves nothing to be counted when it is let go.
LEMMA FilledUnmoved ==
  ASSUME KInv, ~corrupt, TakerInv, pc \in {"match", "fok"}, Taker.remain_quantity = 0,
         UNCHANGED <<odrMap, nextId>>, pc' \notin {"match", "fok"}
  PROVE  \A i \in Nat : Unmoved(i)
<1>1. TypeOK /\ CallInv /\ Places
  BY DEF KInv, JInv, IInv, Places
<1>2. SUFFICES ASSUME NEW i \in Nat, InHand(i) PROVE Unmoved(i)
  <2>1. \A i : ~InHand(i)'
    BY DEF InHand
  <2>2. nextId \in Nat /\ nextId' = nextId
    BY <1>1 DEF TypeOK
  <2> QED
    BY <1>1, <2>1, <2>2, KeptUnmoved DEF Looks
<1>3. /\ Known(i) /\ i < nextId /\ OrderAt(i) = Taker /\ nextId' = nextId /\ odrMap' = odrMap
      /\ ~InHand(i)'
  BY <1>1, <1>2, KnownFacts DEF Known, InHand
<1>4. Taker.quantity > 0 /\ Taker.price # STOP_PRICE
  BY <1>1, SentinelAssumption, TickAssumption DEF TakerInv, Places, LimitInv
<1>5. i \in DOMAIN odrMap => odrMap[i] = Taker
  BY <1>3 DEF OrderAt
<1>6. nextId \in Nat
  BY <1>1 DEF TypeOK
<1>7. ~Untold(i) /\ ~Untold(i)'
  BY <1>3, <1>4, <1>5, <1>6 DEF Untold
<1>8. Due(i) = 0
  BY <1>3 DEF Due, CalcRemainQuantity
<1>9. CASE i \in DOMAIN odrMap
  <2>1. OrderAt(i)' = OrderAt(i)
    BY <1>3, <1>9 DEF OrderAt
  <2> QED
    BY <1>3, <1>7, <1>8, <1>9, <2>1 DEF Unmoved, Due, Known, Gone
<1>10. CASE i \notin DOMAIN odrMap
  BY <1>3, <1>7, <1>8, <1>10 DEF Unmoved, Due, Known, Gone
<1> QED
  BY <1>9, <1>10

\* These steps leave every order as it is for the book.
LEMMA QuietUnmoved ==
  ASSUME KInv, ~corrupt, TakerInv, QuietStep
  PROVE  \A i \in Nat : Unmoved(i)
<1>1. TypeOK /\ CallInv /\ IInv
  BY DEF KInv, JInv, IInv
<1>2. odrMap' = odrMap /\ pc' \notin {"match", "fok"}
  BY <1>1, QuietFacts
<1>3. CASE MatchDone \/ FokDone
  <2>1. /\ pc \in {"match", "fok"} /\ nextId' = nextId
        /\ pc = "fok" => left = 0 /\ plan = <<>>
        /\ pc = "match" => Taker.remain_quantity = 0
    BY <1>3 DEF MatchDone, FokDone, storeVars
  <2>2. Taker.remain_quantity = 0
    BY <1>1, <2>1 DEF IInv, PlanInv
  <2> QED
    BY <1>2, <2>1, <2>2, FilledUnmoved
<1>4. CASE ~(MatchDone \/ FokDone)
  <2>1. pc \notin {"match", "fok"} /\ nextId' \in {nextId, nextId + 1}
    BY <1>4 DEF QuietStep, RejectNew, MatchReturn, SweepReturn, FireReturn, CancelUnknown,
      RejectAmend, FlushAuction, Unlock, storeVars
  <2>2. \A i : ~InHand(i) /\ ~InHand(i)'
    BY <1>2, <2>1 DEF InHand
  <2>3. nextId' \in Nat /\ nextId <= nextId'
    BY <1>1, <2>1 DEF TypeOK
  <2> QED
    BY <1>1, <1>2, <2>2, <2>3, KeptUnmoved DEF Looks
<1> QED
  BY <1>3, <1>4

\* These steps report nothing, or a reject.
LEMMA QuietTells ==
  ASSUME KInv, KInv', ~corrupt, TakerInv, QuietStep, ~FlushAuction
  PROVE  Truthful
<1>1. TypeOK /\ CallInv /\ IInv /\ TypeOK'
  BY DEF KInv, JInv, IInv
<1>2. \A i \in Nat : Unmoved(i)
  BY QuietUnmoved
<1>3. CASE RejectNew \/ CancelUnknown \/ RejectAmend
  <2>1. Callback(<<o'>>) /\ o' \in Order
    BY <1>1, <1>3 DEF RejectNew, CancelUnknown, RejectAmend, TypeOK
  <2>2. o'.order_state \in RejectStates
    <3>1. CASE RejectNew
      <4>1. o'.order_state = RejectReason(o)
        BY <1>1, <3>1 DEF RejectNew, TypeOK, Order
      <4>2. RejectReason(o) # "NONE"
        BY <3>1 DEF RejectNew
      <4> QED
        BY <4>1, <4>2 DEF RejectReason, RejectStates
    <3>2. CASE CancelUnknown
      BY <1>1, <3>2 DEF CancelUnknown, TypeOK, Order, RejectStates
    <3>3. CASE RejectAmend
      BY <1>1, <3>3 DEF RejectAmend, AmendReason, TypeOK, Order, RejectStates
    <3> QED
      BY <1>3, <3>1, <3>2, <3>3
  <2>3. PICK m : m = o'
    OBVIOUS
  <2> QED
    BY <1>2, <2>1, <2>2, <2>3, QuietTruth DEF Says
<1>4. CASE ~(RejectNew \/ CancelUnknown \/ RejectAmend)
  <2>1. Silent
    BY <1>4 DEF QuietStep, MatchDone, FokDone, MatchReturn, SweepReturn, FireReturn, Unlock
  <2> QED
    BY <1>2, <2>1, SilentTruth
<1> QED
  BY <1>3, <1>4

\* fok_match collects its records, and a sweep its stops, in silence.
LEMMA StayTells ==
  ASSUME KInv, ~corrupt, FokCollect \/ SweepStops
  PROVE  Truthful
<1>1. TypeOK /\ CallInv /\ IInv
  BY DEF KInv, JInv, IInv
<1>2. CASE FokCollect
  <2>1. UNCHANGED <<odrMap, nextId, o, taker>> /\ pc' = pc /\ Silent
    BY <1>2 DEF FokCollect, storeVars
  <2> QED
    BY <2>1, AllUnmoved, SilentTruth
<1>3. CASE SweepStops
  <2>1. odrMap' = odrMap /\ nextId' = nextId /\ pc = "sweep" /\ pc' = "fire" /\ Silent
    BY <1>1, <1>3, SweepFacts DEF SweepStops, CollectStops
  <2>2. \A i : ~InHand(i) /\ ~InHand(i)'
    BY <2>1 DEF InHand
  <2>3. nextId' \in Nat /\ nextId <= nextId'
    BY <1>1, <2>1 DEF TypeOK
  <2> QED
    BY <1>1, <2>1, <2>2, <2>3, KeptUnmoved, SilentTruth DEF Looks
<1> QED
  BY <1>2, <1>3

\* A new order, matched or parked, is not told of yet.
LEMMA StartTells ==
  ASSUME KInv, KInv', ~corrupt, StartStep
  PROVE  Truthful
<1>1. TypeOK /\ CallInv /\ IInv /\ TypeOK' /\ nextId \in Nat
  BY DEF KInv, JInv, IInv, TypeOK
<1>2. /\ pc = "new" /\ nextId' = nextId + 1
      /\ taker = 0 /\ taker' = 0 /\ o'.order_id = nextId /\ nextId \notin DOMAIN odrMap
      /\ \/ pc' \in {"match", "fok"} /\ odrMap' = odrMap
         \/ /\ pc' = "done" /\ o'.price = STOP_PRICE
            /\ DOMAIN odrMap' = DOMAIN odrMap \cup {nextId} /\ odrMap'[nextId] = o'
            /\ \A i \in DOMAIN odrMap : odrMap'[i] = odrMap[i]
  BY <1>1, StartFacts, StartOrders
<1>3. Taker' = o' /\ \A i : ~InHand(i)
  BY <1>2 DEF Taker, InHand
<1>4. \A i : InHand(i)' <=> (pc' \in {"match", "fok"} /\ i = nextId)
  BY <1>2, <1>3 DEF InHand
<1>5. ASSUME NEW i \in Nat, i # nextId PROVE Unmoved(i)
  <2>1. ~InHand(i) /\ ~InHand(i)'
    BY <1>3, <1>4, <1>5
  <2>2. nextId' \in Nat /\ nextId <= nextId'
    BY <1>1, <1>2
  <2>3. /\ i \in DOMAIN odrMap' <=> i \in DOMAIN odrMap
        /\ i \in DOMAIN odrMap => Looks(odrMap'[i], odrMap[i])
    BY <1>2, <1>5 DEF Looks
  <2> QED
    BY <1>1, <2>1, <2>2, <2>3, KeptUnmoved
<1>6. pc' \in {"match", "fok"} => o'.remain_quantity = o'.quantity
  <2>1. ASSUME NEW s, StopNow(s) PROVE o'.remain_quantity = o'.quantity
    <3>1. InitNewOrder(o) \in Order /\ InitNewOrder(o).remain_quantity = InitNewOrder(o).quantity
      BY <1>1, InitFacts DEF TypeOK
    <3> QED
      BY <2>1, <3>1 DEF StopNow, Order
  <2>2. o' = InitNewOrder(o) => o'.remain_quantity = o'.quantity
    BY <1>1, InitFacts DEF TypeOK
  <2>3. Park => pc' = "done"
    BY DEF Park
  <2> QED
    BY <1>1, <2>1, <2>2, <2>3, StartFacts
<1>7. PICK n : n = nextId
  OBVIOUS
<1>8. Untold(n) /\ Untold(n)' /\ ~(n < nextId)
  <2>1. Untold(n) /\ ~(n < nextId)
    BY <1>1, <1>7 DEF Untold
  <2>2. CASE pc' \in {"match", "fok"}
    <3>1. InHand(n)' /\ Taker'.remain_quantity = Taker'.quantity
      BY <1>3, <1>4, <1>6, <1>7, <2>2
    <3> QED
      BY <2>1, <3>1 DEF Untold
  <2>3. CASE pc' \notin {"match", "fok"}
    <3>1. n \in DOMAIN odrMap' /\ odrMap'[n].price = STOP_PRICE
      BY <1>2, <1>7, <2>3
    <3> QED
      BY <2>1, <3>1 DEF Untold
  <2> QED
    BY <2>2, <2>3
<1>9. \A i \in Nat : Unmoved(i)
  <2>1. Unmoved(n)
    BY <1>8 DEF Unmoved, Due, Gone
  <2> QED
    BY <1>5, <1>7, <2>1
<1>10. CASE Silent
  BY <1>9, <1>10, SilentTruth
<1>11. CASE ~Silent
  <2>1. Park
    BY <1>11 DEF StartStep, NewBuySell, NewBuyStop, NewSellStop, NewBuySellStop, StopNow
  <2>2. Callback(<<o'>>) /\ o' \in Order /\ pc' = "done"
    BY <1>1, <2>1 DEF Park, TypeOK
  <2>3. o'.price = STOP_PRICE
    BY <1>2, <2>2
  <2>4. PICK m : m = o'
    OBVIOUS
  <2> QED
    BY <1>9, <2>2, <2>3, <2>4, QuietTruth DEF Says
<1> QED
  BY <1>10, <1>11

\* A stop that fires is not told of before something of it is filled.
LEMMA FireTells ==
  ASSUME KInv, ~corrupt, FireStop
  PROVE  Truthful
<1>1. TypeOK /\ CallInv /\ IInv /\ Places /\ nextId \in Nat
  BY DEF KInv, JInv, IInv, TypeOK, Places
<1>2. PICK e \in due :
        /\ pc = "fire" /\ Waiting(sweep, e) /\ e[2] \in Nat /\ sweep \in Sides
        /\ taker' = e[2] /\ e[2] > 0 /\ pc' \in {"match", "fok"}
        /\ DOMAIN odrMap' = DOMAIN odrMap
        /\ \A i \in DOMAIN odrMap : i # e[2] => odrMap'[i] = odrMap[i]
        /\ Taker' = odrMap'[e[2]]
        /\ Same(odrMap'[e[2]], odrMap[e[2]])
        /\ odrMap'[e[2]].remain_quantity = odrMap[e[2]].remain_quantity
  BY <1>1, FireFacts
<1>3. PICK n : n = e[2]
  OBVIOUS
<1>4. /\ n \in DOMAIN odrMap /\ odrMap[n].remain_quantity = odrMap[n].quantity
      /\ odrMap[n].price = STOP_PRICE /\ odrMap[n].order_id = n /\ n < nextId
  <2>1. odrMap[n].price = STOP_PRICE
    BY <1>1, <1>2, <1>3 DEF Places, LimitInv
  <2> QED
    BY <1>1, <1>2, <1>3, <2>1 DEF Waiting, TypeOK
<1>5. nextId' = nextId /\ Silent
  BY DEF FireStop
<1>6. \A i : ~InHand(i)
  BY <1>2 DEF InHand
<1>7. /\ \A i : InHand(i)' <=> i = n
      /\ Taker'.remain_quantity = Taker'.quantity
  BY <1>2, <1>3, <1>4 DEF InHand, Same
<1>8. ASSUME NEW i \in Nat, i # n PROVE Unmoved(i)
  <2>1. nextId' \in Nat /\ nextId <= nextId'
    BY <1>1, <1>5
  <2>2. /\ i \in DOMAIN odrMap' <=> i \in DOMAIN odrMap
        /\ i \in DOMAIN odrMap => Looks(odrMap'[i], odrMap[i])
    BY <1>2, <1>3, <1>8 DEF Looks
  <2> QED
    BY <1>1, <1>6, <1>7, <1>8, <2>1, <2>2, KeptUnmoved
<1>9. Untold(n) /\ Untold(n)' /\ Known(n)
  BY <1>4, <1>7 DEF Untold, Known
<1>10. Unmoved(n)
  BY <1>9 DEF Unmoved, Due, Gone
<1> QED
  BY <1>2, <1>3, <1>5, <1>8, <1>10, SilentTruth

\* The cancel is told of, unless the order waits as a stop.
LEMMA CancelTells ==
  ASSUME KInv, ~corrupt, CancelParked \/ CancelResting
  PROVE  Truthful
<1> DEFINE id == o.order_id
           ori == odrMap[id]
<1>1. TypeOK /\ CallInv /\ nextId \in Nat
  BY DEF KInv, JInv, IInv, TypeOK
<1>2. /\ pc = "cancel" /\ pc' \in {"erase", "sweep"}
      /\ id \in DOMAIN odrMap /\ DOMAIN odrMap' = DOMAIN odrMap
      /\ \A i \in DOMAIN odrMap : i # id => odrMap'[i] = odrMap[i]
      /\ SameEntry(odrMap'[id], ori)
      /\ odrMap'[id].order_state \in {"CANCELED_BY_USER", "CANCELED_BY_AMEND"}
  BY CancelFacts
<1>3. PICK n, m : n = id /\ m = odrMap'[id]
  OBVIOUS
<1>4. /\ nextId' = nextId /\ Callback(<<m>>) /\ m \in Order
  <2>1. PICK ord : ord = [ori EXCEPT !.order_state = IF o.order_action = "CANCEL"
                                         THEN "CANCELED_BY_USER" ELSE "CANCELED_BY_AMEND"]
    OBVIOUS
  <2>2. CancelReport(ori) /\ nextId' = nextId
    BY DEF CancelParked, CancelResting
  <2>3. Callback(<<ord>>) /\ odrMap' = [odrMap EXCEPT ![id] = ord]
    BY <2>1, <2>2 DEF CancelReport
  <2>4. m = ord
    BY <1>1, <1>2, <1>3, <2>3 DEF TypeOK
  <2>5. ord \in Order
    <3>1. /\ odrMap[id] \in Order
          /\ (IF o.order_action = "CANCEL" THEN "CANCELED_BY_USER" ELSE "CANCELED_BY_AMEND") \in States
      BY <1>1, <1>2 DEF TypeOK, States, DoneStates
    <3> QED
      BY <2>1, <3>1, StateFacts
  <2> QED
    BY <2>2, <2>3, <2>4, <2>5
<1>5. /\ n \in DOMAIN odrMap /\ n \in DOMAIN odrMap' /\ odrMap'[n] = m /\ n \in Nat /\ n < nextId
      /\ m.order_id = n /\ m.price = odrMap[n].price /\ m.side = odrMap[n].side
      /\ m.side # "BUY_SELL_STOP"
      /\ m.order_state \in {"CANCELED_BY_USER", "CANCELED_BY_AMEND"}
  BY <1>1, <1>2, <1>3 DEF TypeOK, CallInv, SameEntry
<1>6. \A i : ~InHand(i) /\ ~InHand(i)'
  BY <1>2 DEF InHand
<1>7. ASSUME NEW i \in Nat, i # n PROVE Unmoved(i)
  <2>1. /\ i \in DOMAIN odrMap' <=> i \in DOMAIN odrMap
        /\ i \in DOMAIN odrMap => Looks(odrMap'[i], odrMap[i])
    BY <1>2, <1>3, <1>7 DEF Looks
  <2>2. nextId' \in Nat /\ nextId <= nextId'
    BY <1>1, <1>4
  <2> QED
    BY <1>1, <1>6, <2>1, <2>2, KeptUnmoved
<1>8. /\ Known(n) /\ Known(n)' /\ OrderAt(n) = odrMap[n] /\ OrderAt(n)' = m
      /\ Untold(n) <=> m.price = STOP_PRICE
      /\ Untold(n)' <=> m.price = STOP_PRICE
  BY <1>1, <1>4, <1>5, <1>6 DEF Known, OrderAt, Untold
<1>9. Spot(m) = Spot(odrMap[n])
  BY <1>5 DEF Spot, TradeSide
<1> HIDE DEF id, ori
<1>10. CASE m.price = STOP_PRICE
  <2>1. Unmoved(n)
    BY <1>8, <1>10 DEF Unmoved, Due, Gone
  <2> QED
    BY <1>4, <1>7, <1>10, <2>1, QuietTruth DEF Says
<1>11. CASE m.price # STOP_PRICE
  <2>1. PICK sp : sp = Spot(m)
    OBVIOUS
  <2>2. sp \in Spots
    BY <1>4, <2>1, FieldFacts DEF Spots, Spot, TradeSide, Sides
  <2>3. Says(m)
    BY <1>5, <1>11 DEF Says, RejectStates
  <2>4. CalcRemainQuantity(m) = 0
    BY <1>5 DEF CalcRemainQuantity, LiveStates
  <2>5. Due(n)' = 0
    BY <1>8, <2>4 DEF Due
  <2>6. Moved(m, sp)
    BY <1>5, <1>8, <1>9, <1>11, <2>1, <2>3, <2>4, <2>5 DEF Moved
  <2> QED
    BY <1>4, <1>5, <1>7, <2>2, <2>6, OneTruth
<1> QED
  BY <1>10, <1>11

\* An order that is erased was told to have ended.
LEMMA EraseTells ==
  ASSUME KInv, ~corrupt, EraseCanceled
  PROVE  Truthful
<1>1. TypeOK /\ CallInv /\ FiredInv /\ nextId \in Nat
  BY DEF KInv, JInv, IInv, TypeOK
<1>2. /\ pc = "erase" /\ pc' \in {"done", "new"} /\ nextId' = nextId /\ Silent
      /\ odrMap' = Drop(odrMap, o.order_id)
  BY DEF EraseCanceled
<1>3. PICK n : n = o.order_id
  OBVIOUS
<1>4. Canceling
  BY <1>1, <1>2 DEF Canceling, FiredInv
<1>5. n \in DOMAIN odrMap /\ odrMap[n].order_state \notin LiveStates /\ n \in Nat /\ n < nextId
  BY <1>1, <1>3, <1>4, CanceledApart DEF TypeOK
<1>6. /\ DOMAIN odrMap' = DOMAIN odrMap \ {n}
      /\ \A i \in DOMAIN odrMap : i # n => odrMap'[i] = odrMap[i]
  BY <1>2, <1>3 DEF Drop
<1>7. \A i : ~InHand(i) /\ ~InHand(i)'
  BY <1>2 DEF InHand
<1>8. ASSUME NEW i \in Nat, i # n PROVE Unmoved(i)
  <2>1. nextId' \in Nat /\ nextId <= nextId'
    BY <1>1, <1>2
  <2> QED
    BY <1>1, <1>6, <1>7, <1>8, <2>1, KeptUnmoved DEF Looks
<1>9. Unmoved(n)
  <2>1. Known(n) /\ ~Known(n)' /\ ~Untold(n)' /\ OrderAt(n) = odrMap[n]
    BY <1>1, <1>2, <1>5, <1>6, <1>7 DEF Known, Untold, OrderAt
  <2>2. Due(n) = 0 /\ Due(n)' = 0
    BY <1>5, <2>1 DEF Due, CalcRemainQuantity
  <2> QED
    BY <2>1, <2>2 DEF Unmoved, Gone
<1> QED
  BY <1>2, <1>8, <1>9, SilentTruth

\* An amend in place is told of, unless the order waits as a stop.
LEMMA AmendTells ==
  ASSUME KInv, KInv', ~corrupt, AmendInPlace \/ AmendReplace
  PROVE  Truthful
<1>1. TypeOK /\ CallInv /\ Places /\ nextId \in Nat /\ TypeOK'
  BY DEF KInv, JInv, IInv, TypeOK, Places
<1>2. PICK n : n = o.order_id
  OBVIOUS
<1>3. /\ pc = "amend" /\ pc' \in {"done", "cancel"} /\ n \in DOMAIN odrMap /\ nextId' = nextId
      /\ n \in Nat /\ n < nextId /\ odrMap[n] \in Order /\ odrMap[n].side # "BUY_SELL_STOP"
      /\ odrMap[n].order_id = n
  BY <1>1, <1>2 DEF AmendInPlace, AmendReplace, AmendReason, TypeOK, CallInv
<1>4. PICK m : /\ odrMap' = [odrMap EXCEPT ![n] = m]
               /\ m.order_id = n /\ m.side = odrMap[n].side /\ m.price = odrMap[n].price
               /\ m.order_state = odrMap[n].order_state
               /\ AmendReplace => m.remain_quantity = odrMap[n].remain_quantity
  <2>1. CASE AmendInPlace
    <3> DEFINE new == [odrMap[n] EXCEPT !.order_action = "AMEND", !.quantity = o.quantity,
                                        !.display_quantity = o.display_quantity,
                                        !.remain_quantity = o.quantity]
    <3>1. /\ new.order_id = n /\ new.side = odrMap[n].side /\ new.price = odrMap[n].price
          /\ new.order_state = odrMap[n].order_state
      BY <1>3 DEF Order
    <3>2. odrMap' = [odrMap EXCEPT ![n] = new]
      BY <1>1, <1>2, <1>3, <2>1 DEF AmendInPlace, TypeOK, Order
    <3>3. ~AmendReplace
      BY <2>1 DEF AmendInPlace, AmendReplace
    <3> HIDE DEF new
    <3> QED
      BY <3>1, <3>2, <3>3
  <2>2. CASE AmendReplace
    <3> DEFINE new == [odrMap[n] EXCEPT !.order_action = "AMEND"]
    <3>1. /\ new.order_id = n /\ new.side = odrMap[n].side /\ new.price = odrMap[n].price
          /\ new.order_state = odrMap[n].order_state
          /\ new.remain_quantity = odrMap[n].remain_quantity
      BY <1>3 DEF Order
    <3>2. odrMap' = [odrMap EXCEPT ![n] = new]
      BY <1>2, <2>2 DEF AmendReplace
    <3> HIDE DEF new
    <3> QED
      BY <3>1, <3>2
  <2> QED
    BY <2>1, <2>2
<1>5. /\ DOMAIN odrMap' = DOMAIN odrMap /\ odrMap'[n] = m
      /\ \A i \in DOMAIN odrMap : i # n => odrMap'[i] = odrMap[i]
  BY <1>1, <1>3, <1>4 DEF TypeOK
<1>6. \A i : ~InHand(i) /\ ~InHand(i)'
  BY <1>3 DEF InHand
<1>7. ASSUME NEW i \in Nat, i # n \/ AmendReplace PROVE Unmoved(i)
  <2>1. nextId' \in Nat /\ nextId <= nextId'
    BY <1>1, <1>3
  <2>2. i \in DOMAIN odrMap => Looks(odrMap'[i], odrMap[i])
    BY <1>3, <1>4, <1>5, <1>7 DEF Looks, TradeSide
  <2> QED
    BY <1>1, <1>5, <1>6, <2>1, <2>2, KeptUnmoved
<1>8. CASE AmendReplace
  BY <1>7, <1>8, SilentTruth DEF AmendReplace
<1>9. CASE AmendInPlace
  <2>1. Callback(<<m>>) /\ m \in Order
    <3>1. odrMap'[n] \in Order
      BY <1>1, <1>3, <1>5 DEF TypeOK
    <3>2. Callback(<<odrMap'[n]>>)
      BY <1>2, <1>9 DEF AmendInPlace
    <3> QED
      BY <1>5, <3>1, <3>2
  <2>2. /\ Known(n) /\ Known(n)' /\ OrderAt(n) = odrMap[n] /\ OrderAt(n)' = m
        /\ Untold(n) <=> m.price = STOP_PRICE
        /\ Untold(n)' <=> m.price = STOP_PRICE
    BY <1>1, <1>3, <1>4, <1>5, <1>6 DEF Known, OrderAt, Untold
  <2>3. CASE m.price = STOP_PRICE
    <3>1. Unmoved(n)
      BY <2>2, <2>3 DEF Unmoved, Due, Gone
    <3> QED
      BY <1>7, <2>1, <2>3, <3>1, QuietTruth DEF Says
  <2>4. CASE m.price # STOP_PRICE
    <3>1. PICK sp : sp = Spot(m)
      OBVIOUS
    <3>2. sp \in Spots
      BY <2>1, <3>1, FieldFacts DEF Spots, Spot, TradeSide, Sides
    <3>3. Says(m)
      <4>1. m.order_state \in LiveStates \cup DoneStates
        BY <1>1, <1>3, <1>4 DEF Places, FiledInv
      <4>2. \A st \in LiveStates \cup DoneStates : st \notin RejectStates
        BY DEF LiveStates, DoneStates, RejectStates
      <4> QED
        BY <2>4, <4>1, <4>2 DEF Says
    <3>4. Due(n)' = CalcRemainQuantity(m)
      BY <2>2, <2>4 DEF Due
    <3>5. Spot(m) = Spot(odrMap[n])
      BY <1>4 DEF Spot, TradeSide
    <3>6. Moved(m, sp)
      BY <1>3, <1>4, <2>2, <2>4, <3>1, <3>3, <3>4, <3>5 DEF Moved
    <3> QED
      BY <1>4, <1>7, <2>1, <3>2, <3>6, OneTruth
  <2> QED
    BY <2>3, <2>4
<1> QED
  BY <1>8, <1>9

\* The order in hand is told to have been canceled.
LEMMA KillTells ==
  ASSUME KInv, ~corrupt, KillStep
  PROVE  Truthful
<1>1. TypeOK /\ CallInv /\ IInv /\ Places /\ nextId \in Nat
  BY DEF KInv, JInv, IInv, TypeOK, Places
<1>2. /\ pc \in {"match", "fok"} /\ pc' = "matched" /\ taker' = taker
      /\ DOMAIN odrMap' = DOMAIN odrMap
      /\ \A i \in DOMAIN odrMap : i # taker => odrMap'[i] = odrMap[i]
  BY <1>1, KillFacts
<1>3. PICK st \in DoneStates : CancelTaker(st)
  BY DEF KillStep, CancelMakerOnly, CancelRemainder, CancelMarket, FokKill, DoneStates
<1>4. PICK m, n : m = [Taker EXCEPT !.order_state = st] /\ n = Taker.order_id
  OBVIOUS
<1>5. Taker \in Order /\ (taker # 0 => Taker.order_id = taker) /\ m \in Order
      /\ m.order_id = n /\ m.price = Taker.price /\ m.side = Taker.side
      /\ m.order_state = st
  <2>1. Taker \in Order /\ (taker # 0 => Taker.order_id = taker)
    BY <1>1, TakerFacts
  <2>2. st \in States
    BY DEF States
  <2> QED
    BY <1>4, <2>1, <2>2, StateFacts DEF Same
<1>6. /\ Callback(<<m>>) /\ nextId' = nextId
      /\ SetTaker(odrMap, m)
  BY <1>3, <1>4 DEF CancelTaker
<1>7. InHand(n) /\ Known(n) /\ n \in Nat /\ 0 < n /\ n < nextId /\ OrderAt(n) = Taker
  <2>1. InHand(n)
    BY <1>2, <1>4 DEF InHand
  <2> QED
    BY <1>1, <2>1, KnownFacts DEF Known
<1>8. /\ \A i : InHand(i) <=> i = n
      /\ \A i : ~InHand(i)'
  BY <1>2, <1>4 DEF InHand
<1>9. /\ taker = 0 => n \notin DOMAIN odrMap /\ odrMap' = odrMap
      /\ taker # 0 => n = taker /\ n \in DOMAIN odrMap /\ odrMap'[n] = m
  BY <1>1, <1>2, <1>4, <1>5, <1>6 DEF CallInv, Taker, SetTaker, Put
<1>10. Taker.price # STOP_PRICE
  BY <1>1, <1>2, SentinelAssumption, TickAssumption DEF Places, LimitInv
<1>11. ASSUME NEW i \in Nat, i # n PROVE Unmoved(i)
  <2>1. nextId' \in Nat /\ nextId <= nextId'
    BY <1>1, <1>6
  <2>2. /\ i \in DOMAIN odrMap' <=> i \in DOMAIN odrMap
        /\ i \in DOMAIN odrMap => Looks(odrMap'[i], odrMap[i])
    BY <1>2, <1>9, <1>11 DEF Looks
  <2> QED
    BY <1>1, <1>8, <1>11, <2>1, <2>2, KeptUnmoved
<1>12. ~Untold(n)' /\ (Known(n)' => OrderAt(n)' = m)
  BY <1>1, <1>2, <1>5, <1>6, <1>7, <1>8, <1>9, <1>10 DEF Known, Untold, OrderAt
<1>13. PICK sp : sp = Spot(m)
  OBVIOUS
<1>14. sp \in Spots
  BY <1>5, <1>13, FieldFacts DEF Spots, Spot, TradeSide, Sides
<1>15. st \notin LiveStates /\ st \notin RejectStates
  BY DEF DoneStates, LiveStates, RejectStates
<1>16. Says(m) /\ CalcRemainQuantity(m) = 0
  BY <1>5, <1>10, <1>15 DEF Says, CalcRemainQuantity
<1>17. Due(n)' = 0
  BY <1>12, <1>16 DEF Due
<1>18. m.side # "BUY_SELL_STOP"
  BY <1>1, <1>5 DEF CallInv, Taker
<1>19. Spot(m) = Spot(Taker)
  BY <1>5 DEF Spot, TradeSide
<1>20. Moved(m, sp)
  BY <1>5, <1>7, <1>12, <1>13, <1>16, <1>17, <1>18, <1>19 DEF Moved
<1> QED
  BY <1>5, <1>6, <1>11, <1>14, <1>20, OneTruth

\* The order in hand is told of when it goes to its book, unless it was before; then
\* it rests at the price it had.
LEMMA RestTells ==
  ASSUME KInv, KInv', ~corrupt, TakerInv, ~MarketStays, RestStep
  PROVE  Truthful
<1>1. TypeOK /\ CallInv /\ IInv /\ Places /\ nextId \in Nat /\ TypeOK'
  BY DEF KInv, JInv, IInv, TypeOK, Places
<1>2. /\ pc = "match" /\ pc' = "matched" /\ Taker.remain_quantity > 0 /\ taker' = taker
      /\ corrupt' = corrupt /\ (taker # 0 => Taker.order_id = taker)
      /\ taker = 0 => Taker.order_id \notin DOMAIN odrMap
  BY <1>1, RestFacts
<1>3. PICK p \in Int : /\ Rest(p)
                       /\ Taker.remain_quantity # Taker.quantity => p = Taker.price
  <2>1. Taker \in Order
    BY <1>1, TakerFacts
  <2>2. CASE RestRemainder /\ Taker.price # MARKET_PRICE
    BY <2>1, <2>2, FieldFacts DEF RestRemainder
  <2>3. CASE Taker.price = MARKET_PRICE
    <3>1. PICK p \in Int : Rest(p)
      BY <1>1, RestsBeyond DEF IInv, RestStep
    <3>2. Repriced(p).order_id = Taker.order_id
      BY <2>1, PriceFacts DEF Same, Repriced
    <3>3. book' = [book EXCEPT ![mside] = @ \cup {<<p, Taker.order_id>>}]
      BY <3>1, <3>2 DEF Rest
    <3>4. <<p, Taker.order_id>> \in book'[mside]
      BY <1>1, <3>3 DEF TypeOK
    <3>5. ~(Taker.remain_quantity < Taker.quantity)
      BY <1>2, <2>3, <3>4 DEF MarketStays
    <3>6. Taker.remain_quantity \in Nat /\ Taker.quantity \in Nat
      BY <2>1, FieldFacts
    <3>7. Taker.remain_quantity = Taker.quantity
      BY <1>2, <3>5, <3>6 DEF TakerInv
    <3> QED
      BY <3>1, <3>7
  <2>4. CASE RestRepriced
    <3>1. Taker.remain_quantity = Taker.quantity
      BY <1>2, <2>4 DEF RestRepriced, TakerInv
    <3>2. \E p \in Int : Rest(p)
      BY <1>1, <2>4, RestsBeyond DEF IInv
    <3> QED
      BY <3>1, <3>2
  <2> QED
    BY <2>2, <2>4, <2>3 DEF RestStep
<1>4. PICK m, n : m = Repriced(p) /\ n = Taker.order_id
  OBVIOUS
<1>5. /\ Taker \in Order /\ m \in Order /\ m.order_id = n /\ m.price = p /\ m.side = Taker.side
      /\ m.order_state = Taker.order_state /\ m.remain_quantity = Taker.remain_quantity
      /\ m.quantity = Taker.quantity
  <2>1. Taker \in Order
    BY <1>1, TakerFacts
  <2> QED
    BY <1>4, <2>1, PriceFacts DEF Same, Repriced
<1>6. /\ odrMap' = Put(odrMap, n, m) /\ nextId' = nextId
      /\ book' = [book EXCEPT ![mside] = @ \cup {<<p, n>>}]
      /\ IF m.remain_quantity = m.quantity THEN Callback(<<m>>) ELSE Silent
  BY <1>3, <1>4, <1>5 DEF Rest
<1>7. InHand(n) /\ Known(n) /\ n \in Nat /\ 0 < n /\ n < nextId /\ OrderAt(n) = Taker
  <2>1. InHand(n)
    BY <1>2, <1>4 DEF InHand
  <2> QED
    BY <1>1, <2>1, KnownFacts DEF Known
<1>8. /\ \A i : InHand(i) <=> i = n
      /\ \A i : ~InHand(i)'
  BY <1>2, <1>4 DEF InHand
<1>9. p # STOP_PRICE
  <2>1. Places' /\ mside \in Sides
    BY <1>1, <1>2 DEF KInv, Places, TypeOK
  <2>2. <<p, n>> \in book'[mside]
    BY <1>1, <1>6, <2>1 DEF TypeOK
  <2>3. <<p, n>>[1] = p
    OBVIOUS
  <2>4. mside = "BUY" => p > STOP_PRICE
    BY <2>1, <2>2, <2>3 DEF Places, LimitInv
  <2>5. mside = "SELL" => p > STOP_PRICE + MiniTick
    BY <2>1, <2>2, <2>3 DEF Places, LimitInv
  <2> QED
    BY <2>1, <2>4, <2>5, SentinelAssumption, TickAssumption DEF Sides
<1>10. ASSUME NEW i \in Nat, i # n PROVE Unmoved(i)
  <2>1. nextId' \in Nat /\ nextId <= nextId'
    BY <1>1, <1>6
  <2>2. /\ i \in DOMAIN odrMap' <=> i \in DOMAIN odrMap
        /\ i \in DOMAIN odrMap => Looks(odrMap'[i], odrMap[i])
    BY <1>6, <1>10 DEF Looks, Put
  <2> QED
    BY <1>1, <1>8, <1>10, <2>1, <2>2, KeptUnmoved
<1>11. n \in DOMAIN odrMap' /\ odrMap'[n] = m
  BY <1>6 DEF Put
<1>12. Known(n)' /\ ~Untold(n)' /\ OrderAt(n)' = m
  BY <1>1, <1>5, <1>6, <1>7, <1>8, <1>9, <1>11 DEF Known, Untold, OrderAt
<1>13. /\ Taker.order_state \in LiveStates /\ Taker.price # STOP_PRICE
       /\ Taker.quantity \in Nat /\ Taker.remain_quantity \in Nat
  BY <1>1, <1>2, <1>5, FieldFacts, SentinelAssumption, TickAssumption DEF Places, LiveInv, LimitInv
<1>14. Untold(n) <=> Taker.remain_quantity = Taker.quantity
  <2>1. n \in DOMAIN odrMap => odrMap[n] = Taker
    BY <1>7 DEF OrderAt
  <2> QED
    BY <1>1, <1>7, <1>13, <2>1 DEF Untold
<1>15. CalcRemainQuantity(m) = m.remain_quantity /\ Due(n)' = CalcRemainQuantity(m)
  BY <1>5, <1>12, <1>13 DEF CalcRemainQuantity, Due
<1>16. CASE Taker.remain_quantity = Taker.quantity
  <2>1. PICK sp : sp = Spot(m)
    OBVIOUS
  <2>2. sp \in Spots
    BY <1>5, <2>1, FieldFacts DEF Spots, Spot, TradeSide, Sides
  <2>3. Says(m)
    BY <1>5, <1>9, <1>13 DEF Says, LiveStates, RejectStates
  <2>4. m.side # "BUY_SELL_STOP"
    BY <1>1, <1>5 DEF CallInv, Taker
  <2>5. Moved(m, sp)
    BY <1>5, <1>7, <1>12, <1>14, <1>15, <1>16, <2>1, <2>3, <2>4 DEF Moved
  <2> QED
    BY <1>5, <1>6, <1>10, <1>16, <2>2, <2>5, OneTruth
<1>17. CASE Taker.remain_quantity # Taker.quantity
  <2>1. p = Taker.price
    BY <1>3, <1>17
  <2>2. ~Untold(n) /\ Spot(m) = Spot(Taker)
    BY <1>5, <1>14, <1>17, <2>1 DEF Spot, TradeSide
  <2>3. Due(n) = m.remain_quantity
    BY <1>5, <1>7, <1>13, <2>2 DEF Due, CalcRemainQuantity
  <2>4. Unmoved(n)
    BY <1>7, <1>12, <1>15, <2>2, <2>3 DEF Unmoved, Gone
  <2> QED
    BY <1>5, <1>6, <1>10, <1>17, <2>4, SilentTruth
<1> QED
  BY <1>16, <1>17

\* A fill is told of twice: of the maker and of the taker.
LEMMA FillTells ==
  ASSUME KInv, KInv', ~corrupt, TakerInv, MatchTop \/ FokFill
  PROVE  Truthful
<1>1. /\ TypeOK /\ CallInv /\ IInv /\ Places /\ nextId \in Nat /\ Calls
      /\ RestingInv /\ StopInv /\ ApartInv
  BY DEF KInv, JInv, IInv, TypeOK, Places, Calls
<1>2. /\ pc \in {"match", "fok"} /\ pc' = pc /\ taker' = taker /\ mside' = mside
  BY DEF MatchTop, FokFill, matchVars
<1>3. Taker \in Order /\ (taker # 0 => Taker.order_id = taker)
  BY <1>1, TakerFacts
<1>4. \A e \in OppBook : /\ e[2] \in DOMAIN odrMap /\ odrMap[e[2]] \in Order
                         /\ odrMap[e[2]].remain_quantity \in Nat \ {0}
                         /\ odrMap[e[2]].price = e[1] /\ e[2] # taker /\ e \in book[Opposite(mside)]
                         /\ Opposite(mside) \in Sides /\ e[1] \in Int
  <2>1. Opposite(mside) \in Sides
    BY DEF Opposite, Sides
  <2>2. \A e \in OppBook : e[2] \in DOMAIN odrMap /\ odrMap[e[2]] \in Order /\ e[1] \in Int
    BY <1>1, <2>1, EntryFacts DEF OppBook
  <2>3. \A e \in OppBook : odrMap[e[2]].remain_quantity \in Nat
    BY <2>2, FieldFacts
  <2>4. \A e \in OppBook : odrMap[e[2]].remain_quantity > 0 /\ odrMap[e[2]].price = e[1]
    BY <1>1, <2>1 DEF RestingInv, OppBook
  <2>5. \A e \in OppBook : e[2] # taker
    BY <1>1, <1>2, <2>1 DEF ApartInv, OppBook
  <2> QED
    BY <2>1, <2>2, <2>3, <2>4, <2>5 DEF OppBook
<1>5. PICK e \in OppBook, q \in Nat :
        /\ q <= odrMap[e[2]].remain_quantity /\ q <= Taker.remain_quantity
        /\ Fill(e, q) /\ q > 0
  <2>1. Taker.remain_quantity \in Nat
    BY <1>3, FieldFacts
  <2>2. CASE MatchTop
    <3>1. PICK e \in OppBook :
            Fill(e, MatchedQuantity(odrMap[e[2]].remain_quantity, Taker.remain_quantity))
      BY <2>2 DEF MatchTop
    <3>2. PICK q : q = MatchedQuantity(odrMap[e[2]].remain_quantity, Taker.remain_quantity)
      OBVIOUS
    <3>3. Taker.remain_quantity # 0 /\ odrMap[e[2]].remain_quantity \in Nat \ {0}
      BY <1>4, <2>2 DEF MatchTop
    <3>4. q \in Nat /\ q <= odrMap[e[2]].remain_quantity /\ q <= Taker.remain_quantity /\ q > 0
      BY <2>1, <3>2, <3>3 DEF MatchedQuantity
    <3> QED
      BY <3>1, <3>2, <3>4
  <2>3. CASE FokFill
    <3>1. PICK e \in OppBook, q \in Nat :
            /\ q <= odrMap[e[2]].remain_quantity /\ q <= Taker.remain_quantity
            /\ Fill(e, q)
            /\ IF pc = "match" THEN Crossing(e)
               ELSE e = plan[1].entry /\ q = plan[1].quantity /\ plan # <<>>
      BY <1>1, <2>3, FillCalls
    <3>2. pc = "fok"
      BY <2>3 DEF FokFill
    <3>3. 1 \in DOMAIN plan
      <4>1. plan \in Seq(Records) /\ plan # <<>>
        BY <1>1, <3>1, <3>2 DEF TypeOK
      <4> QED
        BY <4>1
    <3> QED
      BY <3>1, <3>2, <3>3 DEF TakerInv
  <2> QED
    BY <2>2, <2>3
<1>6. Filled(e, q)
  BY <1>1, <1>2, <1>5, FillFacts
<1>7. PICK n, l, m, t :
        /\ n = e[2] /\ l = Taker.order_id
        /\ m = Match(odrMap[n], "MAKER", odrMap[n].price, q)
        /\ t = Match(Taker, "TAKER", odrMap[n].price, q)
  OBVIOUS
<1>8. /\ m \in Order /\ m.order_id = odrMap[n].order_id /\ m.side = odrMap[n].side
      /\ m.price = odrMap[n].price /\ m.remain_quantity = odrMap[n].remain_quantity - q
      /\ m.order_state = IF m.remain_quantity = 0 THEN "FILLED" ELSE "PARTIAL_FILL"
  <2>1. odrMap[n] \in Order /\ odrMap[n].price \in Int /\ q <= odrMap[n].remain_quantity
    BY <1>4, <1>5, <1>7
  <2> QED
    BY <1>7, <2>1, MatchFacts, MatchStates DEF Same
<1>9. /\ t \in Order /\ t.order_id = l /\ t.side = Taker.side
      /\ t.price = Taker.price /\ t.remain_quantity = Taker.remain_quantity - q
      /\ t.order_state = (IF t.remain_quantity = 0 THEN "FILLED" ELSE "PARTIAL_FILL")
      /\ t.quantity = Taker.quantity
  <2>1. odrMap[n].price \in Int
    BY <1>4, <1>7
  <2> QED
    BY <1>3, <1>5, <1>7, <2>1, MatchFacts, MatchStates DEF Same
<1>10. /\ Callback(<<m, t>>) /\ nextId' = nextId + 1
       /\ SetTaker(IF m.remain_quantity = 0 THEN Drop(odrMap, n) ELSE Put(odrMap, n, m), t)
  BY <1>5, <1>7 DEF Fill
<1>11. /\ InHand(l) /\ Known(l) /\ l \in Nat /\ 0 < l /\ l < nextId /\ OrderAt(l) = Taker
       /\ n \in DOMAIN odrMap /\ n \in Nat /\ n < nextId /\ odrMap[n].order_id = n /\ n # taker /\ n > 0
  <2>1. InHand(l)
    BY <1>2, <1>7 DEF InHand
  <2> QED
    BY <1>1, <1>4, <1>5, <1>7, <2>1, KnownFacts DEF Known, TypeOK
<1>12. /\ taker = 0 => l \notin DOMAIN odrMap
       /\ taker # 0 => l = taker /\ l \in DOMAIN odrMap
       /\ n # l
  BY <1>1, <1>2, <1>3, <1>7, <1>11 DEF CallInv, Taker
<1>13. /\ Taker' = t
       /\ n \in DOMAIN odrMap' <=> m.remain_quantity # 0
       /\ n \in DOMAIN odrMap' => odrMap'[n] = m
       /\ l \in DOMAIN odrMap' <=> l \in DOMAIN odrMap
       /\ \A i \in Nat : i # n /\ i # l =>
            /\ i \in DOMAIN odrMap' <=> i \in DOMAIN odrMap
            /\ i \in DOMAIN odrMap => odrMap'[i] = odrMap[i]
  <2>1. PICK f : f = IF m.remain_quantity = 0 THEN Drop(odrMap, n) ELSE Put(odrMap, n, m)
    OBVIOUS
  <2>2. /\ n \in DOMAIN f <=> m.remain_quantity # 0
        /\ n \in DOMAIN f => f[n] = m
        /\ \A i : i # n => /\ i \in DOMAIN f <=> i \in DOMAIN odrMap
                           /\ i \in DOMAIN f => f[i] = odrMap[i]
    BY <1>11, <2>1 DEF Drop, Put
  <2>3. SetTaker(f, t)
    BY <1>10, <2>1
  <2>4. CASE taker = 0
    BY <1>2, <1>12, <2>2, <2>3, <2>4 DEF SetTaker, Taker
  <2>5. CASE taker # 0
    <3>1. odrMap' = Put(f, l, t) /\ l \in DOMAIN odrMap
      BY <1>12, <2>3, <2>5 DEF SetTaker
    <3> QED
      BY <1>2, <1>12, <2>2, <2>5, <3>1 DEF Put, Taker
  <2> QED
    BY <2>4, <2>5
<1>14. /\ \A i : InHand(i) <=> i = l
       /\ \A i : InHand(i)' <=> i = l
  BY <1>2, <1>7, <1>9, <1>13 DEF InHand
<1>15. ASSUME NEW i \in Nat, i # n, i # l PROVE Unmoved(i)
  <2>1. nextId' \in Nat /\ nextId <= nextId'
    BY <1>1, <1>10
  <2> QED
    BY <1>1, <1>13, <1>14, <1>15, <2>1, KeptUnmoved DEF Looks
<1>16. Taker.price # STOP_PRICE /\ odrMap[n].price # STOP_PRICE
  <2>1. Taker.price > STOP_PRICE + MiniTick
    BY <1>1, <1>2 DEF Places, LimitInv
  <2>2. mside \in Sides /\ odrMap[n].price = e[1] /\ e \in book[Opposite(mside)]
    BY <1>1, <1>4, <1>5, <1>7 DEF TypeOK
  <2>3. e[1] > STOP_PRICE + MiniTick \/ e[1] > STOP_PRICE
    BY <1>1, <2>2 DEF Places, LimitInv, Opposite, Sides
  <2> QED
    BY <1>3, <1>4, <1>5, <2>1, <2>2, <2>3, FieldFacts, SentinelAssumption, TickAssumption
<1>17. PICK sp : sp = Spot(Taker)
  OBVIOUS
<1>18. sp \in Spots
  BY <1>3, <1>17, FieldFacts DEF Spots, Spot, TradeSide, Sides
<1>19. Moved(m, sp)
  <2>1. /\ Known(n) /\ ~InHand(n) /\ ~InHand(n)' /\ OrderAt(n) = odrMap[n]
        /\ n < nextId' /\ nextId' \in Nat
    BY <1>1, <1>10, <1>11, <1>12, <1>14 DEF Known, OrderAt
  <2>2. ~Untold(n) /\ ~Untold(n)'
    BY <1>1, <1>8, <1>11, <1>13, <1>16, <2>1 DEF Untold
  <2>3. Known(n)' <=> m.remain_quantity # 0
    BY <1>13, <2>1 DEF Known
  <2>4. Known(n)' => OrderAt(n)' = m
    BY <1>13, <2>1, <2>3 DEF OrderAt
  <2>5. Due(n)' = CalcRemainQuantity(m)
    <3>1. CASE m.remain_quantity = 0
      BY <1>8, <2>3, <3>1 DEF Due, CalcRemainQuantity
    <3>2. CASE m.remain_quantity # 0
      BY <2>2, <2>3, <2>4, <3>2 DEF Due
    <3> QED
      BY <3>1, <3>2
  <2>6. Says(m)
    BY <1>8, <1>16 DEF Says, RejectStates
  <2>7. Spot(m) = Spot(odrMap[n])
    BY <1>8 DEF Spot, TradeSide
  <2>8. m.side # "BUY_SELL_STOP"
    BY <1>1, <1>8, <1>11 DEF CallInv
  <2> QED
    BY <1>8, <1>11, <2>1, <2>2, <2>4, <2>5, <2>6, <2>7, <2>8 DEF Moved
<1>20. Moved(t, sp)
  <2>1. Taker.remain_quantity \in Nat /\ Taker.quantity \in Nat /\ Taker.remain_quantity <= Taker.quantity
    BY <1>2, <1>3, FieldFacts DEF TakerInv
  <2>2. t.remain_quantity # t.quantity
    BY <1>5, <1>9, <2>1
  <2>3. Known(l)' /\ InHand(l)' /\ OrderAt(l)' = t /\ l < nextId' /\ nextId' \in Nat
    <3>1. InHand(l)' /\ Known(l)'
      BY <1>14 DEF Known
    <3>2. OrderAt(l)' = t
      <4>1. CASE taker = 0
        BY <1>2, <1>12, <1>13, <4>1 DEF OrderAt, Taker
      <4>2. CASE taker # 0
        BY <1>2, <1>12, <1>13, <4>2 DEF OrderAt, Taker
      <4> QED
        BY <4>1, <4>2
    <3> QED
      BY <1>1, <1>10, <1>11, <3>1, <3>2
  <2>4. ~Untold(l)'
    <3>1. l \in DOMAIN odrMap' => odrMap'[l] = t
      BY <2>3 DEF OrderAt
    <3> QED
      BY <1>9, <1>11, <1>13, <1>16, <2>2, <2>3, <3>1 DEF Untold
  <2>5. Due(l)' = CalcRemainQuantity(t)
    BY <2>3, <2>4 DEF Due
  <2>6. Says(t)
    BY <1>9, <1>16 DEF Says, RejectStates
  <2>7. Spot(t) = Spot(Taker)
    BY <1>9 DEF Spot, TradeSide
  <2>8. t.side # "BUY_SELL_STOP"
    BY <1>1, <1>9 DEF CallInv, Taker
  <2> QED
    BY <1>9, <1>11, <1>17, <2>3, <2>4, <2>5, <2>6, <2>7, <2>8 DEF Moved
<1>21. Told(<<m, t>>, sp)
  <2>1. m.order_id = n /\ t.order_id = l
    BY <1>8, <1>9, <1>11
  <2> QED
    BY <1>12, <1>15, <1>19, <1>20, <2>1, TwoTold
<1>22. Few(<<m, t>>, Order)
  BY <1>8, <1>9 DEF Few
<1> QED
  BY <1>10, <1>18, <1>21, <1>22 DEF Truthful

-----------------------------------------------------------------------------
\* No order is in hand.
LEMMA NoneInHand ==
  ASSUME pc' \notin {"match", "fok"}
  PROVE  TakerInv'
  BY DEF TakerInv

\* A call that starts has none.
LEMMA HandleTaker ==
  ASSUME NEW r \in Requests, Handle(r) \/ HandleAuctionStop(r)
  PROVE  TakerInv'
<1>1. pc' \notin {"match", "fok"}
  BY RequestActions DEF Handle, HandleAuctionStop, callVars, Actions
<1> QED
  BY <1>1, NoneInHand

\* These steps let the order in hand go, or there is none.
LEMMA OthersTaker ==
  ASSUME KInv, ~corrupt,
         \/ QuietStep \/ KillStep \/ RestStep \/ SweepStops \/ CancelParked \/ CancelResting
         \/ EraseCanceled \/ AmendInPlace \/ AmendReplace
  PROVE  TakerInv'
<1>1. IInv
  BY DEF KInv, JInv
<1>2. CASE QuietStep
  BY <1>1, <1>2, QuietFacts, NoneInHand
<1>3. CASE KillStep \/ RestStep
  BY <1>1, <1>3, KillFacts, RestFacts, NoneInHand
<1>4. CASE SweepStops
  BY <1>1, <1>4, SweepFacts, NoneInHand
<1>5. CASE CancelParked \/ CancelResting
  BY <1>5, CancelFacts, NoneInHand
<1>6. CASE EraseCanceled \/ AmendInPlace \/ AmendReplace
  <2>1. pc' \notin {"match", "fok"}
    BY <1>6 DEF EraseCanceled, AmendInPlace, AmendReplace
  <2> QED
    BY <2>1, NoneInHand
<1> QED
  BY <1>2, <1>3, <1>4, <1>5, <1>6

\* A new order that is accepted has a quantity.
LEMMA StartTaker ==
  ASSUME KInv, ~corrupt, StartStep
  PROVE  TakerInv'
<1>1. TypeOK /\ CallInv /\ IInv /\ nextId \in Nat
  BY DEF KInv, JInv, IInv, TypeOK
<1>2. pc' \in {"match", "fok", "done"} /\ taker' = 0
  BY <1>1, StartOrders
<1>3. pc = "new" /\ RejectReason(o) = "NONE"
  BY <1>1, StartFacts
<1>4. o.quantity \in Nat /\ o.quantity # 0
  BY <1>1, <1>3, AcceptFacts, FieldFacts DEF TypeOK
<1>5. CASE pc' = "done"
  BY <1>5, NoneInHand
<1>6. CASE pc' # "done"
  <2>1. Taker' = o'
    BY <1>2 DEF Taker
  <2>2. o'.remain_quantity = o.quantity /\ o'.quantity = o.quantity /\ plan' = <<>>
    <3>1. /\ InitNewOrder(o) \in Order /\ InitNewOrder(o).remain_quantity = o.quantity
          /\ InitNewOrder(o).quantity = o.quantity
      BY <1>1, InitFacts DEF TypeOK
    <3>2. ASSUME NEW s, StopNow(s)
          PROVE  o'.remain_quantity = o.quantity /\ o'.quantity = o.quantity /\ plan' = <<>>
      BY <3>1, <3>2 DEF StopNow, Order, StartMatch
    <3>3. ~Park
      BY <1>6 DEF Park
    <3> QED
      BY <1>1, <3>1, <3>2, <3>3, StartFacts DEF StartMatch
  <2> QED
    BY <1>4, <2>1, <2>2 DEF TakerInv
<1> QED
  BY <1>5, <1>6

\* A fill takes from what remains.
LEMMA FillTaker ==
  ASSUME KInv, ~corrupt, TakerInv, MatchTop \/ FokFill
  PROVE  TakerInv'
<1>1. TypeOK /\ CallInv /\ IInv /\ Calls
  BY DEF KInv, JInv, IInv, Calls
<1>2. pc \in {"match", "fok"} /\ pc' = pc
  BY DEF MatchTop, FokFill
<1>3. PICK e \in OppBook, q \in Nat :
        /\ q <= odrMap[e[2]].remain_quantity /\ q <= Taker.remain_quantity
        /\ Fill(e, q) /\ Filled(e, q)
  BY <1>1, FillCalls
<1>4. Same(Taker', Taker) /\ Taker'.remain_quantity = Taker.remain_quantity - q
  BY <1>3 DEF Filled
<1>5. 0 < Taker'.quantity /\ Taker'.remain_quantity <= Taker'.quantity
  <2>1. Taker \in Order
    BY <1>1, TakerFacts
  <2>2. Taker.remain_quantity \in Nat /\ Taker.quantity \in Nat
    BY <2>1, FieldFacts
  <2>3. 0 < Taker.quantity /\ Taker.remain_quantity <= Taker.quantity
    BY <1>2 DEF TakerInv
  <2> QED
    BY <1>3, <1>4, <2>2, <2>3 DEF Same
<1>6. pc' = "match" => Taker'.time_condition # "MAKER_ONLY_REPRICE"
  BY <1>4 DEF MatchTop, FokFill, Same
<1>7. pc' = "fok" => \A k \in DOMAIN plan' : plan'[k].quantity > 0
  <2>1. SUFFICES ASSUME pc = "fok" PROVE \A k \in DOMAIN plan' : plan'[k].quantity > 0
    BY <1>2
  <2>2. plan' = Tail(plan) /\ plan # <<>> /\ plan \in Seq(Records)
    BY <1>1, <2>1 DEF MatchTop, FokFill, TypeOK
  <2>3. \A k \in DOMAIN plan' : k + 1 \in DOMAIN plan /\ plan'[k] = plan[k + 1]
    BY <2>2
  <2> QED
    BY <2>1, <2>3 DEF TakerInv
<1> QED
  BY <1>5, <1>6, <1>7 DEF TakerInv

\* A record of fok_match has a quantity.
LEMMA CollectTaker ==
  ASSUME KInv, ~corrupt, TakerInv, FokCollect
  PROVE  TakerInv'
<1>1. TypeOK /\ CallInv /\ RestingInv /\ PlanInv
  BY DEF KInv, JInv, IInv
<1>2. /\ UNCHANGED <<odrMap, o, taker>> /\ pc' = pc /\ pc = "fok" /\ left # 0
      /\ left \in Nat /\ plan \in Seq(Records)
  BY <1>1 DEF FokCollect, storeVars, TypeOK
<1>3. PICK f \in Unplanned :
        plan' = LET q == MatchedQuantity(odrMap[f[2]].remain_quantity, left)
                IN Append(plan, [entry |-> f, quantity |-> q, left |-> left - q])
  BY DEF FokCollect
<1>4. odrMap[f[2]].remain_quantity \in Nat \ {0}
  <2>1. f \in book[Opposite(mside)] /\ Opposite(mside) \in Sides
    BY DEF Unplanned, OppBook, Opposite, Sides
  <2>2. odrMap[f[2]] \in Order /\ odrMap[f[2]].remain_quantity > 0
    BY <1>1, <2>1, EntryFacts DEF RestingInv
  <2> QED
    BY <2>2, FieldFacts
<1>5. PICK q : q = MatchedQuantity(odrMap[f[2]].remain_quantity, left)
  OBVIOUS
<1>6. q \in Nat /\ q > 0
  BY <1>2, <1>4, <1>5 DEF MatchedQuantity
<1>7. PICK r : r = [entry |-> f, quantity |-> q, left |-> left - q]
  OBVIOUS
<1>8. plan' = Append(plan, r) /\ r.quantity = q
  BY <1>3, <1>5, <1>7
<1>9. \A k \in DOMAIN plan' : (k \in DOMAIN plan /\ plan'[k] = plan[k]) \/ plan'[k] = r
  BY <1>2, <1>8
<1>10. \A k \in DOMAIN plan' : plan'[k].quantity > 0
  BY <1>2, <1>6, <1>8, <1>9 DEF TakerInv
<1> QED
  BY <1>2, <1>10 DEF TakerInv, Taker

\* A stop that fires is still whole.
LEMMA FireTaker ==
  ASSUME KInv, ~corrupt, FireStop
  PROVE  TakerInv'
<1>1. IInv
  BY DEF KInv, JInv
<1>2. PICK e \in due :
        /\ Waiting(sweep, e) /\ plan' = <<>>
        /\ Taker' = odrMap'[e[2]] /\ Same(odrMap'[e[2]], odrMap[e[2]])
        /\ odrMap'[e[2]].remain_quantity = odrMap[e[2]].remain_quantity
        /\ odrMap[e[2]] \in Order
  BY <1>1, FireFacts
<1>3. Taker'.remain_quantity = Taker'.quantity /\ 0 < Taker'.quantity /\ Taker'.quantity \in Nat
  <2>1. odrMap[e[2]].quantity \in Nat
    BY <1>2, FieldFacts
  <2> QED
    BY <1>2, <2>1 DEF Waiting, Same
<1> QED
  BY <1>2, <1>3 DEF TakerInv

-----------------------------------------------------------------------------
\* An auction stays one until its records are passed on, which is before the call ends.
LEMMA AuctionStays ==
  ASSUME Step, isAuction, TypeOK
  PROVE  (isAuction' = FALSE /\ cbRecords' = <<>>) \/ (isAuction' = TRUE /\ pc' # "idle")
<1>0. isAuction = TRUE /\ pc # "idle"
  <2>1. isAuction = TRUE
    BY DEF TypeOK
  <2>2. pc # "idle"
    BY DEF Step, RejectNew, NewBuySell, NewBuyStop, NewSellStop, NewBuySellStop, MatchTop,
      MatchDone, CancelMakerOnly, CancelRemainder, CancelMarket, RestRemainder, RestRepriced,
      FokCollect, FokKill, FokFill, FokDone, MatchReturn, SweepStops, CollectStops, SweepReturn,
      FireStop, FireReturn, CancelUnknown, CancelParked, CancelResting, EraseCanceled,
      RejectAmend, AmendInPlace, AmendReplace, FlushAuction, Unlock
  <2> QED
    BY <2>1, <2>2
<1> USE DEF lockVars
<1>1. CASE RejectNew \/ NewBuySell \/ NewBuyStop \/ NewSellStop \/ NewBuySellStop
  BY <1>0, <1>1 DEF RejectNew, NewBuySell, NewBuyStop, NewSellStop, NewBuySellStop, StopNow, Park,
     StartMatch
<1>2. CASE MatchTop \/ FokCollect \/ FokFill
  BY <1>0, <1>2 DEF MatchTop, FokCollect, FokFill
<1>3. CASE MatchDone \/ FokDone \/ MatchReturn
  BY <1>0, <1>3 DEF MatchDone, FokDone, MatchReturn
<1>4. CASE CancelMakerOnly \/ CancelRemainder \/ CancelMarket \/ FokKill
  BY <1>0, <1>4 DEF CancelMakerOnly, CancelRemainder, CancelMarket, FokKill, CancelTaker
<1>5. CASE RestRemainder \/ RestRepriced
  BY <1>0, <1>5 DEF RestRemainder, RestRepriced, Rest
<1>6. CASE SweepStops \/ SweepReturn \/ FireStop \/ FireReturn
  BY <1>0, <1>6 DEF SweepStops, CollectStops, SweepReturn, FireStop, StartMatch, FireReturn
<1>7. CASE CancelUnknown \/ CancelParked \/ CancelResting \/ EraseCanceled
  BY <1>0, <1>7 DEF CancelUnknown, CancelParked, CancelResting, EraseCanceled
<1>8. CASE RejectAmend \/ AmendInPlace \/ AmendReplace
  BY <1>0, <1>8 DEF RejectAmend, AmendInPlace, AmendReplace
<1>9. CASE FlushAuction \/ Unlock
  BY <1>9 DEF FlushAuction, Unlock
<1> QED
  BY <1>1, <1>2, <1>3, <1>4, <1>5, <1>6, <1>7, <1>8, <1>9 DEF Step

\* Records are kept only during an auction, and no auction outlives its call.
LEMMA RecordsOk ==
  ASSUME TypeOK, RecordsInv, Next
  PROVE  RecordsInv'
<1>1. CASE Step /\ ~isAuction
  BY <1>1, RecordsKept DEF RecordsInv
<1>2. CASE Step /\ isAuction
  BY <1>2, AuctionStays DEF RecordsInv
<1>3. ASSUME NEW r \in Requests, Handle(r) PROVE RecordsInv'
  <2>1. pc' # "idle" /\ cbRecords' = <<>>
    BY <1>3, RequestActions DEF Handle, Silent, RecordsInv, Actions
  <2> QED
    BY <2>1 DEF RecordsInv
<1>4. ASSUME NEW r \in Requests, HandleAuctionStop(r) PROVE RecordsInv'
  BY <1>4 DEF HandleAuctionStop, RecordsInv, callVars
<1> QED
  BY <1>1, <1>2, <1>3, <1>4 DEF Next

\* What a step of the engine keeps, and that it tells the truth of its orders.
LEMMA EngineTells ==
  ASSUME NoBothStops, PricesAboveStop, ~MarketStays, KInv, TakerInv, RecordsInv, Next
  PROVE  KInv' /\ TakerInv' /\ RecordsInv' /\ (FlushAuction \/ Truthful)
<1>1. KInv'
  BY PlacesOk
<1>2. ~corrupt /\ TypeOK
  BY DEF Next, KInv, JInv, IInv
<1>3. RecordsInv'
  BY <1>2, RecordsOk
<1>4. CASE \E r \in Requests : Handle(r) \/ HandleAuctionStop(r)
  BY <1>1, <1>2, <1>3, <1>4, HandleTaker, HandleTells
<1>5. CASE Step
  <2>1. QuietStep \/ StartStep \/ MatchTop \/ FokFill \/ KillStep \/ RestStep \/ FokCollect
        \/ SweepStops \/ FireStop \/ CancelParked \/ CancelResting \/ EraseCanceled
        \/ AmendReplace \/ AmendInPlace
    BY <1>5 DEF Step, QuietStep, StartStep, KillStep, RestStep
  <2>2. TakerInv'
    BY <1>1, <1>2, <2>1, OthersTaker, StartTaker, FillTaker, CollectTaker, FireTaker
  <2>3. FlushAuction \/ Truthful
    BY <1>1, <1>2, <2>1, QuietTells, StartTells, FillTells, KillTells, RestTells, StayTells,
       FireTells, CancelTells, EraseTells, AmendTells
  <2> QED
    BY <1>1, <1>3, <2>2, <2>3
<1> QED
  BY <1>4, <1>5 DEF Next

\* The engine's step reaches the connection.
LEMMA EngineStepOk ==
  ASSUME NoBothStops, PricesAboveStop, ~MarketStays, FeedInv, EngineStep
  PROVE  FeedInv'
<1>1. KInv' /\ TakerInv' /\ RecordsInv' /\ (FlushAuction \/ Truthful)
  BY EngineTells DEF FeedInv, EngineStep
<1>2. Carried /\ misled' = misled /\ ~corrupt
  BY DEF EngineStep, Carried, Next
<1>3. TypeOK /\ TypeOK' /\ KInv /\ TakerInv /\ RecordsInv
  BY <1>1 DEF FeedInv, KInv, JInv, IInv
<1>4. ASSUME ~misled PROVE FeedTypeOK' /\ \E at \in [Nat -> Spots] : BookInv(at)'
  <2>1. FeedTypeOK
    BY <1>4 DEF FeedInv
  <2>2. PICK at \in [Nat -> Spots] : BookInv(at)
    BY <1>4 DEF FeedInv
  <2>3. UNCHANGED <<up, cuts, mdVars>> /\ DownInv
    BY <1>2, <2>2 DEF Carried, BookInv
  <2>4. FeedTypeOK'
    <3>1. wire' \in Seq(Order)
      BY <1>2, <1>3, <2>1 DEF Carried, FeedTypeOK, TypeOK
    <3> QED
      BY <1>2, <2>1, <2>3, <3>1 DEF FeedTypeOK, mdVars
  <2>5. PICK sp \in Spots : \E cbs : Few(cbs, Order) /\ Told(cbs, sp) /\ Carries(cbs)
    <3>1. CASE FlushAuction
      <4>1. PICK sp : sp = <<"BUY", 0>>
        OBVIOUS
      <4>2. sp \in Spots
        BY <4>1 DEF Spots, Sides
      <4>3. \A i \in Nat : Unmoved(i)
        BY <1>2, <1>3, <3>1, QuietUnmoved DEF QuietStep
      <4>4. Carries(<<>>)
        BY <1>2, <1>3, <2>1, <2>3, <3>1, FlushCarries
      <4>5. PICK cbs : cbs = <<>>
        OBVIOUS
      <4>6. Told(cbs, sp)
        <5>1. \A k \in DOMAIN cbs : ~Says(cbs[k])
          BY <4>5
        <5> QED
          BY <4>3, <5>1, NothingTold
      <4>7. Carries(cbs) /\ Few(cbs, Order)
        BY <4>4, <4>5 DEF Few
      <4> QED
        BY <4>2, <4>6, <4>7
    <3>2. CASE Truthful
      <4>1. PICK sp \in Spots : \E cbs :
              Few(cbs, Order) /\ Told(cbs, sp) /\ (Callback(cbs) \/ (cbs = <<>> /\ Silent))
        BY <3>2 DEF Truthful
      <4>2. PICK cbs :
              Few(cbs, Order) /\ Told(cbs, sp) /\ (Callback(cbs) \/ (cbs = <<>> /\ Silent))
        BY <4>1
      <4>3. cbs \in Seq(Order)
        BY <4>2, FewSeq
      <4>4. Carries(cbs)
        BY <1>2, <1>3, <2>1, <2>3, <4>2, <4>3, CallbackCarries
      <4> QED
        BY <4>2, <4>4
    <3> QED
      BY <1>1, <3>1, <3>2
  <2>6. PICK cbs : Few(cbs, Order) /\ Told(cbs, sp) /\ Carries(cbs)
    BY <2>5
  <2>7. \E new \in [Nat -> Spots] : BookInv(new)'
    BY <1>3, <2>1, <2>2, <2>3, <2>6, CarryOk
  <2> QED
    BY <2>4, <2>7
<1> QED
  BY <1>1, <1>2, <1>4 DEF FeedInv

\* The engine stands still.
LEMMA EngineStands ==
  ASSUME NoBothStops, PricesAboveStop, KInv, TakerInv, RecordsInv, UNCHANGED vars
  PROVE  KInv' /\ TakerInv' /\ RecordsInv'
<1>1. KInv'
  BY PlacesOk
<1>2. UNCHANGED <<odrMap, stopBook, due, o, pc, taker, plan, isAuction, cbRecords>>
  BY DEF vars, engineVars, callVars
<1>3. TakerInv'
  BY <1>2 DEF TakerInv, Taker
<1>4. RecordsInv'
  BY <1>2 DEF RecordsInv
<1> QED
  BY <1>1, <1>3, <1>4

\* What the connection does and what the book receives.
LEMMA FeedStepOk ==
  ASSUME NoBothStops, PricesAboveStop, FeedInv, QuantitiesFit', Connect \/ Cut \/ Receive
  PROVE  FeedInv'
<1>1. UNCHANGED vars /\ (misled => misled')
  <2>1. CASE Connect \/ Cut
    BY <2>1 DEF Connect, Cut
  <2>2. CASE Receive
    <3>1. misled' = (misled \/ (Head(wire).order_state \in RejectStates /\ mdOrders' # mdOrders))
      BY <2>2 DEF Receive
    <3>2. UNCHANGED vars
      BY <2>2 DEF Receive
    <3>3. misled => misled'
      BY <3>1, Zenon
    <3> QED
      BY <3>2, <3>3
  <2> QED
    BY <2>1, <2>2
<1>2. KInv /\ TypeOK /\ RecordsInv
  BY DEF FeedInv, KInv, JInv, IInv
<1>3. KInv' /\ TakerInv' /\ RecordsInv'
  BY <1>1, EngineStands DEF FeedInv
<1>4. ASSUME ~misled' PROVE FeedTypeOK' /\ \E at \in [Nat -> Spots] : BookInv(at)'
  <2>1. FeedTypeOK
    BY <1>1, <1>4 DEF FeedInv
  <2>2. PICK at \in [Nat -> Spots] : BookInv(at)
    BY <1>1, <1>4 DEF FeedInv
  <2>3. FeedTypeOK' /\ BookInv(at)'
    BY <1>2, <1>4, <2>1, <2>2, ConnectOk, CutOk, ReceiveOk
  <2> QED
    BY <2>3
<1> QED
  BY <1>3, <1>4 DEF FeedInv

\* Nothing happens.
LEMMA FeedStutters ==
  ASSUME NoBothStops, PricesAboveStop, FeedInv, UNCHANGED feedVars
  PROVE  FeedInv'
<1>1. UNCHANGED <<vars, up, wire, cuts, mdOrders, mdBook, mdCorrupt, misled>>
  BY DEF feedVars, mdVars
<1>2. UNCHANGED <<odrMap, nextId, o, pc, taker, cbRecords>>
  BY <1>1 DEF vars, engineVars, callVars
<1>3. KInv' /\ TakerInv' /\ RecordsInv'
  BY <1>1, EngineStands DEF FeedInv
<1>4. ASSUME ~misled PROVE FeedTypeOK' /\ \E at \in [Nat -> Spots] : BookInv(at)'
  <2>1. FeedTypeOK
    BY <1>4 DEF FeedInv
  <2>2. PICK at \in [Nat -> Spots] : BookInv(at)
    BY <1>4 DEF FeedInv
  <2>3. FeedTypeOK'
    BY <1>1, <2>1 DEF FeedTypeOK
  <2>4. \A i : /\ Untold(i)' = Untold(i) /\ Known(i)' = Known(i) /\ OrderAt(i)' = OrderAt(i)
               /\ Due(i)' = Due(i) /\ Gone(i)' = Gone(i) /\ Has(i)' = Has(i)
    BY <1>1, <1>2 DEF Untold, Known, OrderAt, Due, Gone, InHand, Taker, Has
  <2>5. Pending' = Pending /\ \A sp : At(at, sp)' = At(at, sp)
    BY <1>1, <1>2 DEF Pending, At
  <2>6. SpotsInv(at)'
    BY <1>1, <2>2, <2>4 DEF BookInv, SpotsInv
  <2>7. UnderWayInv(at)'
    BY <2>2, <2>4, <2>5 DEF BookInv, UnderWayInv, Faithful
  <2>8. LevelsInv(at)'
    BY <1>1, <2>2, <2>5 DEF BookInv, LevelsInv
  <2>9. ToldInv' /\ DownInv'
    BY <1>1, <2>2, <2>4, <2>5 DEF BookInv, ToldInv, DownInv
  <2> QED
    BY <1>1, <2>2, <2>3, <2>6, <2>7, <2>8, <2>9 DEF BookInv
<1> QED
  BY <1>1, <1>3, <1>4 DEF FeedInv

\* At first there is nothing to be told of.
LEMMA FeedInitOk ==
  ASSUME NoBothStops, PricesAboveStop, FeedInit
  PROVE  FeedInv
<1>1. Empty /\ KInv
  BY InitEmpty, PlacesInit DEF FeedInit
<1>2. /\ up = FALSE /\ wire = <<>> /\ cuts = 0 /\ mdOrders = [i \in {} |-> 0]
      /\ mdBook = [s \in Sides |-> [p \in {} |-> 0]] /\ mdCorrupt = FALSE /\ misled = FALSE
  BY DEF FeedInit
<1>3. \A s \in Sides : stopBook[s] = {} /\ due = {}
  BY <1>1 DEF Empty
<1>4. TakerInv /\ RecordsInv
  BY <1>1 DEF Empty, TakerInv, RecordsInv
<1>5. DOMAIN mdOrders = {} /\ \A s \in Sides : DOMAIN mdBook[s] = {}
  BY <1>2
<1>6. FeedTypeOK
  <2>1. wire \in Seq(Order) /\ IsFiniteSet(DOMAIN mdOrders) /\ cuts \in Nat
    BY <1>2, <1>5, FS_EmptySet
  <2>2. mdOrders = [i \in DOMAIN mdOrders |-> mdOrders[i]]
    BY <1>2
  <2>3. /\ mdBook = [s \in Sides |-> mdBook[s]]
        /\ \A s \in Sides : mdBook[s] = [p \in DOMAIN mdBook[s] |-> mdBook[s][p]]
    BY <1>2
  <2> QED
    BY <1>2, <1>5, <2>1, <2>2, <2>3 DEF FeedTypeOK
<1>7. PICK at \in [Nat -> Spots] : TRUE
  <2>1. <<"BUY", 0>> \in Spots
    BY DEF Spots, Sides
  <2>2. [i \in Nat |-> <<"BUY", 0>>] \in [Nat -> Spots]
    BY <2>1
  <2> QED
    BY <2>2
<1>8. BookInv(at)
  <2>1. \A i : ~Known(i)
    BY <1>1 DEF Empty, Known, InHand
  <2>2. Pending = <<>>
    BY <1>1, <1>2 DEF Empty, Pending
  <2>3. SpotsInv(at) /\ UnderWayInv(at)
    BY <1>5, <2>1, <2>2 DEF SpotsInv, UnderWayInv
  <2>4. LevelsInv(at)
    BY <1>5 DEF LevelsInv, At
  <2> QED
    BY <1>2, <1>5, <2>3, <2>4 DEF BookInv, ToldInv, DownInv
<1> QED
  BY <1>1, <1>4, <1>6, <1>8 DEF FeedInv

\* When the book has received everything it counts what rests with what remains of
\* it, each order at its level; fed over one connection it counts nothing else.
LEMMA SettledOrders ==
  ASSUME KInv, RecordsInv, FeedTypeOK, NEW at \in [Nat -> Spots], BookInv(at), Settled
  PROVE  /\ \A s \in Sides : \A e \in book[s] :
              /\ e[1] \in Int /\ e = <<e[1], e[2]>>
              /\ e[2] \in DOMAIN odrMap /\ e[2] \in DOMAIN mdOrders
              /\ mdOrders[e[2]] = odrMap[e[2]].remain_quantity /\ at[e[2]] = <<s, e[1]>>
         /\ cuts = 0 => \A i \in DOMAIN mdOrders : \A s \in Sides : \A p :
              at[i] = <<s, p>> => <<p, i>> \in book[s]
<1>1. /\ up /\ wire = <<>> /\ pc = "idle" /\ ~corrupt /\ cbRecords = <<>>
      /\ TypeOK /\ Places /\ RestingInv /\ CallInv
  BY DEF Settled, RecordsInv, KInv, JInv, IInv, Places
<1>2. Pending = <<>>
  BY <1>1 DEF Pending
<1>3. \A i \in Nat : Has(i) = Due(i) \/ (cuts > 0 /\ Gone(i))
  BY <1>1, <1>2 DEF BookInv, ToldInv, Tells
<1>4. \A i : ~InHand(i) /\ (Known(i) <=> i \in DOMAIN odrMap)
  BY <1>1 DEF InHand, Known
<1>5. nextId \in Nat /\ \A i \in DOMAIN odrMap : i \in Nat /\ i < nextId /\ odrMap[i] \in Order
  BY <1>1 DEF TypeOK
<1>6. \A i \in DOMAIN odrMap :
        /\ Untold(i) <=> odrMap[i].price = STOP_PRICE
        /\ OrderAt(i) = odrMap[i] /\ ~Gone(i)
  BY <1>4, <1>5 DEF Untold, OrderAt, Gone
<1>7. ASSUME NEW s \in Sides, NEW e \in book[s]
      PROVE  /\ e[1] \in Int /\ e = <<e[1], e[2]>>
             /\ e[2] \in DOMAIN odrMap /\ e[2] \in DOMAIN mdOrders
             /\ mdOrders[e[2]] = odrMap[e[2]].remain_quantity /\ at[e[2]] = <<s, e[1]>>
  <2>1. PICK i : i = e[2]
    OBVIOUS
  <2>2. /\ i \in DOMAIN odrMap /\ odrMap[i].price = e[1] /\ TradeSide(odrMap[i]) = s
        /\ odrMap[i].remain_quantity > 0 /\ odrMap[i].order_state \in LiveStates
    BY <1>1, <2>1 DEF RestingInv, Places, LiveInv
  <2>3. e[1] \in Int /\ e = <<e[1], e[2]>>
    BY <1>1 DEF TypeOK, Entries
  <2>4. e[1] # STOP_PRICE
    BY <1>1, <2>3, SentinelAssumption, TickAssumption DEF Places, LimitInv, Sides
  <2>5. Known(i) /\ ~Untold(i) /\ ~Gone(i) /\ i \in Nat
    BY <1>4, <1>5, <1>6, <2>2, <2>4
  <2>6. Has(i) = odrMap[i].remain_quantity
    BY <1>3, <1>6, <2>2, <2>5 DEF Due, CalcRemainQuantity
  <2>7. i \in DOMAIN mdOrders /\ mdOrders[i] = odrMap[i].remain_quantity
    BY <2>2, <2>6 DEF Has
  <2>8. at[i] = <<s, e[1]>>
    BY <1>6, <2>2, <2>5 DEF BookInv, SpotsInv, Spot
  <2> QED
    BY <2>1, <2>2, <2>3, <2>7, <2>8
<1>8. ASSUME cuts = 0, NEW i \in DOMAIN mdOrders, NEW s \in Sides, NEW p, at[i] = <<s, p>>
      PROVE  <<p, i>> \in book[s]
  <2>1. i \in Nat /\ mdOrders[i] \in Nat \ {0}
    BY DEF FeedTypeOK
  <2>2. Due(i) # 0
    BY <1>3, <1>8, <2>1 DEF Has
  <2>3. /\ i \in DOMAIN odrMap /\ ~Untold(i) /\ odrMap[i].order_state \in LiveStates
        /\ odrMap[i].price # STOP_PRICE
    BY <1>4, <1>6, <2>2 DEF Due, CalcRemainQuantity
  <2>4. at[i] = <<TradeSide(odrMap[i]), odrMap[i].price>>
    BY <1>4, <1>6, <2>1, <2>3 DEF BookInv, SpotsInv, Spot
  <2>5. Placed(i, odrMap[i])
    BY <1>1, <2>3, FiledPlaced DEF Places
  <2>6. <<odrMap[i].price, i>> \in book[TradeSide(odrMap[i])]
    BY <1>1, <2>3, <2>5 DEF Placed
  <2> QED
    BY <1>8, <2>4, <2>6
<1> QED
  BY <1>7, <1>8

\* Then the levels of the book are those of the engine, or more.
LEMMA FeedFollows ==
  ASSUME FeedInv
  PROVE  MdFollowsEngine
<1>1. SUFFICES ASSUME ~misled
               PROVE  /\ ~mdCorrupt
                      /\ Settled => \A s \in Sides :
                           LET prices == {e[1] : e \in book[s]}
                           IN  /\ \A p \in prices : /\ p \in DOMAIN mdBook[s]
                                                    /\ mdBook[s][p] >= Resting(s, p)
                               /\ cuts = 0 => mdBook[s] = [p \in prices |-> Resting(s, p)]
  BY DEF MdFollowsEngine
<1>2. KInv /\ RecordsInv /\ FeedTypeOK
  BY <1>1 DEF FeedInv
<1>3. PICK at \in [Nat -> Spots] : BookInv(at)
  BY <1>1 DEF FeedInv
<1>4. ~mdCorrupt
  BY <1>3 DEF BookInv
<1>5. SUFFICES ASSUME Settled, NEW s \in Sides
               PROVE  LET prices == {e[1] : e \in book[s]}
                      IN  /\ \A p \in prices : /\ p \in DOMAIN mdBook[s]
                                               /\ mdBook[s][p] >= Resting(s, p)
                          /\ cuts = 0 => mdBook[s] = [p \in prices |-> Resting(s, p)]
  BY <1>4
<1> DEFINE Lying(p) == {e[2] : e \in {f \in book[s] : f[1] = p}}
<1>6. \A e \in book[s] :
        /\ e[1] \in Int /\ e = <<e[1], e[2]>>
        /\ e[2] \in DOMAIN odrMap /\ e[2] \in DOMAIN mdOrders
        /\ mdOrders[e[2]] = odrMap[e[2]].remain_quantity /\ at[e[2]] = <<s, e[1]>>
  BY <1>2, <1>3, <1>5, SettledOrders
<1>7. cuts = 0 => \A i \in DOMAIN mdOrders : \A p : at[i] = <<s, p>> => <<p, i>> \in book[s]
  BY <1>2, <1>3, <1>5, SettledOrders
<1>8. PICK r : r = [i \in DOMAIN odrMap |-> odrMap[i].remain_quantity]
  OBVIOUS
<1>9. \A p : Resting(s, p) = SumOver(r, Lying(p))
  BY <1>8 DEF Resting
<1>10. /\ \A i \in DOMAIN mdOrders : mdOrders[i] \in Nat
       /\ IsFiniteSet(DOMAIN mdOrders)
  BY <1>2 DEF FeedTypeOK
<1>11. ASSUME NEW p \in Int
       PROVE  /\ Lying(p) \subseteq At(at, <<s, p>>)
              /\ cuts = 0 => Lying(p) = At(at, <<s, p>>)
              /\ Resting(s, p) = SumOver(mdOrders, Lying(p))
              /\ IsFiniteSet(At(at, <<s, p>>)) /\ Counted(mdOrders, At(at, <<s, p>>))
  <2>1. Lying(p) \subseteq At(at, <<s, p>>)
    BY <1>6 DEF At
  <2>2. ASSUME cuts = 0, NEW i \in At(at, <<s, p>>) PROVE i \in Lying(p)
    <3>1. i \in DOMAIN mdOrders /\ at[i] = <<s, p>>
      BY DEF At
    <3>2. <<p, i>> \in book[s]
      BY <1>7, <2>2, <3>1
    <3> QED
      BY <3>2
  <2>3. IsFiniteSet(At(at, <<s, p>>))
    <3>1. At(at, <<s, p>>) \subseteq DOMAIN mdOrders
      BY DEF At
    <3> QED
      BY <1>10, <3>1, FS_Subset
  <2>4. Counted(mdOrders, At(at, <<s, p>>))
    BY <1>10 DEF Counted, At
  <2>5. IsFiniteSet(Lying(p)) /\ Counted(mdOrders, Lying(p))
    BY <2>1, <2>3, <2>4, FS_Subset DEF Counted
  <2>6. \A i \in Lying(p) : mdOrders[i] = r[i]
    BY <1>6, <1>8
  <2>7. SumOver(mdOrders, Lying(p)) = SumOver(r, Lying(p))
    <3> HIDE DEF Lying
    <3> QED
      BY <2>5, <2>6, SumSame
  <2> QED
    BY <1>9, <2>1, <2>2, <2>3, <2>4, <2>7
<1>12. \A p \in Int : /\ p \in DOMAIN mdBook[s] <=> At(at, <<s, p>>) # {}
                      /\ p \in DOMAIN mdBook[s] =>
                           mdBook[s][p] = SumOver(mdOrders, At(at, <<s, p>>))
  BY <1>3 DEF BookInv, LevelsInv
<1>13. \A p \in Int : (\E e \in book[s] : e[1] = p) <=> Lying(p) # {}
  OBVIOUS
<1> DEFINE prices == {e[1] : e \in book[s]}
<1>14. prices \subseteq Int
  BY <1>6
<1>15. \A p \in Int : p \in prices <=> Lying(p) # {}
  BY <1>13
<1> HIDE DEF Lying, prices
<1>16. ASSUME NEW p \in prices
       PROVE  p \in DOMAIN mdBook[s] /\ mdBook[s][p] >= Resting(s, p)
  <2>1. p \in Int /\ At(at, <<s, p>>) # {}
    BY <1>11, <1>14, <1>15
  <2>2. p \in DOMAIN mdBook[s] /\ mdBook[s][p] = SumOver(mdOrders, At(at, <<s, p>>))
    BY <1>12, <2>1
  <2>3. PICK L, S : L = Lying(p) /\ S = At(at, <<s, p>>)
    OBVIOUS
  <2>4. IsFiniteSet(S) /\ Counted(mdOrders, S) /\ L \in SUBSET S
    BY <1>11, <2>1, <2>3
  <2>5. SumOver(mdOrders, L) <= SumOver(mdOrders, S)
    BY <2>4, SumSubset
  <2>6. SumOver(mdOrders, L) \in Nat /\ SumOver(mdOrders, S) \in Nat
    <3>1. IsFiniteSet(L) /\ Counted(mdOrders, L)
      BY <2>4, FS_Subset DEF Counted
    <3> QED
      BY <2>4, <3>1, SumNat
  <2>7. Resting(s, p) = SumOver(mdOrders, L)
    BY <1>11, <2>1, <2>3
  <2> QED
    BY <2>2, <2>3, <2>5, <2>6, <2>7
<1>17. ASSUME cuts = 0
       PROVE  mdBook[s] = [p \in prices |-> Resting(s, p)]
  <2>1. DOMAIN mdBook[s] \subseteq Int /\ mdBook[s] = [p \in DOMAIN mdBook[s] |-> mdBook[s][p]]
    BY <1>2 DEF FeedTypeOK
  <2>2. DOMAIN mdBook[s] = prices
    BY <1>11, <1>12, <1>14, <1>15, <1>17, <2>1
  <2>3. \A p \in prices : mdBook[s][p] = Resting(s, p)
    BY <1>11, <1>12, <1>14, <1>17, <2>2
  <2> QED
    BY <2>1, <2>2, <2>3
<1> QED
  BY <1>16, <1>17 DEF prices

\* The market-data book follows the engine, over connections that break and are made
\* again, as long as what it adds up fits its numbers and no market order goes to a
\* book after a part of it was filled.
THEOREM FeedInductive ==
  ASSUME NoBothStops, PricesAboveStop
  PROVE  FeedSpec /\ []QuantitiesFit /\ [][~MarketStays]_feedVars => []FeedInv
<1>1. FeedInit => FeedInv
  BY FeedInitOk
<1>2. FeedInv /\ QuantitiesFit' /\ [FeedNext]_feedVars /\ [~MarketStays]_feedVars => FeedInv'
  BY EngineStepOk, FeedStepOk, FeedStutters DEF FeedNext
<1> QED
  BY <1>1, <1>2, PTL DEF FeedSpec

\* The levels of the market-data book are the engine's when it has received what
\* the engine said, and after a lost connection never less than what rests.
THEOREM MdFollowsEngineHolds ==
  ASSUME NoBothStops, PricesAboveStop
  PROVE  FeedSpec /\ []QuantitiesFit /\ [][~MarketStays]_feedVars => []MdFollowsEngine
<1>1. FeedInv => MdFollowsEngine
  BY FeedFollows
<1> QED
  BY <1>1, FeedInductive, PTL
=============================================================================
