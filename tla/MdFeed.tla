------------------------------- MODULE MdFeed -------------------------------
(***************************************************************************)
(* The engine with the market-data service behind it: the callbacks go     *)
(* over one TCP connection (matching_tcp_service.cpp to                    *)
(* matching_tcp_client.cpp) to the outright book of md_tcp_service.cpp,    *)
(* which keeps price levels (md/src/basic_book.cpp).  Connections break    *)
(* between two orders here; a struct cut in two is the matter of           *)
(* OrderStream.                                                            *)
(***************************************************************************)
EXTENDS Engine, Sums, SequencesExt

CONSTANTS
  QuantityModulus, \* 2 ^ 64: the range of an unsigned long long
  MaxCuts          \* bound: how often the connection breaks

ASSUME ModulusAssumption == QuantityModulus \in Nat \ {0}
ASSUME MaxCutsAssumption == MaxCuts \in Nat

VARIABLES
  up,        \* the connection of the two services is open
  wire,      \* the orders sent and not yet received
  cuts,      \* how often the connection broke
  mdOrders,  \* basic_book::orders: id to remain_quantity, the one field read
  mdBook,    \* basic_book::bid ("BUY") and ask ("SELL"): price to quantity
  mdCorrupt, \* reduce_*_quantity met a level that is not there
  misled     \* History: a reject has ended an order that the book counted.

mdVars == <<mdOrders, mdBook, mdCorrupt>>
feedVars == <<vars, up, wire, cuts, mdVars, misled>>

FeedInit ==
  /\ Init
  /\ up = FALSE
  /\ wire = <<>>
  /\ cuts = 0
  /\ mdOrders = [i \in {} |-> 0]
  /\ mdBook = [s \in Sides |-> [p \in {} |-> 0]]
  /\ mdCorrupt = FALSE
  /\ misled = FALSE

\* The engine runs; what it passes to _callback goes to every connection.
Carried ==
  /\ wire' = IF up THEN wire \o emitted' ELSE wire
  /\ UNCHANGED <<up, cuts, mdVars, misled>>
EngineStep == Next /\ Carried

\* Mistake: a new connection gets the callbacks from now on and nothing else.
ConnectWithoutRecovery ==
  /\ ~up /\ pc = "idle" /\ ~corrupt
  /\ up' = TRUE
  /\ UNCHANGED <<vars, wire, cuts, mdVars, misled>>

\* on_connect: engine::recovery sends the orders of _odr_map, an unordered map.
\* The thread that runs the engine does this between two calls.
Connect ==
  /\ ~up /\ pc = "idle" /\ ~corrupt
  /\ up' = TRUE
  /\ wire' \in SetToSeqs({odrMap[i] : i \in DOMAIN odrMap})
  /\ UNCHANGED <<vars, cuts, mdVars, misled>>

\* The connection breaks, what was not received is lost.  md_tcp_service sets
\* no handler for it: its book stays as it is.
Cut ==
  /\ up /\ cuts < MaxCuts
  /\ up' = FALSE
  /\ wire' = <<>>
  /\ cuts' = cuts + 1
  /\ UNCHANGED <<vars, mdVars, misled>>

-----------------------------------------------------------------------------
(* basic_book::handle_odr.                                                 *)

MdSides(odr) ==
  IF \/ odr.side \in {"BUY", "BUY_STOP"}
     \/ odr.side = "BUY_SELL_STOP" /\ odr.price >= odr.buy_stop_trigger_price
  THEN {"BUY"}
  ELSE IF \/ odr.side \in {"SELL", "SELL_STOP"}
          \/ odr.side = "BUY_SELL_STOP" /\ odr.price <= odr.sell_stop_trigger_price
  THEN {"SELL"} ELSE {}

\* Only a live order counts with what remains of it: a reject counts as the end of
\* the order that it names.
CalcRemainQuantity(odr) ==
  IF odr.order_state \in LiveStates THEN odr.remain_quantity ELSE 0

AddQuantity(s, p, q) ==
  LET old == IF p \in DOMAIN mdBook[s] THEN mdBook[s][p] ELSE 0
  IN mdBook' = [mdBook EXCEPT ![s] = Put(@, p, (old + q) % QuantityModulus)]

\* The quantity is unsigned; a level that reaches 0 is erased.
ReduceQuantity(s, p, q) ==
  /\ mdCorrupt' = (p \notin DOMAIN mdBook[s])
  /\ IF p \notin DOMAIN mdBook[s] THEN UNCHANGED mdBook
     ELSE LET new == (mdBook[s][p] - q) % QuantityModulus
          IN mdBook' = [mdBook EXCEPT ![s] = IF new = 0 THEN Drop(@, p) ELSE Put(@, p, new)]

Remember(id, r) == mdOrders' = IF r = 0 THEN Drop(mdOrders, id) ELSE Put(mdOrders, id, r)

\* An order is received; what it has more or less than before moves its level.
HandleOdr(odr) ==
  LET r == CalcRemainQuantity(odr)
      old == IF odr.order_id \in DOMAIN mdOrders THEN mdOrders[odr.order_id] ELSE 0
  IN \/ /\ odr.price = STOP_PRICE \/ MdSides(odr) = {}
        /\ UNCHANGED mdVars
     \/ \E s \in MdSides(odr) :
          /\ odr.price # STOP_PRICE
          /\ Remember(odr.order_id, r)
          /\ \/ r > old /\ AddQuantity(s, odr.price, r - old) /\ UNCHANGED mdCorrupt
             \/ r < old /\ ReduceQuantity(s, odr.price, old - r)
             \/ r = old /\ UNCHANGED <<mdBook, mdCorrupt>>

Receive ==
  /\ up /\ wire # <<>> /\ ~mdCorrupt
  /\ HandleOdr(Head(wire))
  /\ misled' = (misled \/ (Head(wire).order_state \in RejectStates /\ mdOrders' # mdOrders))
  /\ wire' = Tail(wire)
  /\ UNCHANGED <<vars, up, cuts>>

FeedNext == EngineStep \/ Connect \/ Cut \/ Receive

FeedSpec == FeedInit /\ [][FeedNext]_feedVars

-----------------------------------------------------------------------------
(* Properties.                                                             *)

\* The book has received everything the engine has said so far.
Settled == up /\ wire = <<>> /\ pc = "idle" /\ ~corrupt /\ ~mdCorrupt

\* What rests in the engine's book at price p.
Resting(s, p) ==
  SumOver([i \in DOMAIN odrMap |-> odrMap[i].remain_quantity],
          {e[2] : e \in {f \in book[s] : f[1] = p}})

\* A market order that was partly filled is in the book at MARKET_PRICE.
MarketLevel == \E s \in Sides : MARKET_PRICE \in DOMAIN mdBook[s]

\* After reconnects the book may still show orders that ended while the
\* connection was down, but never less than what rests at a price; fed over one
\* unbroken connection, whenever it was opened, it has exactly the levels of the
\* engine, and no level is missing when it is reduced.  There are two exceptions: a
\* partly filled market order, whose resting price is never reported and which is
\* counted at MARKET_PRICE; and the reject of an amend, or of a cancel, that names an
\* order the book still counts, which is taken for the end of that order.
MdFollowsEngine ==
  ~MarketLevel /\ ~misled =>
    /\ ~mdCorrupt
    /\ Settled => \A s \in Sides :
         LET prices == {e[1] : e \in book[s]}
         IN  /\ \A p \in prices : p \in DOMAIN mdBook[s] /\ mdBook[s][p] >= Resting(s, p)
             /\ cuts = 0 => mdBook[s] = [p \in prices |-> Resting(s, p)]
=============================================================================
