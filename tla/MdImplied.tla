------------------------------ MODULE MdImplied ------------------------------
(***************************************************************************)
(* The book of a market-data service with implied levels: md_book.cpp,     *)
(* md_implied_book.cpp and their subscribers (md_tcp_service.cpp).         *)
(*                                                                         *)
(* A service follows the orders of its own instrument (the feed "out") and *)
(* of the two legs of each implied book, over one connection each.  The    *)
(* levels of the instrument and the levels implied by the legs are added   *)
(* up in one book, outright, whose changes go to the subscribers.  All of  *)
(* this runs in one thread, a handler at a time, but the connections are   *)
(* independent: the handlers run in any order that keeps the order of each *)
(* feed, so what the feeds show together may never have been true of the   *)
(* engines.  A subscriber's connection keeps the order of the items, so    *)
(* its view is brought up to date within the handler.                      *)
(***************************************************************************)
EXTENDS PriceMath, Sequences, FiniteSets, Sums, Functions, SequencesExt

CONSTANTS
  Books,           \* The implied books, a sequence.
  Type,            \* Type[b][s]: the leg sides of an implied side, or << >>.
  Rule,            \* Rule[b]: "add" or "minus", its impliers.
  Pips,            \* Pips[b]: their _pips.
  Tick,            \* mini_tick.
  Ids,             \* Orders that are open at the same time, at most.
  Prices,          \* Prices[f]: the prices of the orders of a feed.
  Quantities,      \* Quantities of the orders.
  Kinds,           \* Kinds of orders of the instrument: "limit", "stop".
  QuantityModulus  \* 2 ^ 64: the range of an unsigned long long.

BookSet == Range(Books)
LegFeeds == BookSet \X {"a", "b"}
Out == <<"out">>
Feeds == LegFeeds \cup {Out}
Sides == {"bid", "ask"}

ASSUME MdImpliedAssumption ==
  /\ Books \in Seq(BookSet) /\ IsInjective(Books)
  /\ Type \in [BookSet -> [Sides -> (Sides \X Sides) \cup {<< >>}]]
  /\ Rule \in [BookSet -> {"add", "minus"}] /\ Pips \in [BookSet -> Nat]
  /\ Tick \in Nat \ {0} /\ QuantityModulus \in Nat \ {0}
  /\ Kinds \subseteq {"limit", "stop"} /\ Quantities \subseteq Nat \ {0}
  /\ IsFiniteSet(Ids) /\ \A f \in Feeds : Prices[f] \subseteq Int

VARIABLES
  orders,  \* The open orders of the engines that feed the service.
  md       \* The service: a record of
           \*   leg     leg[f][s]: the levels of a leg's basic_book
           \*   out     out[s]: the levels of outright
           \*   imp     imp[b][s]: implied_bid and implied_ask of each book
           \*   sub     what a subscriber has, or << >> before it connects
           \*   corrupt a level that is not there was reduced
           \*   gone    history: how the best level opposite to an implied
           \*           side got worse since that side was computed

vars == <<orders, md>>

-----------------------------------------------------------------------------
(* Levels: maps of prices to quantities.                                    *)

Opposite(s) == IF s = "bid" THEN "ask" ELSE "bid"

Better(s, p, r) == IF s = "bid" THEN p > r ELSE p < r

NoLevels == [p \in {} |-> 0]

At(levels, p) == IF p \in DOMAIN levels THEN levels[p] ELSE 0

Best(s, levels) == {p \in DOMAIN levels : \A r \in DOMAIN levels : ~Better(s, r, p)}

Total(levels) == SumOver(levels, DOMAIN levels)

(* The best level of side s is worse than it was, or there is none any more.*)
Worse(s, new, old) ==
  \E p \in Best(s, old) : \A r \in Best(s, new) : Better(s, p, r)

(* add_*_quantity and reduce_*_quantity for each price at which a quantity  *)
(* changes from old to new; a level that is reduced to 0 is erased.         *)
Moved(levels, old, new) ==
  LET result(p) == (At(levels, p) + At(new, p) - At(old, p)) % QuantityModulus
  IN  [p \in {r \in DOMAIN levels \cup DOMAIN new : result(r) # 0} |-> result(p)]

Unfound(levels, old, new) ==
  \E p \in DOMAIN old \ DOMAIN levels : At(new, p) < old[p]

(* The subscriber sets each level it is sent, or drops it at 0.            *)
Seen(view, levels, changed) ==
  [p \in (DOMAIN view \ changed) \cup (changed \cap DOMAIN levels) |->
     IF p \in changed THEN levels[p] ELSE view[p]]

Sent(m, s, levels, changed) ==
  IF m.sub = << >> THEN << >> ELSE [m.sub EXCEPT ![s] = Seen(m.sub[s], levels, changed)]

Gone(m, s, levels, way) ==
  [b \in BookSet |->
     IF Worse(s, levels, m.out[s]) /\ m.imp[b][Opposite(s)] # NoLevels
     THEN [m.gone[b] EXCEPT ![Opposite(s)] = m.gone[b][Opposite(s)] \cup {way}] ELSE m.gone[b]]

Changed(old, new) == {p \in DOMAIN old \cup DOMAIN new : At(old, p) # At(new, p)}

(* Side s of outright changes by the quantities from old to new, for the    *)
(* reason way, and cb sends the levels that changed.                        *)
Move(m, s, old, new, way) ==
  LET levels  == Moved(m.out[s], old, new)
  IN  IF Unfound(m.out[s], old, new) THEN [m EXCEPT !.corrupt = TRUE]
      ELSE [m EXCEPT !.out[s] = levels, !.sub = Sent(m, s, levels, Changed(old, new)),
                     !.gone = Gone(m, s, levels, way)]

-----------------------------------------------------------------------------
(* handle_implied.                                                          *)

matchd_price(b, s, p1, p2) ==
  CASE Rule[b] = "add"   /\ s = "bid" -> add_bid(p1, p2, Pips[b], Tick)
    [] Rule[b] = "add"   /\ s = "ask" -> add_ask(p1, p2, Pips[b], Tick)
    [] Rule[b] = "minus" /\ s = "bid" -> minus_bid(p1, p2, Pips[b], Tick)
    [] Rule[b] = "minus" /\ s = "ask" -> minus_ask(p1, p2, Pips[b], Tick)

(* The opposite level that an implied price would meet.                     *)
Met(m, s, price) ==
  {p \in Best(Opposite(s), m.out[Opposite(s)]) : ~Better(Opposite(s), price, p)}

(* Such a price is put a tick before the level it would meet.               *)
HeldBack(m, s, price) ==
  IF Met(m, s, price) = {} THEN price
  ELSE LET p == CHOOSE p \in Met(m, s, price) : TRUE
       IN  IF s = "bid" THEN p - Tick ELSE p + Tick

Leg(m, b, s, i) == m.leg[<<b, IF i = 1 THEN "a" ELSE "b">>][Type[b][s][i]]

(* The quantity of leg i that is ahead of its level p.                      *)
Ahead(m, b, s, i, p) ==
  LET levels == Leg(m, b, s, i)
  IN  SumOver(levels, {r \in DOMAIN levels : Better(Type[b][s][i], r, p)})

(* The loop consumes the two legs side by side, so the levels x[1] and x[2] *)
(* that it pairs are those whose places in their legs overlap, and the      *)
(* overlap, from From to Until, is the quantity of the pair.                *)
From(m, b, s, x) == Max({Ahead(m, b, s, i, x[i]) : i \in 1 .. 2})

Until(m, b, s, x) ==
  Min({Ahead(m, b, s, i, x[i]) + Leg(m, b, s, i)[x[i]] : i \in 1 .. 2})

Pairs(m, b, s) ==
  {x \in (DOMAIN Leg(m, b, s, 1)) \X (DOMAIN Leg(m, b, s, 2)) :
     From(m, b, s, x) < Until(m, b, s, x)}

PairPrice(m, b, s, x) == HeldBack(m, s, matchd_price(b, s, x[1], x[2]))

(* A later pair at the same price replaces an earlier one.                  *)
LastPair(m, b, s, p) ==
  CHOOSE x \in Pairs(m, b, s) :
    /\ PairPrice(m, b, s, x) = p
    /\ \A y \in Pairs(m, b, s) : PairPrice(m, b, s, y) = p => From(m, b, s, y) <= From(m, b, s, x)

Implied(m, b, s) ==
  [p \in {PairPrice(m, b, s, x) : x \in Pairs(m, b, s)} |->
     LET x == LastPair(m, b, s, p) IN Until(m, b, s, x) - From(m, b, s, x)]

(* Mutant of Refresh: a level that stays is not taken out of the new book,  *)
(* and is added once more.                                                  *)
Refresh_NoErase(m, b, s) ==
  LET new  == Implied(m, b, s)
      both == Restrict(new, DOMAIN new \cap DOMAIN m.imp[b][s])
  IN  [Move(Move(m, s, m.imp[b][s], new, "implied"), s, NoLevels, both, "implied")
         EXCEPT !.imp[b][s] = new, !.gone[b][s] = {}]

Refresh(m, b, s) ==
  LET new == Implied(m, b, s)
  IN  [Move(m, s, m.imp[b][s], new, "implied") EXCEPT !.imp[b][s] = new, !.gone[b][s] = {}]

-----------------------------------------------------------------------------
(* The handlers.  An order has quantity q instead of old at price p.        *)

One(p, q) == [r \in IF q = 0 THEN {} ELSE {p} |-> q]

(* handle_a and handle_b: the implied sides that use side s of the leg.     *)
(* Mutant: handle_b refreshes nothing.                                      *)
UsesLeg_OnlyA(b, s, i, legSide) == i = 1 /\ Type[b][s] # << >> /\ Type[b][s][1] = legSide

UsesLeg(b, s, i, legSide) == Type[b][s] # << >> /\ Type[b][s][i] = legSide

HandleLeg(f, s, p, old, q) ==
  LET b == f[1]
      i == IF f[2] = "a" THEN 1 ELSE 2
      m == [md EXCEPT !.leg[f][s] = Moved(@, One(p, old), One(p, q))]
      bids == IF UsesLeg(b, "bid", i, s) THEN Refresh(m, b, "bid") ELSE m
  IN  md' = IF UsesLeg(b, "ask", i, s) THEN Refresh(bids, b, "ask") ELSE bids

(* handle_implied_bid has a branch for every type; handle_implied_ask names *)
(* a_bid_b_ask and a_ask_b_ask twice and the other two not at all.  Mutant: *)
(* handle_implied_bid like handle_implied_ask.                              *)
Refreshes_AskLegs(b, s) == Type[b][s] # << >> /\ Type[b][s][2] = "ask"

Refreshes(b, s) == Type[b][s] # << >> /\ (s = "bid" \/ Type[b][s][2] = "ask")

(* handle_outright: when a limit order takes the best price of its side     *)
(* away, the implied levels it held back are computed again.                *)
Lifted(m, b, s) == IF Refreshes(b, s) THEN Refresh(m, b, s) ELSE m

RefreshAll(m, s) == FoldLeft(LAMBDA x, b : Lifted(x, b, s), m, Books)

HandleOutright(s, p, old, q, kind) ==
  LET m == Move(md, s, One(p, old), One(p, q), kind)
  IN  md' = IF kind = "limit" /\ Worse(s, m.out[s], md.out[s])
            THEN RefreshAll(m, Opposite(s)) ELSE m

Handle(ord, old, q) ==
  IF ord.feed = Out THEN HandleOutright(ord.side, ord.price, old, q, ord.kind)
  ELSE HandleLeg(ord.feed, ord.side, ord.price, old, q)

-----------------------------------------------------------------------------

NoOrder == [feed |-> << >>]

Init ==
  /\ orders = [i \in Ids |-> NoOrder]
  /\ md = [leg  |-> [f \in LegFeeds |-> [s \in Sides |-> NoLevels]],
           out  |-> [s \in Sides |-> NoLevels],
           imp  |-> [b \in BookSet |-> [s \in Sides |-> NoLevels]],
           sub  |-> << >>,
           corrupt |-> FALSE,
           gone |-> [b \in BookSet |-> [s \in Sides |-> {}]]]

(* An engine opens an order, in a book of its own that is never crossed.    *)
Open(i, f, s, p, q, k) ==
  /\ orders[i] = NoOrder /\ ~md.corrupt
  /\ k = "stop" => f = Out
  /\ \A j \in Ids : orders[j].feed = f /\ orders[j].side # s => Better(s, orders[j].price, p)
  /\ orders' = [orders EXCEPT ![i] = [feed |-> f, side |-> s, price |-> p, qty |-> q, kind |-> k]]
  /\ Handle([feed |-> f, side |-> s, price |-> p, kind |-> k], 0, q)

(* It is amended, filled in part, or ends (q = 0).                          *)
Change(i, q) ==
  /\ orders[i] # NoOrder /\ orders[i].qty # q /\ ~md.corrupt
  /\ orders' = [orders EXCEPT ![i] = IF q = 0 THEN NoOrder ELSE [@ EXCEPT !.qty = q]]
  /\ Handle(orders[i], orders[i].qty, q)

(* md_book::recovery to a subscriber that connects.                         *)
Subscribe ==
  /\ md.sub = << >> /\ ~md.corrupt
  /\ md' = [md EXCEPT !.sub = md.out]
  /\ UNCHANGED orders

Next ==
  \/ \E i \in Ids, f \in Feeds, s \in Sides, q \in Quantities, k \in Kinds :
       \E p \in Prices[f] : Open(i, f, s, p, q, k)
  \/ \E i \in Ids, q \in Quantities \cup {0} : Change(i, q)
  \/ Subscribe

Spec == Init /\ [][Next]_vars

-----------------------------------------------------------------------------
(* Properties.                                                              *)

(* The quantity of the open orders of a feed at a price.                    *)
Ordered(f, s, p) ==
  SumOver([i \in Ids |->
             IF orders[i] # NoOrder /\ orders[i].feed = f
                  /\ orders[i].side = s /\ orders[i].price = p
             THEN orders[i].qty ELSE 0], Ids)

(* The quantities at a price are in the range of their type: those of the   *)
(* orders of a feed up to a number whose sum over all the books is, too.    *)
QuantitiesFit ==
  \E most \in 0 .. QuantityModulus :
    /\ \A q \in Quantities : q * Cardinality(Ids) <= most
    /\ most * (Cardinality(BookSet) + 1) < QuantityModulus

(* The impliers take the legs that make their price best, as the instances  *)
(* of matching_test.cpp do, and no more than the price as commission.       *)
LegsFit ==
  \A b \in BookSet :
    /\ Pips[b] <= 10000
    /\ \A s \in Sides : Type[b][s] # << >> =>
         Type[b][s] = <<s, IF Rule[b] = "add" THEN s ELSE Opposite(s)>>

(* The quantity that all books imply at a price.                            *)
ImpliedAt(s, p) == SumOver([b \in BookSet |-> At(md.imp[b][s], p)], BookSet)

AllPrices ==
  (UNION {DOMAIN md.out[s] : s \in Sides}) \cup Prices[Out]
    \cup (UNION {UNION {DOMAIN md.imp[b][s] : s \in Sides} : b \in BookSet})

(* The books of the legs hold the open orders of the legs.  outright holds, *)
(* at each price, the open orders of the instrument and the implied         *)
(* quantities of all books, although the two are added and taken off by     *)
(* different handlers and only as differences; no level is missing when it  *)
(* is reduced, none is left behind with quantity 0.  A subscriber that      *)
(* connected at any time, got the levels of that time and then single       *)
(* levels, has exactly these.                                               *)
LevelsAddUp ==
  /\ ~md.corrupt
  /\ \A f \in LegFeeds, s \in Sides : \A p \in DOMAIN md.leg[f][s] \cup Prices[f] :
       At(md.leg[f][s], p) = Ordered(f, s, p)
  /\ \A s \in Sides : \A p \in AllPrices :
       At(md.out[s], p) = Ordered(Out, s, p) + ImpliedAt(s, p)
  /\ \A s \in Sides : \A p \in DOMAIN md.out[s] : md.out[s][p] > 0
  /\ md.sub # << >> => md.sub = md.out

(* The best price of the legs, before it is held back, if both have one.    *)
LegPrices(m, b, s) ==
  IF Type[b][s] = << >> THEN {}
  ELSE {matchd_price(b, s, x[1], x[2]) :
          x \in Best(Type[b][s][1], Leg(m, b, s, 1)) \X Best(Type[b][s][2], Leg(m, b, s, 2))}

(* Rounding and commissions give two pairs of levels the same price.        *)
RoundedToOne(b, s) ==
  \E x, y \in Pairs(md, b, s) :
    x # y /\ matchd_price(b, s, x[1], x[2]) = matchd_price(b, s, y[1], y[2])

(* An implied side shows the quantity that both legs can deliver, and less  *)
(* only where several pairs of levels came to one price, where the last of  *)
(* them replaces the others: they were rounded to it, or held back to it,   *)
(* so that all of the side is worse than its best legs.                     *)
DepthOfLegs ==
  \A b \in BookSet, s \in Sides : Type[b][s] # << >> =>
    LET depth == Min({Total(Leg(md, b, s, 1)), Total(Leg(md, b, s, 2))})
    IN  \/ Total(md.imp[b][s]) = depth
        \/ /\ Total(md.imp[b][s]) < depth
           /\ \/ RoundedToOne(b, s)
              \/ \E p \in Best(s, md.imp[b][s]), r \in LegPrices(md, b, s) : Better(s, r, p)

(* An implied side has the price of its best legs unless a level of the     *)
(* other side is in the way: handle_outright lifts what held it back.  It   *)
(* does so when a limit order takes the best price away; not when a         *)
(* triggered stop does, whose side is not BUY or SELL, nor when an implied  *)
(* level does, and never for an ask whose second leg is a bid.              *)
HeldBackOnlyBySome ==
  \A b \in BookSet, s \in Sides : \A r \in LegPrices(md, b, s) :
    \/ r \in DOMAIN md.imp[b][s]
    \/ Met(md, s, r) # {}
    \/ md.gone[b][s] \cap {"stop", "implied"} # {}
    \/ s = "ask" /\ Type[b][s][2] = "bid"

(* The service shows a crossed book only while what it has received is      *)
(* crossed by itself: some order or pair of legs of one side reaches one of *)
(* the other, which no state of the engines ever does.                      *)
CrossedOnlyInFlight ==
  LET received(s) == (UNION {LegPrices(md, b, s) : b \in BookSet}) \cup
        {orders[i].price : i \in {j \in Ids : orders[j] # NoOrder /\ orders[j].feed = Out
                                                 /\ orders[j].side = s}}
  IN  (\E p \in DOMAIN md.out["bid"], r \in DOMAIN md.out["ask"] : p >= r) =>
        \E p \in received("bid"), r \in received("ask") : p >= r

(* The comment of the test: LONG B (implied OUT, ASK_B) is at ASK_PRICE_A - *)
(* BID_PRICE_AB, as long as no bid is in the way of that price.             *)
AskPriceOfLegs ==
  \A b \in BookSet : \A r \in LegPrices(md, b, "ask") :
    Met(md, "ask", r) = {} => r \in DOMAIN md.imp[b]["ask"]
=============================================================================
