---------------------------- MODULE ImpliedMatching ----------------------------
(***************************************************************************)
(* Engines that trade in each other's books.  An implier lets the taker of *)
(* one engine trade against the best orders of two other engines, its      *)
(* legs, at a price made of theirs (PriceMath).  This module is the        *)
(* matcher with impliers: top, normal_match, match and fok_match over the  *)
(* books of a group of engines, one iteration of their loops a step.       *)
(*                                                                         *)
(* Every program of the repository runs all engines of a group in one      *)
(* thread and gives a side of an engine at most one implier: one call is   *)
(* under way at a time.  Stops, amends, auctions and rejected orders are   *)
(* those of Engine and are left out; an order is identified by its id.     *)
(***************************************************************************)
EXTENDS PriceMath, Sequences, FiniteSets, FiniteSetsExt

CONSTANTS
  Engines,     \* The engines of the group.
  Rule,        \* Rule[e]: "in", "a_out", "b_out", "repo_out" or "none".
  Legs,        \* Legs[e]: the engines of the two legs of e's impliers.
  Pips,        \* Pips[e]: _pips of e's impliers.
  Tick,        \* Tick[e]: _mini_tick.
  Factor,      \* The price factor of a repo implier.
  Requests,    \* New orders: records [eng, side, price, qty, tif].
  MARKET_PRICE,\* The price of a market order; larger than any price.
  MaxOrders    \* Bound: orders that are sent.

ASSUME GroupAssumption ==
  /\ Rule \in [Engines -> {"in", "a_out", "b_out", "repo_out", "none"}]
  /\ Tick \in [Engines -> Nat \ {0}] /\ Pips \in [Engines -> Nat]
  /\ \A e \in Engines : Rule[e] # "none" =>
       /\ Legs[e] \in Engines \X Engines
       /\ Cardinality({e, Legs[e][1], Legs[e][2]}) = 3
  /\ Factor \in Nat \ {0} /\ MARKET_PRICE \in Int /\ MaxOrders \in Nat
  /\ Requests \subseteq
       [eng : Engines, side : {"BUY", "SELL"}, price : Int, qty : Nat \ {0},
        tif : {"NONE", "IOC", "FOK", "MAKER_ONLY", "MAKER_ONLY_REPRICE"}]

VARIABLES
  book,     \* The resting orders of all engines.
  nextId,   \* engine::_id.
  taker,    \* The order of the call under way, or None.
  plan,     \* records of fok_match.
  pc,       \* "idle", "match", "fok" (planning) or "trade" (its records).
  fills,    \* History: the fills of the call under way.
  ended     \* History: what the fill-or-kill order that just ended left of its quantity.

vars == <<book, nextId, taker, plan, pc, fills, ended>>

-----------------------------------------------------------------------------

None == [id |-> 0]

NoFok == [left |-> 0, qty |-> 0]

Opposite(side) == IF side = "BUY" THEN "SELL" ELSE "BUY"

(* cmp of the opposite book: what a taker of this side prefers.             *)
Better(side, p, r) == IF side = "BUY" THEN p < r ELSE p > r

RestingOn(e, side) == {o \in book : o.eng = e /\ o.side = side}

(* What the records is of a plan p trade together.                         *)
PlanQty(p, is) == MapThenSumSet(LAMBDA i : p[i].qty, is)

(* What fok_match has not planned yet of a resting order (_remain_quantity  *)
(* of the iterators, which move on when it is 0).  Mutant: a plan does not  *)
(* reduce what its iterators offer.                                         *)
Open_Unplanned(o) == o.qty

Open(o) == o.qty - PlanQty(plan, {i \in DOMAIN plan : o.id \in plan[i].makers})

(* The order a taker of the given side meets first: best price, then age.   *)
Front(e, side) ==
  LET open == {o \in RestingOn(e, Opposite(side)) : Open(o) > 0}
  IN  {o \in open : \A r \in open \ {o} :
         \/ Better(side, o.price, r.price)
         \/ o.price = r.price /\ o.id < r.id}

(* The books the legs of e's implier trade in, as the side that takes them. *)
LegSides(e, side) ==
  CASE Rule[e] \in {"in", "b_out"} -> <<side, Opposite(side)>>
    [] OTHER                       -> <<side, side>>

matchd_price(e, side, p1, p2) ==
  CASE Rule[e] \in {"in", "b_out"} ->
         IF side = "BUY" THEN minus_ask(p1, p2, Pips[e], Tick[e])
                         ELSE minus_bid(p1, p2, Pips[e], Tick[e])
    [] Rule[e] = "a_out" ->
         IF side = "BUY" THEN add_ask(p1, p2, Pips[e], Tick[e])
                         ELSE add_bid(p1, p2, Pips[e], Tick[e])
    [] Rule[e] = "repo_out" ->
         IF side = "BUY" THEN repo_out_ask(p1, p2, Pips[e], Tick[e], Factor)
                         ELSE repo_out_bid(p1, p2, Pips[e], Tick[e], Factor)

LegPairs(e, side) ==
  IF Rule[e] = "none" THEN {}
  ELSE Front(Legs[e][1], LegSides(e, side)[1]) \X Front(Legs[e][2], LegSides(e, side)[2])

(* An implied price that would be better than e's own best order of the     *)
(* taker's side is put one tick behind that order.                          *)
Behind(e, side, price) ==
  LET own == Front(e, Opposite(side))
  IN  IF \E o \in own : Better(side, price, o.price)
      THEN LET o == CHOOSE o \in own : TRUE
           IN  IF side = "BUY" THEN o.price + Tick[e] ELSE o.price - Tick[e]
      ELSE price

Min2(a, b) == IF a < b THEN a ELSE b

Local(e, side) ==
  {[price |-> o.price, qty |-> Open(o), makers |-> {o.id}, legs |-> << >>] :
     o \in Front(e, side)}

Implied(e, side) ==
  {[price  |-> Behind(e, side, matchd_price(e, side, l[1].price, l[2].price)),
    qty    |-> Min2(Open(l[1]), Open(l[2])),
    makers |-> {l[1].id, l[2].id},
    legs   |-> <<l[1].price, l[2].price>>] : l \in LegPairs(e, side)}

(* matcher::top: the local order unless the implied price is strictly       *)
(* better.  Mutant: implied orders always come first.                       *)
Top_ImpliedFirst(e, side) ==
  IF Implied(e, side) # {} THEN Implied(e, side) ELSE Local(e, side)

Top(e, side) ==
  {i \in Implied(e, side) : \A l \in Local(e, side) : Better(side, i.price, l.price)}
    \cup
  {l \in Local(e, side) : \A i \in Implied(e, side) : ~Better(side, i.price, l.price)}

(* matcher::top_price, which best_bid and best_ask use.                     *)
TopPrices(e, side) ==
  {o.price : o \in Front(e, side)} \cup
  {matchd_price(e, side, l[1].price, l[2].price) : l \in LegPairs(e, side)}

-----------------------------------------------------------------------------

Init ==
  /\ book = {} /\ nextId = 1 /\ taker = None /\ plan = << >> /\ pc = "idle"
  /\ fills = << >> /\ ended = NoFok

(* handle with a NEW order that is accepted.                                *)
New(r) ==
  /\ pc = "idle" /\ nextId <= MaxOrders
  /\ taker' = [id |-> nextId, eng |-> r.eng, side |-> r.side, price |-> r.price,
               qty |-> r.qty, left |-> r.qty, tif |-> r.tif]
  /\ nextId' = nextId + 1
  /\ pc' = IF r.tif = "FOK" THEN "fok" ELSE "match"
  /\ ended' = NoFok
  /\ UNCHANGED <<book, plan, fills>>

(* handle with a CANCEL of a resting order.                                 *)
Cancel(o) ==
  /\ pc = "idle"
  /\ book' = book \ {o}
  /\ UNCHANGED <<nextId, taker, plan, pc, fills, ended>>

(* The top price is within the taker's limit.  Mutant: an equal price is    *)
(* not enough.                                                              *)
Reachable_Strictly(t) ==
  taker.price = MARKET_PRICE \/ Better(taker.side, t.price, taker.price)

Reachable(t) ==
  taker.price = MARKET_PRICE \/ ~Better(taker.side, taker.price, t.price)

Crossing == {t \in Top(taker.eng, taker.side) : Reachable(t)}

(* The call returns; the history notes what it left.                        *)
Return ==
  /\ pc' = "idle" /\ taker' = None /\ plan' = << >>
  /\ ended' = IF taker.tif = "FOK" THEN [left |-> taker.left, qty |-> taker.qty] ELSE NoFok
  /\ fills' = << >>
  /\ UNCHANGED nextId

(* maker_match of every maker and taker_match.                              *)
Trade(t, qty) ==
  /\ book' = {o \in book : o.id \notin t.makers} \cup
             {[o EXCEPT !.qty = @ - qty] :
                o \in {o \in book : o.id \in t.makers /\ o.qty # qty}}
  /\ taker' = [taker EXCEPT !.left = @ - qty]
  /\ fills' = Append(fills,
       [eng |-> taker.eng, side |-> taker.side, limit |-> taker.price,
        price |-> t.price, legs |-> t.legs,
        book |-> {o.price : o \in RestingOn(taker.eng, Opposite(taker.side))}])

MatchTop(t) ==
  /\ pc = "match" /\ taker.left > 0
  /\ t \in Crossing /\ taker.tif \notin {"MAKER_ONLY", "MAKER_ONLY_REPRICE"}
  /\ Trade(t, Min2(t.qty, taker.left))
  /\ UNCHANGED <<nextId, plan, pc, ended>>

MatchDone ==
  /\ pc = "match" /\ taker.left = 0
  /\ Return
  /\ UNCHANGED book

CancelMakerOnly ==
  /\ pc = "match" /\ Crossing # {} /\ taker.tif = "MAKER_ONLY"
  /\ Return
  /\ UNCHANGED book

RestAt(price) ==
  book' = book \cup {[id |-> taker.id, eng |-> taker.eng, side |-> taker.side,
                      price |-> price, qty |-> taker.left]}

Reprice ==
  /\ pc = "match" /\ taker.tif = "MAKER_ONLY_REPRICE"
  /\ \E t \in Crossing :
       RestAt(IF taker.side = "BUY" THEN t.price - Tick[taker.eng]
                                    ELSE t.price + Tick[taker.eng])
  /\ Return

(* What is left when nothing crosses.  A market order rests at the best     *)
(* price of its own side, implied prices included, if there is one.         *)
Remains == pc = "match" /\ taker.left > 0 /\ Crossing = {}

CancelRemainder ==
  /\ Remains /\ taker.tif = "IOC"
  /\ Return
  /\ UNCHANGED book

RestPrices ==
  LET best == TopPrices(taker.eng, Opposite(taker.side))
  IN  IF taker.price # MARKET_PRICE THEN {taker.price}
      ELSE {p \in best : \A r \in best : ~Better(Opposite(taker.side), r, p)}

RestRemainder ==
  /\ Remains /\ taker.tif # "IOC"
  /\ IF RestPrices = {} THEN UNCHANGED book ELSE \E p \in RestPrices : RestAt(p)
  /\ Return

(* fok_match: one record of the plan, the kill, and one trade of the plan.  *)
Planned == PlanQty(plan, DOMAIN plan)

FokPlan(t) ==
  /\ pc = "fok" /\ Planned < taker.qty /\ t \in Crossing
  /\ plan' = Append(plan, [t EXCEPT !.qty = Min2(@, taker.qty - Planned)])
  /\ UNCHANGED <<book, nextId, taker, pc, fills, ended>>

FokKill ==
  /\ pc = "fok" /\ Planned < taker.qty /\ Crossing = {}
  /\ Return
  /\ UNCHANGED book

FokPlanned ==
  /\ pc = "fok" /\ Planned = taker.qty
  /\ pc' = "trade"
  /\ UNCHANGED <<book, nextId, taker, plan, fills, ended>>

FokTrade ==
  /\ pc = "trade" /\ plan # << >>
  /\ Trade(Head(plan), Head(plan).qty)
  /\ plan' = Tail(plan)
  /\ UNCHANGED <<nextId, pc, ended>>

FokDone ==
  /\ pc = "trade" /\ plan = << >>
  /\ Return
  /\ UNCHANGED book

Step ==
  \/ \E o \in book : Cancel(o)
  \/ pc = "match" /\ \E t \in Crossing : MatchTop(t)
  \/ MatchDone
  \/ CancelMakerOnly
  \/ Reprice
  \/ CancelRemainder
  \/ RestRemainder
  \/ pc = "fok" /\ \E t \in Crossing : FokPlan(t)
  \/ FokKill
  \/ FokPlanned
  \/ FokTrade
  \/ FokDone

Next == (\E r \in Requests : New(r)) \/ Step

Spec == Init /\ [][Next]_vars

-----------------------------------------------------------------------------
(* The price at which the two legs of a fill were traded, times Scale.      *)
Scale(e) == IF Rule[e] = "repo_out" THEN Factor ELSE 1

LegsPrice(e, p1, p2) ==
  CASE Rule[e] \in {"in", "b_out"} -> p1 - p2
    [] Rule[e] = "a_out"           -> p1 + p2
    [] Rule[e] = "repo_out"        -> p1 * (Factor + p2)

(* An implied fill never costs the exchange: the taker pays at least, or    *)
(* receives at most, what the two makers of the legs are paid together,     *)
(* whatever the signs of the prices, the commission, the rounding and the   *)
(* move behind the taker's own side.  For repo_out the fraction of a price  *)
(* unit is lost, because round_up(..., 1) rounds an integer.                *)
ImpliedCoversLegs ==
  \A i \in DOMAIN fills :
    LET f    == fills[i]
        cost == LegsPrice(f.eng, f.legs[1], f.legs[2])
    IN
    f.legs # << >> =>
      IF f.side = "BUY" THEN f.price * Scale(f.eng) > cost - Scale(f.eng)
                        ELSE f.price * Scale(f.eng) < cost + Scale(f.eng)

(* A taker never trades beyond its limit, and never at a worse price than   *)
(* an order that waits in the engine's own book at that moment: a fill from *)
(* the legs comes in between only when it is better.                        *)
FillsAtBestPrice ==
  \A i \in DOMAIN fills :
    LET f == fills[i] IN
    /\ f.limit = MARKET_PRICE \/ ~Better(f.side, f.limit, f.price)
    /\ \A p \in f.book : ~Better(f.side, p, f.price)

(* Between calls no book is crossed, and no order that waits in a spread's  *)
(* book could trade against the best orders of its legs: an order that      *)
(* arrives in any of the three books and would make such a trade possible   *)
(* is matched through the implier of its own engine, if all three have one. *)
GroupUncrossed ==
  pc = "idle" =>
    /\ \A b, a \in book : b.eng = a.eng /\ b.side = "BUY" /\ a.side = "SELL" => b.price < a.price
    /\ \A e \in Engines, side \in {"BUY", "SELL"} :
         Rule[e] = "in" /\ Rule[Legs[e][1]] # "none" /\ Rule[Legs[e][2]] # "none" =>
           \A o \in RestingOn(e, side), l \in LegPairs(e, side) :
             Better(side, o.price, matchd_price(e, side, l[1].price, l[2].price))

(* Both legs of the spread e have an implier of their own.                  *)
Linked(e) == Rule[e] = "in" /\ Rule[Legs[e][1]] # "none" /\ Rule[Legs[e][2]] # "none"

OnTick(e, price) == round_down(price, Tick[e]) = price

(* What GroupUncrossed asks of the group, as in durian_BTC.json: the legs   *)
(* of a spread trade through each other without a commission, that of the   *)
(* spread is no more than the price, and orders keep to the ticks of the    *)
(* legs, which no engine requires.                                          *)
SpreadGroups ==
  \A e \in Engines : Linked(e) =>
    LET a == Legs[e][1]  b == Legs[e][2] IN
    /\ Rule[a] = "a_out" /\ Legs[a] = <<e, b>>
    /\ Rule[b] = "b_out" /\ Legs[b] = <<a, e>>
    /\ Pips[e] <= 10000 /\ Pips[a] = 0 /\ Pips[b] = 0
    /\ \A r \in Requests :
         r.eng \in {a, b} => r.price = MARKET_PRICE \/ OnTick(r.eng, r.price)

(* What fok_match has planned can be traded: every maker of the records     *)
(* left, legs included, still has the quantity of all its records, and a    *)
(* fill-or-kill order ends filled or untouched.                             *)
PlanHolds ==
  /\ \A o \in book : o.qty > 0 /\ Open(o) >= 0
  /\ \A i \in DOMAIN plan : plan[i].makers \subseteq {o.id : o \in book}
  /\ ended.left \in {0, ended.qty}
=============================================================================
