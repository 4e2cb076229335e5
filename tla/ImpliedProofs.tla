----------------------------- MODULE ImpliedProofs -----------------------------
(***************************************************************************)
(* The matcher with impliers, for any group of engines, prices, ticks,     *)
(* commissions and orders.                                                 *)
(*                                                                         *)
(* PlanInv is what the matcher relies on between the planning of a         *)
(* fill-or-kill order and its trades: the plan takes no more of an order   *)
(* than it has, its makers rest, and each record has the best price of the *)
(* moment when the records before it have been traded.  The sums over the  *)
(* plan are MapThenSumSet's: what it computes is proved here from its      *)
(* definition, by induction on the size of the set.                        *)
(*                                                                         *)
(* Before that, the rounding of implied prices: the result is on the right *)
(* side of the price, less than a tick away, and a multiple of the tick,   *)
(* which makes it the one RoundsToGrid of MCImplied asks for.  The first   *)
(* two are enough for an implied price never to cost the exchange; the     *)
(* mirror law treats the sides alike.                                      *)
(***************************************************************************)
EXTENDS ImpliedMatching, FiniteSetTheorems, SequenceTheorems, WellFoundedInduction,
        TLAPS

-----------------------------------------------------------------------------
(* PriceMath.                                                               *)

(* The remainder of a natural number.                                       *)
LEMMA NatRemainder ==
  ASSUME NEW a \in Nat, NEW b \in Nat \ {0}
  PROVE  (a % b) \in 0 .. b - 1
BY SMT

(* The quotient of a natural number, with the remainder it leaves.          *)
LEMMA NatDivision ==
  ASSUME NEW a \in Nat, NEW b \in Nat \ {0}
  PROVE  /\ a \div b \in Nat
         /\ a = b * (a \div b) + (a % b)
BY SMT

(* The remainder of C++ has the sign of the price and is less than a tick.  *)
LEMMA RemRange ==
  ASSUME NEW p \in Int, NEW t \in Nat \ {0}
  PROVE  /\ Rem(p, t) \in Int
         /\ -t < Rem(p, t) /\ Rem(p, t) < t
         /\ p >= 0 => Rem(p, t) >= 0
         /\ p <= 0 => Rem(p, t) <= 0
<1>1. CASE p >= 0
  BY <1>1, NatRemainder DEF Rem
<1>2. CASE p < 0
  BY <1>2, NatRemainder DEF Rem
<1>3. QED BY <1>1, <1>2

(* The remainder of C++ changes its sign with the price.                    *)
LEMMA RemMirror ==
  ASSUME NEW p \in Int, NEW t \in Nat \ {0}
  PROVE  Rem(-p, t) = -Rem(p, t)
<1>1. 0 % t = 0 BY SMT
<1>2. CASE p = 0 BY <1>1, <1>2 DEF Rem
<1>3. CASE p > 0
  <2>1. -(-p) = p /\ ~(-p >= 0) BY <1>3
  <2>2. QED BY <1>3, <2>1, NatRemainder DEF Rem
<1>4. CASE p < 0
  <2>1. -p \in Nat /\ -p >= 0 /\ ~(p >= 0) BY <1>4
  <2>2. (-p) % t \in Int BY <2>1, NatRemainder
  <2>3. QED BY <1>4, <2>1, <2>2 DEF Rem
<1>5. QED BY <1>2, <1>3, <1>4

(* round_down of math.hpp never gives a price above the one it is given, and*)
(* takes off less than a tick, whatever the sign of the price.              *)
THEOREM RoundDownClose ==
  ASSUME NEW p \in Int, NEW t \in Nat \ {0}
  PROVE  /\ round_down(p, t) \in Int
         /\ round_down(p, t) <= p /\ p < round_down(p, t) + t
BY RemRange DEF round_down

(* round_up of math.hpp never gives a price below the one it is given, and  *)
(* adds less than a tick, whatever the sign of the price.                   *)
THEOREM RoundUpClose ==
  ASSUME NEW p \in Int, NEW t \in Nat \ {0}
  PROVE  /\ round_up(p, t) \in Int
         /\ p <= round_up(p, t) /\ round_up(p, t) < p + t
<1>1. /\ Rem(p, t) \in Int /\ -t < Rem(p, t) /\ Rem(p, t) < t
  BY RemRange
<1>2. CASE Rem(p, t) = 0 BY <1>2 DEF round_up
<1>3. CASE Rem(p, t) > 0 BY <1>1, <1>3 DEF round_up
<1>4. CASE Rem(p, t) < 0 BY <1>1, <1>4 DEF round_up
<1>5. QED BY <1>1, <1>2, <1>3, <1>4

(* round_up is the mirror image of round_down.                              *)
LEMMA RoundMirror ==
  ASSUME NEW p \in Int, NEW t \in Nat \ {0}
  PROVE  round_up(p, t) = -round_down(-p, t)
<1>1. Rem(-p, t) = -Rem(p, t) BY RemMirror
<1>2. Rem(p, t) \in Int BY RemRange
<1>3. QED BY <1>1, <1>2 DEF round_up, round_down

(* round_down of math.hpp gives a multiple of the tick.                     *)
THEOREM RoundDownOnGrid ==
  ASSUME NEW p \in Int, NEW t \in Nat \ {0}
  PROVE  \E k \in Int : round_down(p, t) = k * t
<1>1. CASE p >= 0
  <2>0. p \in Nat BY <1>1
  <2>1. p = t * (p \div t) + (p % t) /\ p \div t \in Nat /\ (p % t) \in 0 .. t - 1
    BY <2>0, NatDivision, NatRemainder
  <2>2. round_down(p, t) = p - (p % t) BY <1>1, <2>1 DEF round_down, Rem
  <2>3. round_down(p, t) = (p \div t) * t BY <2>1, <2>2
  <2>4. WITNESS p \div t \in Int
  <2>5. QED BY <2>3
<1>2. CASE p < 0
  <2> DEFINE n == -p
  <2>1. n \in Nat BY <1>2
  <2>2. n = t * (n \div t) + (n % t) /\ n \div t \in Nat /\ (n % t) \in 0 .. t - 1
    BY <2>1, NatDivision, NatRemainder
  <2>3. Rem(p, t) = -(n % t) BY <1>2 DEF Rem
  <2>4. CASE n % t = 0
    <3>1. round_down(p, t) = p BY <2>3, <2>4 DEF round_down
    <3>2. p = (-(n \div t)) * t BY <2>2, <2>4
    <3>3. QED BY <3>1, <3>2, <2>2
  <2>5. CASE n % t # 0
    <3>1. round_down(p, t) = p + (n % t) - t BY <2>2, <2>3, <2>5 DEF round_down
    <3>2. round_down(p, t) = (-(n \div t) - 1) * t BY <3>1, <2>2
    <3>3. -(n \div t) - 1 \in Int BY <2>2
    <3>4. WITNESS -(n \div t) - 1 \in Int
    <3>5. QED BY <3>2
  <2>6. QED BY <2>4, <2>5
<1>3. QED BY <1>1, <1>2

(* A commission is never negative, so it never favours the taker.           *)
LEMMA CommissionNat ==
  ASSUME NEW p1 \in Int, NEW p2 \in Int, NEW pips \in Nat
  PROVE  Commission(p1, p2, pips) \in Nat
<1>1. ASSUME NEW p \in Int PROVE handle_pips(p, pips) \in Nat
  <2>1. Abs(p) \in Nat BY DEF Abs
  <2>2. Abs(p) * pips \in Nat BY <2>1
  <2>3. (Abs(p) * pips) \div 10000 \in Nat BY <2>2, NatDivision
  <2>4. QED BY <2>2, <2>3 DEF handle_pips, Quot
<1>2. QED BY <1>1 DEF Commission

(* Whatever the legs, the commission and the tick are, an implied ask costs *)
(* the taker at least what the makers of the legs are paid, and an implied  *)
(* bid pays it at most that.                                                *)
THEOREM SpreadCoversLegs ==
  ASSUME NEW p1 \in Int, NEW p2 \in Int, NEW pips \in Nat, NEW t \in Nat \ {0}
  PROVE  /\ add_ask(p1, p2, pips, t) >= p1 + p2
         /\ add_bid(p1, p2, pips, t) <= p1 + p2
         /\ minus_ask(p1, p2, pips, t) >= p1 - p2
         /\ minus_bid(p1, p2, pips, t) <= p1 - p2
<1> DEFINE c == Commission(p1, p2, pips)
<1>1. c \in Nat BY CommissionNat
<1>2. add_ask(p1, p2, pips, t) >= p1 + p2
  <2>1. p1 + p2 + c \in Int BY <1>1
  <2>2. p1 + p2 + c <= round_up(p1 + p2 + c, t) /\ round_up(p1 + p2 + c, t) \in Int
    BY <2>1, RoundUpClose
  <2>3. QED BY <1>1, <2>2 DEF add_ask
<1>3. add_bid(p1, p2, pips, t) <= p1 + p2
  <2>1. p1 + p2 - c \in Int BY <1>1
  <2>2. round_down(p1 + p2 - c, t) <= p1 + p2 - c /\ round_down(p1 + p2 - c, t) \in Int
    BY <2>1, RoundDownClose
  <2>3. QED BY <1>1, <2>2 DEF add_bid
<1>4. minus_ask(p1, p2, pips, t) >= p1 - p2
  <2>1. p1 - p2 + c \in Int BY <1>1
  <2>2. p1 - p2 + c <= round_up(p1 - p2 + c, t) /\ round_up(p1 - p2 + c, t) \in Int
    BY <2>1, RoundUpClose
  <2>3. QED BY <1>1, <2>2 DEF minus_ask
<1>5. minus_bid(p1, p2, pips, t) <= p1 - p2
  <2>1. p1 - p2 - c \in Int BY <1>1
  <2>2. round_down(p1 - p2 - c, t) <= p1 - p2 - c /\ round_down(p1 - p2 - c, t) \in Int
    BY <2>1, RoundDownClose
  <2>3. QED BY <1>1, <2>2 DEF minus_bid
<1>6. QED BY <1>2, <1>3, <1>4, <1>5

(* The commission of math.hpp depends on the size of the legs alone.        *)
LEMMA CommissionMirror ==
  ASSUME NEW p1 \in Int, NEW p2 \in Int, NEW c \in Nat
  PROVE  Commission(-p1, -p2, c) = Commission(p1, p2, c)
<1>1. ASSUME NEW p \in Int PROVE Abs(-p) = Abs(p)
  BY DEF Abs
<1>2. QED BY <1>1 DEF Commission, handle_pips

(* Buyers and sellers are treated alike for every price, tick and           *)
(* commission: the implied ask is the mirror image of the implied bid of    *)
(* mirrored legs (the four spread impliers).                                *)
THEOREM SidesMirror ==
  ASSUME NEW p1 \in Int, NEW p2 \in Int, NEW pips \in Nat, NEW tick \in Nat \ {0}
  PROVE  /\ add_ask(p1, p2, pips, tick) = -add_bid(-p1, -p2, pips, tick)
         /\ minus_ask(p1, p2, pips, tick) = -minus_bid(-p1, -p2, pips, tick)
<1> DEFINE c == Commission(p1, p2, pips)
<1>1. c \in Nat /\ Commission(-p1, -p2, pips) = c
  BY CommissionNat, CommissionMirror
<1>2. add_ask(p1, p2, pips, tick) = -add_bid(-p1, -p2, pips, tick)
  <2>1. p1 + p2 + c \in Int /\ -(p1 + p2 + c) = (-p1) + (-p2) - c
    BY <1>1
  <2>2. round_up(p1 + p2 + c, tick) = -round_down(-(p1 + p2 + c), tick)
    BY <2>1, RoundMirror
  <2>3. QED BY <1>1, <2>1, <2>2 DEF add_ask, add_bid
<1>3. minus_ask(p1, p2, pips, tick) = -minus_bid(-p1, -p2, pips, tick)
  <2>1. p1 - p2 + c \in Int /\ -(p1 - p2 + c) = (-p1) - (-p2) - c
    BY <1>1
  <2>2. round_up(p1 - p2 + c, tick) = -round_down(-(p1 - p2 + c), tick)
    BY <2>1, RoundMirror
  <2>3. QED BY <1>1, <2>1, <2>2 DEF minus_ask, minus_bid
<1>4. QED BY <1>2, <1>3

-----------------------------------------------------------------------------
(* The invariant.                                                           *)

Sides == {"BUY", "SELL"}

Orders ==
  [id : Nat \ {0}, eng : Engines, side : Sides, price : Int, qty : Nat \ {0}]

Takers ==
  [id : Nat \ {0}, eng : Engines, side : Sides, price : Int, qty : Nat \ {0}, left : Nat,
   tif : {"NONE", "IOC", "FOK", "MAKER_ONLY", "MAKER_ONLY_REPRICE"}]

LegPrices == {<< >>} \cup (Int \X Int)

Trades == [price : Int, qty : Nat \ {0}, makers : SUBSET Nat, legs : LegPrices]

Fills ==
  [eng : Engines, side : Sides, limit : Int, price : Int, legs : LegPrices, book : SUBSET Int]

GroupTypeOK ==
  /\ book \subseteq Orders /\ IsFiniteSet(book)
  /\ nextId \in Nat \ {0}
  /\ pc \in {"idle", "match", "fok", "trade"}
  /\ IF pc = "idle" THEN taker = None ELSE taker \in Takers
  /\ plan \in Seq(Trades)
  /\ fills \in Seq(Fills)
  /\ ended \in [left : Nat, qty : Nat]

IdInv ==
  /\ \A o \in book : o.id < nextId
  /\ \A o, r \in book : o.id = r.id => o = r
  /\ pc # "idle" => taker.id < nextId /\ \A o \in book : o.id # taker.id

\* What the first i records of a plan take from the orders with these ids;
\* without ids, what they take in all.
Part(p, ids, i) == PlanQty(p, {j \in 1 .. i : ids \subseteq p[j].makers})

Within(limit, side, price) == limit = MARKET_PRICE \/ ~Better(side, limit, price)

\* The price of a trade of the legs, as in ImpliedCoversLegs.
Covered(e, side, price, legs) ==
  legs # << >> =>
    LET cost == LegsPrice(e, legs[1], legs[2])
    IN  IF side = "BUY" THEN price * Scale(e) > cost - Scale(e)
                        ELSE price * Scale(e) < cost + Scale(e)

\* The records of the plan can be traded one after the other, each at the
\* best price of its moment.
PlanInv ==
  /\ pc \in {"idle", "match"} => plan = << >>
  /\ pc = "match" =>
       /\ taker.tif # "FOK"
       /\ taker.tif = "MAKER_ONLY_REPRICE" => taker.left = taker.qty
  /\ pc \in {"fok", "trade"} => taker.tif = "FOK"
  /\ pc = "fok" => taker.left = taker.qty /\ Part(plan, {}, Len(plan)) <= taker.qty
  /\ pc = "trade" => taker.left = Part(plan, {}, Len(plan))
  /\ \A o \in book : Part(plan, {o.id}, Len(plan)) <= o.qty
  /\ \A i \in 1 .. Len(plan) :
       /\ \A id \in plan[i].makers : \E o \in book : o.id = id
       /\ Within(taker.price, taker.side, plan[i].price)
       /\ Covered(taker.eng, taker.side, plan[i].price, plan[i].legs)
       /\ \A o \in RestingOn(taker.eng, Opposite(taker.side)) :
            o.qty > Part(plan, {o.id}, i - 1) => ~Better(taker.side, o.price, plan[i].price)
  /\ ended.left \in {0, ended.qty}

GroupInv ==
  /\ GroupTypeOK /\ IdInv /\ PlanInv
  /\ FillsAtBestPrice /\ ImpliedCoversLegs

-----------------------------------------------------------------------------
(* Induction, and the least of a finite set.                                *)

(* A non-empty set of natural numbers has a least element.                  *)
LEMMA LeastElement ==
  ASSUME NEW S \in SUBSET Nat, S # {}
  PROVE  \E n \in S : \A k \in S : n <= k
<1> DEFINE R == OpToRel(<, Nat)
<1>1. IsWellFoundedOn(R, Nat)
  BY NatLessThanWellFounded
<1> HIDE DEF R
<1>2. PICK n \in S : \A k \in S : <<k, n>> \notin R
  BY <1>1, WFMin
<1>3. \A k \in S : ~(k < n)
  BY <1>2 DEF R, OpToRel
<1> QED BY <1>3

(* Induction on the natural numbers, for a set of them.                     *)
LEMMA NatInduct ==
  ASSUME NEW S \in SUBSET Nat, 0 \in S, \A n \in S : n + 1 \in S
  PROVE  S = Nat
<1> SUFFICES ASSUME S # Nat PROVE FALSE
  OBVIOUS
<1>1. PICK n \in Nat \ S : \A k \in Nat \ S : n <= k
  <2>1. Nat \ S \in SUBSET Nat /\ Nat \ S # {}
    OBVIOUS
  <2> QED BY <2>1, LeastElement
<1>2. n # 0 /\ n - 1 \in Nat /\ ~(n <= n - 1)
  BY <1>1
<1>3. n - 1 \in S
  BY <1>1, <1>2
<1>4. (n - 1) + 1 = n
  BY <1>1
<1> QED BY <1>1, <1>3, <1>4

-----------------------------------------------------------------------------
(* PlanQty: sums over finite sets of records of a plan.                     *)

\* The function MapThenSumSet chooses to sum the quantities of a plan.
SumStep(p, s, f) ==
  IF s = {} THEN 0 ELSE p[CHOOSE x \in s : TRUE].qty + f[s \ {CHOOSE x \in s : TRUE}]

Sums(p, S, f) == f = [s \in SUBSET S |-> SumStep(p, s, f)]

SumFcn(p, S) == CHOOSE f : Sums(p, S, f)

(* The sum is what the function gives for the whole set.                    *)
LEMMA PlanQtyIs ==
  ASSUME NEW p, NEW S
  PROVE  PlanQty(p, S) = SumFcn(p, S)[S]
  BY DEF PlanQty, MapThenSumSet, MapThenFoldSet, SumFcn, Sums, SumStep

\* The subsets of S with at most n elements.
Small(S, n) == {s \in SUBSET S : Cardinality(s) <= n}

SumsTo(p, S, n, f) == f = [s \in Small(S, n) |-> SumStep(p, s, f)]

(* Removing the chosen element makes a set smaller.                         *)
LEMMA SmallerLeft ==
  ASSUME NEW S, IsFiniteSet(S), NEW n \in Nat, NEW s \in Small(S, n + 1), s # {}
  PROVE  /\ (CHOOSE x \in s : TRUE) \in s
         /\ s \ {CHOOSE x \in s : TRUE} \in Small(S, n)
<1> DEFINE c == CHOOSE x \in s : TRUE
<1>1. c \in s
  OBVIOUS
<1> HIDE DEF c
<1>2. s \in SUBSET S /\ Cardinality(s) <= n + 1
  BY DEF Small
<1>3. IsFiniteSet(s)
  BY <1>2, FS_Subset
<1>4. Cardinality(s) \in Nat
  BY <1>3, FS_CardinalityType
<1>5. Cardinality(s \ {c}) = Cardinality(s) - 1
  BY <1>1, <1>3, FS_RemoveElement
<1>6. Cardinality(s \ {c}) <= n
  BY <1>2, <1>4, <1>5
<1>7. s \ {c} \in Small(S, n)
  BY <1>2, <1>6 DEF Small
<1> QED BY <1>1, <1>7 DEF c

(* The function exists up to any number of elements.                        *)
LEMMA SumsToExists ==
  ASSUME NEW p, NEW S, IsFiniteSet(S), NEW n \in Nat
  PROVE  \E f : SumsTo(p, S, n, f)
<1> DEFINE Good == {k \in Nat : \E f : SumsTo(p, S, k, f)}
<1>1. 0 \in Good
  <2>1. \A s \in Small(S, 0) : s = {}
    <3> SUFFICES ASSUME NEW s \in Small(S, 0) PROVE s = {}
      OBVIOUS
    <3>1. s \in SUBSET S /\ Cardinality(s) <= 0
      BY DEF Small
    <3>2. IsFiniteSet(s)
      BY <3>1, FS_Subset
    <3>3. Cardinality(s) = 0
      BY <3>1, <3>2, FS_CardinalityType
    <3> QED BY <3>2, <3>3, FS_EmptySet
  <2> DEFINE f == [s \in Small(S, 0) |-> 0]
  <2>2. \A s \in Small(S, 0) : SumStep(p, s, f) = 0
    BY <2>1 DEF SumStep
  <2>3. SumsTo(p, S, 0, f)
    BY <2>2 DEF SumsTo
  <2> QED BY <2>3
<1>2. ASSUME NEW k \in Good PROVE k + 1 \in Good
  <2>1. PICK f : SumsTo(p, S, k, f)
    BY <1>2
  <2> DEFINE g == [s \in Small(S, k + 1) |-> SumStep(p, s, f)]
  <2>2. Small(S, k) \subseteq Small(S, k + 1)
    <3> SUFFICES ASSUME NEW s \in Small(S, k) PROVE s \in Small(S, k + 1)
      OBVIOUS
    <3>1. s \in SUBSET S /\ Cardinality(s) <= k
      BY DEF Small
    <3>2. Cardinality(s) \in Nat
      BY <3>1, FS_Subset, FS_CardinalityType
    <3> QED BY <3>1, <3>2 DEF Small
  <2>3. \A s \in Small(S, k) : g[s] = f[s]
    BY <2>1, <2>2 DEF SumsTo
  <2> HIDE DEF g
  <2>4. \A s \in Small(S, k + 1) : SumStep(p, s, f) = SumStep(p, s, g)
    <3> SUFFICES ASSUME NEW s \in Small(S, k + 1) PROVE SumStep(p, s, f) = SumStep(p, s, g)
      OBVIOUS
    <3>1. CASE s = {}
      BY <3>1 DEF SumStep
    <3>2. CASE s # {}
      <4>1. s \ {CHOOSE x \in s : TRUE} \in Small(S, k)
        BY <3>2, SmallerLeft
      <4>2. g[s \ {CHOOSE x \in s : TRUE}] = f[s \ {CHOOSE x \in s : TRUE}]
        BY <4>1, <2>3
      <4> QED BY <3>2, <4>2 DEF SumStep
    <3> QED BY <3>1, <3>2
  <2>5. g = [s \in Small(S, k + 1) |-> SumStep(p, s, g)]
    BY <2>4 DEF g
  <2>6. SumsTo(p, S, k + 1, g)
    BY <2>5 DEF SumsTo
  <2> QED BY <2>6
<1>3. Good = Nat
  <2>1. Good \in SUBSET Nat
    OBVIOUS
  <2> HIDE DEF Good
  <2> QED BY <1>1, <1>2, <2>1, NatInduct
<1> QED BY <1>3

(* The function of MapThenSumSet exists for a finite set.                   *)
LEMMA SumsExists ==
  ASSUME NEW p, NEW S, IsFiniteSet(S)
  PROVE  Sums(p, S, SumFcn(p, S))
<1>1. Cardinality(S) \in Nat
  BY FS_CardinalityType
<1>2. PICK f : SumsTo(p, S, Cardinality(S), f)
  BY <1>1, SumsToExists
<1>3. Small(S, Cardinality(S)) = SUBSET S
  BY FS_Subset DEF Small
<1>4. Sums(p, S, f)
  BY <1>2, <1>3 DEF Sums, SumsTo
<1> QED BY <1>4 DEF SumFcn

(* It is the same for all sets that contain the one that is summed.         *)
LEMMA SumsAgree ==
  ASSUME NEW p, NEW S, IsFiniteSet(S), NEW T \in SUBSET S, NEW f, Sums(p, S, f),
         NEW g, Sums(p, T, g), NEW s \in SUBSET T
  PROVE  f[s] = g[s]
<1> DEFINE Good == {k \in Nat : \A u \in Small(T, k) : f[u] = g[u]}
<1>0. IsFiniteSet(T)
  BY FS_Subset
<1>1. \A u \in SUBSET T : f[u] = SumStep(p, u, f) /\ g[u] = SumStep(p, u, g)
  <2>1. \A u \in SUBSET S : f[u] = SumStep(p, u, f)
    BY DEF Sums
  <2>2. \A u \in SUBSET T : g[u] = SumStep(p, u, g)
    BY DEF Sums
  <2>3. SUBSET T \subseteq SUBSET S
    OBVIOUS
  <2> QED BY <2>1, <2>2, <2>3
<1>2. \A u \in SUBSET T : IsFiniteSet(u) /\ Cardinality(u) \in Nat
  BY <1>0, FS_Subset, FS_CardinalityType
<1>3. 0 \in Good
  <2> SUFFICES ASSUME NEW u \in Small(T, 0) PROVE f[u] = g[u]
    OBVIOUS
  <2>1. u \in SUBSET T /\ Cardinality(u) <= 0
    BY DEF Small
  <2>2. u = {}
    BY <2>1, <1>2, FS_EmptySet
  <2> QED BY <2>1, <2>2, <1>1 DEF SumStep
<1>4. ASSUME NEW k \in Good PROVE k + 1 \in Good
  <2> SUFFICES ASSUME NEW u \in Small(T, k + 1) PROVE f[u] = g[u]
    OBVIOUS
  <2>1. u \in SUBSET T
    BY DEF Small
  <2>2. CASE u = {}
    BY <2>1, <2>2, <1>1 DEF SumStep
  <2>3. CASE u # {}
    <3>1. u \ {CHOOSE x \in u : TRUE} \in Small(T, k)
      BY <2>3, <1>0, SmallerLeft
    <3>2. f[u \ {CHOOSE x \in u : TRUE}] = g[u \ {CHOOSE x \in u : TRUE}]
      BY <3>1, <1>4
    <3> QED BY <2>1, <2>3, <3>2, <1>1 DEF SumStep
  <2> QED BY <2>2, <2>3
<1>5. Good = Nat
  <2>1. Good \in SUBSET Nat
    OBVIOUS
  <2> HIDE DEF Good
  <2> QED BY <1>3, <1>4, <2>1, NatInduct
<1>6. s \in Small(T, Cardinality(s)) /\ Cardinality(s) \in Nat
  BY <1>2 DEF Small
<1> QED BY <1>5, <1>6

(* What MapThenSumSet does: it takes one element after the other.           *)
LEMMA PlanQtyStep ==
  ASSUME NEW p, NEW S, IsFiniteSet(S)
  PROVE  /\ S = {} => PlanQty(p, S) = 0
         /\ S # {} => PlanQty(p, S) = p[CHOOSE x \in S : TRUE].qty
                                        + PlanQty(p, S \ {CHOOSE x \in S : TRUE})
<1> DEFINE f == SumFcn(p, S)
<1>1. Sums(p, S, f)
  BY SumsExists
<1>2. PlanQty(p, S) = f[S]
  BY PlanQtyIs
<1> HIDE DEF f
<1>3. f[S] = SumStep(p, S, f)
  BY <1>1 DEF Sums
<1>4. CASE S = {}
  BY <1>2, <1>3, <1>4 DEF SumStep
<1>5. CASE S # {}
  <2> DEFINE T == S \ {CHOOSE x \in S : TRUE}  g == SumFcn(p, T)
  <2>1. T \in SUBSET S /\ IsFiniteSet(T)
    BY FS_Subset
  <2> HIDE DEF T
  <2>2. Sums(p, T, g)
    BY <2>1, SumsExists
  <2>3. PlanQty(p, T) = g[T]
    BY PlanQtyIs
  <2> HIDE DEF g
  <2>4. f[T] = g[T]
    <3>1. T \in SUBSET T
      OBVIOUS
    <3> QED BY <1>1, <2>1, <2>2, <3>1, SumsAgree
  <2>5. f[S] = p[CHOOSE x \in S : TRUE].qty + f[T]
    BY <1>3, <1>5 DEF SumStep, T
  <2> QED BY <1>2, <1>5, <2>3, <2>4, <2>5 DEF T
<1> QED BY <1>4, <1>5

(* The sum of nothing.                                                      *)
LEMMA PlanQtyEmpty ==
  ASSUME NEW p
  PROVE  PlanQty(p, {}) = 0
  BY FS_EmptySet, PlanQtyStep

\* Sets of records whose quantities are natural numbers.
Counted(p, S) == \A i \in S : p[i].qty \in Nat

(* A sum of natural numbers is one.                                         *)
LEMMA PlanQtyNat ==
  ASSUME NEW p, NEW S, IsFiniteSet(S), Counted(p, S)
  PROVE  PlanQty(p, S) \in Nat
<1> DEFINE Good == {k \in Nat : \A u \in Small(S, k) : PlanQty(p, u) \in Nat}
<1>1. \A u \in SUBSET S : IsFiniteSet(u) /\ Cardinality(u) \in Nat
  BY FS_Subset, FS_CardinalityType
<1>2. 0 \in Good
  <2> SUFFICES ASSUME NEW u \in Small(S, 0) PROVE PlanQty(p, u) \in Nat
    OBVIOUS
  <2>1. u \in SUBSET S /\ Cardinality(u) <= 0
    BY DEF Small
  <2>2. u = {}
    BY <2>1, <1>1, FS_EmptySet
  <2> QED BY <2>2, PlanQtyEmpty
<1>3. ASSUME NEW k \in Good PROVE k + 1 \in Good
  <2> SUFFICES ASSUME NEW u \in Small(S, k + 1) PROVE PlanQty(p, u) \in Nat
    OBVIOUS
  <2>1. u \in SUBSET S /\ IsFiniteSet(u)
    BY <1>1 DEF Small
  <2>2. CASE u = {}
    BY <2>2, PlanQtyEmpty
  <2>3. CASE u # {}
    <3> DEFINE c == CHOOSE x \in u : TRUE
    <3>1. c \in u /\ u \ {c} \in Small(S, k)
      BY <2>3, SmallerLeft
    <3>2. PlanQty(p, u \ {c}) \in Nat
      BY <3>1, <1>3
    <3>3. p[c].qty \in Nat
      BY <3>1, <2>1 DEF Counted
    <3>4. PlanQty(p, u) = p[c].qty + PlanQty(p, u \ {c})
      BY <2>1, <2>3, PlanQtyStep
    <3> HIDE DEF c
    <3> QED BY <3>2, <3>3, <3>4
  <2> QED BY <2>2, <2>3
<1>4. Good = Nat
  <2>1. Good \in SUBSET Nat
    OBVIOUS
  <2> HIDE DEF Good
  <2> QED BY <1>2, <1>3, <2>1, NatInduct
<1>5. S \in Small(S, Cardinality(S)) /\ Cardinality(S) \in Nat
  BY <1>1 DEF Small
<1> QED BY <1>4, <1>5

(* Any element may be taken out first.                                      *)
LEMMA PlanQtyTake ==
  ASSUME NEW p, NEW S, IsFiniteSet(S), Counted(p, S), NEW x \in S
  PROVE  PlanQty(p, S) = p[x].qty + PlanQty(p, S \ {x})
<1> DEFINE Good == {k \in Nat : \A u \in Small(S, k) : \A y \in u :
                      PlanQty(p, u) = p[y].qty + PlanQty(p, u \ {y})}
<1>1. \A u \in SUBSET S : IsFiniteSet(u) /\ Cardinality(u) \in Nat /\ Counted(p, u)
  BY FS_Subset, FS_CardinalityType DEF Counted
<1>2. 0 \in Good
  <2> SUFFICES ASSUME NEW u \in Small(S, 0) PROVE u = {}
    OBVIOUS
  <2>1. u \in SUBSET S /\ Cardinality(u) <= 0
    BY DEF Small
  <2> QED BY <2>1, <1>1, FS_EmptySet
<1>3. ASSUME NEW k \in Good PROVE k + 1 \in Good
  <2> SUFFICES ASSUME NEW u \in Small(S, k + 1), NEW y \in u
               PROVE  PlanQty(p, u) = p[y].qty + PlanQty(p, u \ {y})
    OBVIOUS
  <2>1. u \in SUBSET S /\ IsFiniteSet(u) /\ u # {} /\ Cardinality(u) <= k + 1
    BY <1>1 DEF Small
  <2> DEFINE c == CHOOSE z \in u : TRUE
  <2>2. c \in u /\ u \ {c} \in Small(S, k)
    BY <2>1, SmallerLeft
  <2>3. PlanQty(p, u) = p[c].qty + PlanQty(p, u \ {c})
    BY <2>1, PlanQtyStep
  <2> HIDE DEF c
  <2>4. CASE y = c
    BY <2>3, <2>4
  <2>5. CASE y # c
    <3>1. u \ {y} \in Small(S, k)
      <4>1. Cardinality(u \ {y}) = Cardinality(u) - 1
        BY <2>1, FS_RemoveElement
      <4>2. Cardinality(u) \in Nat
        BY <2>1, <1>1
      <4>3. Cardinality(u \ {y}) <= k
        BY <4>1, <4>2, <2>1
      <4> QED BY <4>3, <2>1 DEF Small
    <3>2. PlanQty(p, u \ {c}) = p[y].qty + PlanQty(p, (u \ {c}) \ {y})
      <4>1. y \in u \ {c}
        BY <2>5
      <4> QED BY <4>1, <2>2, <1>3
    <3>3. PlanQty(p, u \ {y}) = p[c].qty + PlanQty(p, (u \ {y}) \ {c})
      <4>1. c \in u \ {y}
        BY <2>2, <2>5
      <4> QED BY <4>1, <3>1, <1>3
    <3>4. (u \ {y}) \ {c} = (u \ {c}) \ {y}
      OBVIOUS
    <3> DEFINE w == PlanQty(p, (u \ {c}) \ {y})
    <3>5. w \in Nat
      <4>1. (u \ {c}) \ {y} \in SUBSET S
        BY <2>1
      <4> QED BY <4>1, <1>1, PlanQtyNat
    <3>6. p[c].qty \in Nat /\ p[y].qty \in Nat
      BY <2>1, <2>2 DEF Counted
    <3> HIDE DEF w
    <3>7. PlanQty(p, u) = p[c].qty + (p[y].qty + w)
      BY <2>3, <3>2 DEF w
    <3>8. PlanQty(p, u \ {y}) = p[c].qty + w
      BY <3>3, <3>4 DEF w
    <3>9. p[c].qty + (p[y].qty + w) = p[y].qty + (p[c].qty + w)
      BY <3>5, <3>6
    <3> QED BY <3>7, <3>8, <3>9
  <2> QED BY <2>4, <2>5
<1>4. Good = Nat
  <2>1. Good \in SUBSET Nat
    OBVIOUS
  <2> HIDE DEF Good
  <2> QED BY <1>2, <1>3, <2>1, NatInduct
<1>5. S \in Small(S, Cardinality(S)) /\ Cardinality(S) \in Nat
  BY <1>1 DEF Small
<1> QED BY <1>4, <1>5

(* A sum depends only on the records it sums.                               *)
LEMMA PlanQtySame ==
  ASSUME NEW p, NEW r, NEW S, IsFiniteSet(S), Counted(p, S),
         \A i \in S : p[i].qty = r[i].qty
  PROVE  PlanQty(p, S) = PlanQty(r, S)
<1> DEFINE Good == {k \in Nat : \A u \in Small(S, k) : PlanQty(p, u) = PlanQty(r, u)}
<1>1. \A u \in SUBSET S : IsFiniteSet(u) /\ Cardinality(u) \in Nat
  BY FS_Subset, FS_CardinalityType
<1>2. 0 \in Good
  <2> SUFFICES ASSUME NEW u \in Small(S, 0) PROVE PlanQty(p, u) = PlanQty(r, u)
    OBVIOUS
  <2>1. u \in SUBSET S /\ Cardinality(u) <= 0
    BY DEF Small
  <2>2. u = {}
    BY <2>1, <1>1, FS_EmptySet
  <2> QED BY <2>2, PlanQtyEmpty
<1>3. ASSUME NEW k \in Good PROVE k + 1 \in Good
  <2> SUFFICES ASSUME NEW u \in Small(S, k + 1) PROVE PlanQty(p, u) = PlanQty(r, u)
    OBVIOUS
  <2>1. u \in SUBSET S /\ IsFiniteSet(u)
    BY <1>1 DEF Small
  <2>2. CASE u = {}
    BY <2>2, PlanQtyEmpty
  <2>3. CASE u # {}
    <3> DEFINE c == CHOOSE x \in u : TRUE
    <3>1. c \in u /\ u \ {c} \in Small(S, k)
      BY <2>3, SmallerLeft
    <3>2. PlanQty(p, u \ {c}) = PlanQty(r, u \ {c})
      BY <3>1, <1>3
    <3>3. p[c].qty = r[c].qty
      BY <3>1, <2>1
    <3>4. /\ PlanQty(p, u) = p[c].qty + PlanQty(p, u \ {c})
          /\ PlanQty(r, u) = r[c].qty + PlanQty(r, u \ {c})
      BY <2>1, <2>3, PlanQtyStep
    <3> HIDE DEF c
    <3> QED BY <3>2, <3>3, <3>4
  <2> QED BY <2>2, <2>3
<1>4. Good = Nat
  <2>1. Good \in SUBSET Nat
    OBVIOUS
  <2> HIDE DEF Good
  <2> QED BY <1>2, <1>3, <2>1, NatInduct
<1>5. S \in Small(S, Cardinality(S)) /\ Cardinality(S) \in Nat
  BY <1>1 DEF Small
<1> QED BY <1>4, <1>5

-----------------------------------------------------------------------------
(* Part: what the first records of a plan take.                             *)

\* What record i takes.
Share(p, ids, i) == IF ids \subseteq p[i].makers THEN p[i].qty ELSE 0

(* The records Part sums are finitely many, with numbers to sum.            *)
LEMMA PartSet ==
  ASSUME NEW p, NEW n \in Nat, Counted(p, 1 .. n), NEW ids, NEW i \in 0 .. n
  PROVE  /\ IsFiniteSet({j \in 1 .. i : ids \subseteq p[j].makers})
         /\ Counted(p, {j \in 1 .. i : ids \subseteq p[j].makers})
         /\ Part(p, ids, i) \in Nat
<1> DEFINE S == {j \in 1 .. i : ids \subseteq p[j].makers}
<1>1. IsFiniteSet(1 .. i) /\ S \in SUBSET (1 .. i)
  BY FS_Interval
<1>2. IsFiniteSet(S)
  BY <1>1, FS_Subset
<1>3. 1 .. i \subseteq 1 .. n
  OBVIOUS
<1>4. Counted(p, S)
  BY <1>1, <1>3 DEF Counted
<1>5. PlanQty(p, S) \in Nat
  BY <1>2, <1>4, PlanQtyNat
<1> QED BY <1>2, <1>4, <1>5 DEF Part

(* No records take nothing.                                                 *)
LEMMA PartZero ==
  ASSUME NEW p, NEW ids
  PROVE  Part(p, ids, 0) = 0
<1>1. {j \in 1 .. 0 : ids \subseteq p[j].makers} = {}
  OBVIOUS
<1> QED BY <1>1, PlanQtyEmpty DEF Part

(* One record more.                                                         *)
LEMMA PartStep ==
  ASSUME NEW p, NEW n \in Nat, Counted(p, 1 .. n), NEW ids, NEW i \in 0 .. n - 1
  PROVE  /\ Part(p, ids, i + 1) = Part(p, ids, i) + Share(p, ids, i + 1)
         /\ Share(p, ids, i + 1) \in Nat
<1> DEFINE S(k) == {j \in 1 .. k : ids \subseteq p[j].makers}
<1>1. i \in 0 .. n /\ i + 1 \in 0 .. n /\ i + 1 \in 1 .. n
  OBVIOUS
<1>2. /\ IsFiniteSet(S(i + 1)) /\ Counted(p, S(i + 1)) /\ Part(p, ids, i) \in Nat
  BY <1>1, PartSet
<1>3. p[i + 1].qty \in Nat
  BY <1>1 DEF Counted
<1>4. CASE ids \subseteq p[i + 1].makers
  <2>1. i + 1 \in S(i + 1) /\ S(i + 1) \ {i + 1} = S(i)
    BY <1>4
  <2>2. PlanQty(p, S(i + 1)) = p[i + 1].qty + PlanQty(p, S(i))
    BY <1>2, <2>1, PlanQtyTake
  <2>3. Part(p, ids, i + 1) = p[i + 1].qty + Part(p, ids, i)
    BY <2>2 DEF Part
  <2> QED BY <2>3, <1>2, <1>3, <1>4 DEF Share
<1>5. CASE ~(ids \subseteq p[i + 1].makers)
  <2>1. S(i + 1) = S(i)
    BY <1>5
  <2>2. Part(p, ids, i + 1) = Part(p, ids, i)
    BY <2>1 DEF Part
  <2> QED BY <2>2, <1>2, <1>5 DEF Share
<1> QED BY <1>4, <1>5

(* Later records take no less.                                              *)
LEMMA PartGrows ==
  ASSUME NEW p, NEW n \in Nat, Counted(p, 1 .. n), NEW ids, NEW i \in 0 .. n, NEW k \in i .. n
  PROVE  Part(p, ids, i) <= Part(p, ids, k)
<1> DEFINE Good == {d \in Nat : i + d <= n => Part(p, ids, i) <= Part(p, ids, i + d)}
<1>0. \A j \in 0 .. n : Part(p, ids, j) \in Nat
  BY PartSet
<1>1. 0 \in Good
  BY <1>0
<1>2. ASSUME NEW d \in Good PROVE d + 1 \in Good
  <2> SUFFICES ASSUME i + (d + 1) <= n PROVE Part(p, ids, i) <= Part(p, ids, i + (d + 1))
    OBVIOUS
  <2>1. i + d \in 0 .. n - 1 /\ i + d <= n /\ (i + d) + 1 = i + (d + 1)
    BY <1>2
  <2>2. /\ Part(p, ids, (i + d) + 1) = Part(p, ids, i + d) + Share(p, ids, (i + d) + 1)
        /\ Share(p, ids, (i + d) + 1) \in Nat
    BY <2>1, PartStep
  <2>3. Part(p, ids, i) <= Part(p, ids, i + d)
    BY <1>2, <2>1
  <2>4. Part(p, ids, i) \in Nat /\ Part(p, ids, i + d) \in Nat
    BY <1>0, <2>1
  <2>5. Part(p, ids, i) <= Part(p, ids, (i + d) + 1)
    BY <2>2, <2>3, <2>4
  <2> QED BY <2>1, <2>5
<1>3. Good = Nat
  <2>1. Good \in SUBSET Nat
    OBVIOUS
  <2> HIDE DEF Good
  <2> QED BY <1>1, <1>2, <2>1, NatInduct
<1>4. k - i \in Nat /\ i + (k - i) = k /\ k <= n
  OBVIOUS
<1>5. Part(p, ids, i) <= Part(p, ids, i + (k - i))
  BY <1>3, <1>4
<1> QED BY <1>4, <1>5

(* The same records take the same.                                          *)
LEMMA PartSame ==
  ASSUME NEW p, NEW n \in Nat, Counted(p, 1 .. n), NEW ids, NEW i \in 0 .. n,
         NEW r, \A j \in 1 .. i : r[j] = p[j]
  PROVE  Part(r, ids, i) = Part(p, ids, i)
<1> DEFINE S == {j \in 1 .. i : ids \subseteq p[j].makers}
<1>1. {j \in 1 .. i : ids \subseteq r[j].makers} = S
  OBVIOUS
<1>2. IsFiniteSet(S) /\ Counted(p, S)
  BY PartSet
<1>3. \A j \in S : p[j].qty = r[j].qty
  OBVIOUS
<1> HIDE DEF S
<1>4. PlanQty(p, S) = PlanQty(r, S)
  BY <1>2, <1>3, PlanQtySame
<1> QED BY <1>1, <1>4 DEF Part, S

(* Without the first record.                                                *)
LEMMA PartShift ==
  ASSUME NEW p, NEW n \in Nat, Counted(p, 1 .. n), NEW ids,
         NEW r, \A j \in 1 .. n - 1 : r[j] = p[j + 1], NEW i \in 0 .. n - 1
  PROVE  Part(p, ids, i + 1) = Share(p, ids, 1) + Part(r, ids, i)
<1> DEFINE Good == {k \in Nat : k <= n - 1 =>
                      Part(p, ids, k + 1) = Share(p, ids, 1) + Part(r, ids, k)}
<1>0. Counted(r, 1 .. n - 1)
  <2>1. \A j \in 1 .. n - 1 : j + 1 \in 1 .. n
    OBVIOUS
  <2> QED BY <2>1 DEF Counted
<1>a. n \in Nat \ {0} /\ n - 1 \in Nat /\ 0 \in 0 .. n - 1
  OBVIOUS
<1>b. Share(p, ids, 1) \in Nat
  <2>1. Share(p, ids, 0 + 1) \in Nat
    BY <1>a, PartStep
  <2> QED BY <2>1
<1>1. 0 \in Good
  <2>1. Part(p, ids, 0 + 1) = Part(p, ids, 0) + Share(p, ids, 0 + 1)
    BY <1>a, PartStep
  <2>2. 0 + 1 = 1 /\ Part(p, ids, 0) = 0 /\ Part(r, ids, 0) = 0
    BY PartZero
  <2> QED BY <2>1, <2>2, <1>b
<1>2. ASSUME NEW k \in Good PROVE k + 1 \in Good
  <2> SUFFICES ASSUME k + 1 <= n - 1
               PROVE  Part(p, ids, (k + 1) + 1) = Share(p, ids, 1) + Part(r, ids, k + 1)
    OBVIOUS
  <2>1. k + 1 \in 0 .. n - 1 /\ k \in 0 .. (n - 1) - 1 /\ k + 1 \in 1 .. n - 1 /\ k <= n - 1
    BY <1>2
  <2>2. /\ Part(p, ids, (k + 1) + 1) = Part(p, ids, k + 1) + Share(p, ids, (k + 1) + 1)
        /\ Share(p, ids, (k + 1) + 1) \in Nat
    BY <2>1, PartStep
  <2>3. Part(r, ids, k + 1) = Part(r, ids, k) + Share(r, ids, k + 1)
    BY <2>1, <1>a, <1>0, PartStep
  <2>4. Share(r, ids, k + 1) = Share(p, ids, (k + 1) + 1)
    BY <2>1 DEF Share
  <2>5. Part(p, ids, k + 1) = Share(p, ids, 1) + Part(r, ids, k)
    BY <1>2, <2>1
  <2>6. Part(r, ids, k) \in Nat
    <3>1. k \in 0 .. n - 1
      BY <2>1, <1>2
    <3> QED BY <3>1, <1>a, <1>0, PartSet
  <2> QED BY <2>2, <2>3, <2>4, <2>5, <2>6, <1>b
<1>3. Good = Nat
  <2>1. Good \in SUBSET Nat
    OBVIOUS
  <2> HIDE DEF Good
  <2> QED BY <1>1, <1>2, <2>1, NatInduct
<1>4. i \in Nat /\ i <= n - 1
  OBVIOUS
<1> QED BY <1>3, <1>4

-----------------------------------------------------------------------------
(* The prices of implied trades.                                            *)

(* The quotient of C++ is less than one away from the fraction.             *)
LEMMA QuotClose ==
  ASSUME NEW a \in Int, NEW b \in Nat \ {0}
  PROVE  /\ Quot(a, b) \in Int
         /\ Quot(a, b) * b > a - b /\ Quot(a, b) * b < a + b
<1>1. CASE a >= 0
  <2>1. a \in Nat
    BY <1>1
  <2>2. a \div b \in Nat /\ a = b * (a \div b) + (a % b) /\ (a % b) \in 0 .. b - 1
    BY <2>1, NatDivision, NatRemainder
  <2>3. (a \div b) * b = b * (a \div b)
    BY <2>2
  <2>4. Quot(a, b) = a \div b
    BY <1>1 DEF Quot
  <2>5. PICK m \in Int : m = b * (a \div b)
    BY <2>2
  <2> QED BY <2>2, <2>3, <2>4, <2>5
<1>2. CASE ~(a >= 0)
  <2>1. -a \in Nat
    BY <1>2
  <2>2. PICK d \in Nat : d = (-a) \div b /\ -a = b * d + ((-a) % b) /\ ((-a) % b) \in 0 .. b - 1
    BY <2>1, NatDivision, NatRemainder
  <2>3. Quot(a, b) = -d
    BY <1>2, <2>2 DEF Quot
  <2>4. PICK m \in Int : m = b * d
    BY <2>2
  <2>5. (-d) * b = -m
    BY <2>2, <2>4
  <2> QED BY <2>2, <2>3, <2>4, <2>5
<1> QED BY <1>1, <1>2

(* A commission is not negative.                                            *)
LEMMA PipsNat ==
  ASSUME NEW p \in Int, NEW pips \in Nat
  PROVE  handle_pips(p, pips) \in Nat
<1>1. Abs(p) \in Nat
  BY DEF Abs
<1>2. Abs(p) * pips \in Nat
  BY <1>1
<1>3. PICK n \in Nat : n = Abs(p) * pips
  BY <1>2
<1>4. n \div 10000 \in Nat
  BY <1>3, NatDivision
<1> QED BY <1>3, <1>4 DEF handle_pips, Quot

(* A greater price stays greater when both are scaled.                      *)
LEMMA ScaleUp ==
  ASSUME NEW a \in Int, NEW b \in Int, NEW c \in Nat, a <= b
  PROVE  a * c <= b * c
  BY SMT

(* A spot price made of a perpetual and a repo covers both, but for the     *)
(* fraction that is dropped.                                                *)
LEMMA RepoCoversLegs ==
  ASSUME NEW p1 \in Int, NEW p2 \in Int, NEW pips \in Nat, NEW t \in Nat \ {0},
         NEW f \in Nat \ {0}
  PROVE  /\ repo_out_ask(p1, p2, pips, t, f) \in Int
         /\ repo_out_ask(p1, p2, pips, t, f) * f > p1 * (f + p2) - f
         /\ repo_out_bid(p1, p2, pips, t, f) \in Int
         /\ repo_out_bid(p1, p2, pips, t, f) * f < p1 * (f + p2) + f
<1>1. PICK x \in Int : x = p1 * (f + p2)
  OBVIOUS
<1>2. PICK h \in Nat : h = handle_pips(p1, pips)
  BY PipsNat
<1>3. PICK ask \in Int : ask = repo_out_ask(p1, p2, pips, t, f) /\ ask >= Quot(x, f)
  <2>1. PICK a \in Int : a = Quot(x, f)
    BY QuotClose
  <2>2. PICK b \in Int : b = round_up(a, 1) /\ a <= b
    <3>1. 1 \in Nat \ {0}
      OBVIOUS
    <3>2. round_up(a, 1) \in Int /\ a <= round_up(a, 1)
      BY ONLY <2>1, <3>1, RoundUpClose
    <3> QED BY <3>2
  <2>3. round_up(b + h, t) \in Int /\ b + h <= round_up(b + h, t)
    <3>1. b + h \in Int
      BY <2>2
    <3> QED BY <3>1, RoundUpClose
  <2>4. repo_out_ask(p1, p2, pips, t, f) = round_up(b + h, t)
    BY <1>1, <1>2, <2>1, <2>2 DEF repo_out_ask
  <2> QED BY <2>1, <2>2, <2>3, <2>4
<1>4. ask * f > x - f
  <2>1. Quot(x, f) \in Int /\ Quot(x, f) * f > x - f
    BY QuotClose
  <2>2. Quot(x, f) * f <= ask * f
    BY <1>3, <2>1, ScaleUp
  <2>3. Quot(x, f) * f \in Int /\ ask * f \in Int
    BY <1>3, <2>1
  <2> QED BY <2>1, <2>2, <2>3
<1>5. PICK y \in Int : y = f * h /\ y >= 0
  <2>1. f * h \in Nat
    BY <1>2
  <2> QED BY <2>1
<1>6. PICK bid \in Int : bid = repo_out_bid(p1, p2, pips, t, f) /\ bid <= Quot(x - y, f)
  <2>1. PICK a \in Int : a = Quot(x - y, f)
    BY <1>5, QuotClose
  <2>2. repo_out_bid(p1, p2, pips, t, f) = round_down(a, t)
    BY <1>1, <1>2, <1>5, <2>1 DEF repo_out_bid
  <2> QED BY <2>1, <2>2, RoundDownClose
<1>7. bid * f < x + f
  <2>1. Quot(x - y, f) \in Int /\ Quot(x - y, f) * f < (x - y) + f
    BY <1>5, QuotClose
  <2>2. bid * f <= Quot(x - y, f) * f
    BY <1>6, <2>1, ScaleUp
  <2>3. Quot(x - y, f) * f \in Int /\ bid * f \in Int
    BY <1>6, <2>1
  <2> QED BY <2>1, <2>2, <2>3, <1>5
<1> QED BY <1>1, <1>3, <1>4, <1>6, <1>7

(* An implied price covers its legs, whatever the rule.                     *)
LEMMA LegsCovered ==
  ASSUME NEW e \in Engines, Rule[e] # "none", NEW side \in Sides, NEW p1 \in Int, NEW p2 \in Int
  PROVE  /\ matchd_price(e, side, p1, p2) \in Int
         /\ LegsPrice(e, p1, p2) \in Int
         /\ IF side = "BUY"
            THEN matchd_price(e, side, p1, p2) * Scale(e) > LegsPrice(e, p1, p2) - Scale(e)
            ELSE matchd_price(e, side, p1, p2) * Scale(e) < LegsPrice(e, p1, p2) + Scale(e)
<1>0. /\ Rule[e] \in {"in", "a_out", "b_out", "repo_out", "none"}
      /\ Tick[e] \in Nat \ {0} /\ Pips[e] \in Nat /\ Factor \in Nat \ {0}
  BY GroupAssumption
<1>1. CASE Rule[e] \in {"in", "b_out"}
  <2>1. LegsPrice(e, p1, p2) = p1 - p2 /\ Scale(e) = 1
    BY <1>1 DEF LegsPrice, Scale
  <2>2. /\ minus_ask(p1, p2, Pips[e], Tick[e]) \in Int
        /\ minus_bid(p1, p2, Pips[e], Tick[e]) \in Int
    <3>1. Commission(p1, p2, Pips[e]) \in Nat
      BY <1>0, CommissionNat
    <3>2. PICK c \in Nat : c = Commission(p1, p2, Pips[e])
      BY <3>1
    <3>3. /\ round_up(p1 - p2 + c, Tick[e]) \in Int
          /\ round_down(p1 - p2 - c, Tick[e]) \in Int
      <4>1. p1 - p2 + c \in Int /\ p1 - p2 - c \in Int
        BY <3>2
      <4> QED BY <4>1, <1>0, RoundUpClose, RoundDownClose
    <3> QED BY <3>2, <3>3 DEF minus_ask, minus_bid
  <2>3. /\ minus_ask(p1, p2, Pips[e], Tick[e]) >= p1 - p2
        /\ minus_bid(p1, p2, Pips[e], Tick[e]) <= p1 - p2
    BY <1>0, SpreadCoversLegs
  <2>4. matchd_price(e, side, p1, p2) =
          IF side = "BUY" THEN minus_ask(p1, p2, Pips[e], Tick[e])
                          ELSE minus_bid(p1, p2, Pips[e], Tick[e])
    BY <1>1 DEF matchd_price
  <2> QED BY <2>1, <2>2, <2>3, <2>4 DEF Sides
<1>2. CASE Rule[e] = "a_out"
  <2>1. LegsPrice(e, p1, p2) = p1 + p2 /\ Scale(e) = 1
    BY <1>2 DEF LegsPrice, Scale
  <2>2. /\ add_ask(p1, p2, Pips[e], Tick[e]) \in Int
        /\ add_bid(p1, p2, Pips[e], Tick[e]) \in Int
    <3>1. Commission(p1, p2, Pips[e]) \in Nat
      BY <1>0, CommissionNat
    <3>2. PICK c \in Nat : c = Commission(p1, p2, Pips[e])
      BY <3>1
    <3>3. /\ round_up(p1 + p2 + c, Tick[e]) \in Int
          /\ round_down(p1 + p2 - c, Tick[e]) \in Int
      <4>1. p1 + p2 + c \in Int /\ p1 + p2 - c \in Int
        BY <3>2
      <4> QED BY <4>1, <1>0, RoundUpClose, RoundDownClose
    <3> QED BY <3>2, <3>3 DEF add_ask, add_bid
  <2>3. /\ add_ask(p1, p2, Pips[e], Tick[e]) >= p1 + p2
        /\ add_bid(p1, p2, Pips[e], Tick[e]) <= p1 + p2
    BY <1>0, SpreadCoversLegs
  <2>4. matchd_price(e, side, p1, p2) =
          IF side = "BUY" THEN add_ask(p1, p2, Pips[e], Tick[e])
                          ELSE add_bid(p1, p2, Pips[e], Tick[e])
    BY <1>2 DEF matchd_price
  <2> QED BY <2>1, <2>2, <2>3, <2>4 DEF Sides
<1>3. CASE Rule[e] = "repo_out"
  <2>1. LegsPrice(e, p1, p2) = p1 * (Factor + p2) /\ Scale(e) = Factor
    BY <1>3 DEF LegsPrice, Scale
  <2>2. matchd_price(e, side, p1, p2) =
          IF side = "BUY" THEN repo_out_ask(p1, p2, Pips[e], Tick[e], Factor)
                          ELSE repo_out_bid(p1, p2, Pips[e], Tick[e], Factor)
    BY <1>3 DEF matchd_price
  <2>3. p1 * (Factor + p2) \in Int
    BY <1>0
  <2>4. /\ repo_out_ask(p1, p2, Pips[e], Tick[e], Factor) \in Int
        /\ repo_out_ask(p1, p2, Pips[e], Tick[e], Factor) * Factor
             > p1 * (Factor + p2) - Factor
        /\ repo_out_bid(p1, p2, Pips[e], Tick[e], Factor) \in Int
        /\ repo_out_bid(p1, p2, Pips[e], Tick[e], Factor) * Factor
             < p1 * (Factor + p2) + Factor
    BY <1>0, RepoCoversLegs
  <2>5. CASE side = "BUY"
    BY ONLY <2>1, <2>2, <2>3, <2>4, <2>5
  <2>6. CASE side # "BUY"
    BY ONLY <2>1, <2>2, <2>3, <2>4, <2>6
  <2> QED BY <2>5, <2>6
<1> QED BY <1>0, <1>1, <1>2, <1>3

-----------------------------------------------------------------------------
(* The order, or the legs, a taker meets first.                             *)

\* What a taker of the side meets before the other: a better price, or age.
Before(side, o, r) ==
  \/ Better(side, o.price, r.price)
  \/ o.price = r.price /\ o.id < r.id

(* Among finitely many orders there is a first one.                         *)
LEMMA FirstExists ==
  ASSUME NEW D, IsFiniteSet(D), D # {}, D \subseteq Orders,
         \A o, r \in D : o.id = r.id => o = r, NEW side
  PROVE  \E o \in D : \A r \in D \ {o} : Before(side, o, r)
<1> DEFINE Good == {k \in Nat : \A u \in Small(D, k) : u # {} =>
                      \E o \in u : \A r \in u \ {o} : Before(side, o, r)}
<1>1. \A u \in SUBSET D : IsFiniteSet(u) /\ Cardinality(u) \in Nat
  BY FS_Subset, FS_CardinalityType
<1>2. 0 \in Good
  <2> SUFFICES ASSUME NEW u \in Small(D, 0) PROVE u = {}
    OBVIOUS
  <2>1. u \in SUBSET D /\ Cardinality(u) <= 0
    BY DEF Small
  <2> QED BY <2>1, <1>1, FS_EmptySet
<1>3. ASSUME NEW k \in Good PROVE k + 1 \in Good
  <2> SUFFICES ASSUME NEW u \in Small(D, k + 1), u # {}
               PROVE  \E o \in u : \A r \in u \ {o} : Before(side, o, r)
    OBVIOUS
  <2>1. u \in SUBSET D
    BY DEF Small
  <2>2. PICK c \in u : u \ {c} \in Small(D, k)
    BY SmallerLeft
  <2>3. CASE u \ {c} = {}
    BY <2>3
  <2>4. CASE u \ {c} # {}
    <3>1. PICK o \in u \ {c} : \A r \in (u \ {c}) \ {o} : Before(side, o, r)
      BY <2>2, <2>4, <1>3
    <3>2. o \in Orders /\ c \in Orders /\ o.id # c.id
      BY <2>1, <3>1
    <3>3. o.price \in Int /\ c.price \in Int /\ o.id \in Nat /\ c.id \in Nat
      BY <3>2 DEF Orders
    <3>4. Before(side, o, c) \/ Before(side, c, o)
      BY <3>2, <3>3 DEF Before, Better
    <3>5. CASE Before(side, o, c)
      BY <3>1, <3>5
    <3>6. CASE Before(side, c, o)
      <4>1. ASSUME NEW r \in u \ {c} PROVE Before(side, c, r)
        <5>1. CASE r = o
          BY <5>1, <3>6
        <5>2. CASE r # o
          <6>1. Before(side, o, r)
            BY <5>2, <3>1
          <6>2. r.price \in Int /\ r.id \in Nat
            BY <2>1 DEF Orders
          <6> QED BY <6>1, <6>2, <3>3, <3>6 DEF Before, Better
        <5> QED BY <5>1, <5>2
      <4> QED BY <4>1
    <3> QED BY <3>4, <3>5, <3>6
  <2> QED BY <2>3, <2>4
<1>4. Good = Nat
  <2>1. Good \in SUBSET Nat
    OBVIOUS
  <2> HIDE DEF Good
  <2> QED BY <1>2, <1>3, <2>1, NatInduct
<1>5. D \in Small(D, Cardinality(D)) /\ Cardinality(D) \in Nat
  BY <1>1 DEF Small
<1> QED BY <1>4, <1>5

(* A plan has numbers to sum.                                               *)
LEMMA PlanCounted ==
  ASSUME NEW p \in Seq(Trades)
  PROVE  Len(p) \in Nat /\ DOMAIN p = 1 .. Len(p) /\ Counted(p, 1 .. Len(p))
<1>1. Len(p) \in Nat /\ DOMAIN p = 1 .. Len(p) /\ \A i \in 1 .. Len(p) : p[i] \in Trades
  BY LenProperties, ElementOfSeq
<1> QED BY <1>1 DEF Counted, Trades

(* What is open of an order is what the plan leaves of it.                  *)
LEMMA OpenIs ==
  ASSUME GroupTypeOK, NEW o \in book
  PROVE  /\ Open(o) = o.qty - Part(plan, {o.id}, Len(plan))
         /\ Open(o) \in Int /\ Open(o) <= o.qty
<1>1. plan \in Seq(Trades) /\ o \in Orders
  BY DEF GroupTypeOK
<1>2. Len(plan) \in Nat /\ DOMAIN plan = 1 .. Len(plan) /\ Counted(plan, 1 .. Len(plan))
  BY <1>1, PlanCounted
<1>3. {i \in DOMAIN plan : o.id \in plan[i].makers}
        = {j \in 1 .. Len(plan) : {o.id} \subseteq plan[j].makers}
  BY <1>2
<1>4. Open(o) = o.qty - Part(plan, {o.id}, Len(plan))
  BY <1>3 DEF Open, Part
<1>5. Part(plan, {o.id}, Len(plan)) \in Nat
  <2>1. Len(plan) \in 0 .. Len(plan)
    BY <1>2
  <2> QED BY <2>1, <1>2, PartSet
<1>6. o.qty \in Nat
  BY <1>1 DEF Orders
<1> QED BY <1>4, <1>5, <1>6

(* What has been planned is the sum over the plan.                          *)
LEMMA PlannedIs ==
  ASSUME GroupTypeOK
  PROVE  Planned = Part(plan, {}, Len(plan)) /\ Planned \in Nat
<1>1. Len(plan) \in Nat /\ DOMAIN plan = 1 .. Len(plan) /\ Counted(plan, 1 .. Len(plan))
  BY PlanCounted DEF GroupTypeOK
<1>2. DOMAIN plan = {j \in 1 .. Len(plan) : {} \subseteq plan[j].makers}
  BY <1>1
<1>3. Planned = Part(plan, {}, Len(plan))
  BY <1>2 DEF Planned, Part
<1>4. Len(plan) \in 0 .. Len(plan)
  BY <1>1
<1> QED BY <1>1, <1>3, <1>4, PartSet

(* Front: an open order at the best price, if there is an open order.       *)
LEMMA FrontIs ==
  ASSUME GroupTypeOK, IdInv, NEW e, NEW side
  PROVE  /\ \A o \in Front(e, side) :
              /\ o \in book /\ o.eng = e /\ o.side = Opposite(side) /\ Open(o) > 0
              /\ \A r \in RestingOn(e, Opposite(side)) :
                   Open(r) > 0 => ~Better(side, r.price, o.price)
         /\ (\E r \in RestingOn(e, Opposite(side)) : Open(r) > 0) => Front(e, side) # {}
<1> DEFINE D == {o \in RestingOn(e, Opposite(side)) : Open(o) > 0}
<1>1. Front(e, side) = {o \in D : \A r \in D \ {o} : Before(side, o, r)}
  BY DEF Front, Before
<1>2. D \subseteq book /\ IsFiniteSet(D) /\ D \subseteq Orders
  <2>1. D \in SUBSET book
    BY DEF RestingOn
  <2> HIDE DEF D
  <2> QED BY <2>1, FS_Subset DEF GroupTypeOK
<1>3. \A o, r \in D : o.id = r.id => o = r
  BY <1>2 DEF IdInv
<1>4. ASSUME NEW o \in Front(e, side)
      PROVE  /\ o \in book /\ o.eng = e /\ o.side = Opposite(side) /\ Open(o) > 0
             /\ \A r \in RestingOn(e, Opposite(side)) :
                  Open(r) > 0 => ~Better(side, r.price, o.price)
  <2>1. o \in D /\ \A r \in D \ {o} : Before(side, o, r)
    BY <1>1
  <2>2. o \in book /\ o.eng = e /\ o.side = Opposite(side) /\ Open(o) > 0
    BY <2>1 DEF RestingOn
  <2>3. ASSUME NEW r \in RestingOn(e, Opposite(side)), Open(r) > 0
        PROVE  ~Better(side, r.price, o.price)
    <3>1. r \in D
      BY <2>3
    <3>2. r.price \in Int /\ o.price \in Int
      BY <1>2, <2>1, <3>1 DEF Orders
    <3>3. r = o \/ Before(side, o, r)
      BY <2>1, <3>1
    <3> QED BY <3>2, <3>3 DEF Before, Better
  <2> QED BY <2>2, <2>3
<1>5. D # {} => Front(e, side) # {}
  <2> HIDE DEF D
  <2>1. D # {} => \E o \in D : \A r \in D \ {o} : Before(side, o, r)
    BY <1>2, <1>3, FirstExists
  <2> QED BY <2>1, <1>1
<1> QED BY <1>4, <1>5

\* What a trade needs: its makers rest and have its quantity open, and no open
\* order of the engine's own book has a better price.
Fit(t) ==
  /\ t \in Trades
  /\ \A id \in t.makers : \E o \in book : o.id = id
  /\ \A o \in book : o.id \in t.makers => t.qty <= Open(o)
  /\ Covered(taker.eng, taker.side, t.price, t.legs)
  /\ \A o \in RestingOn(taker.eng, Opposite(taker.side)) :
       Open(o) > 0 => ~Better(taker.side, o.price, t.price)

(* The local order.                                                         *)
LEMMA LocalFits ==
  ASSUME GroupTypeOK, IdInv, pc # "idle", NEW t \in Local(taker.eng, taker.side)
  PROVE  Fit(t)
<1>1. PICK o \in Front(taker.eng, taker.side) :
        t = [price |-> o.price, qty |-> Open(o), makers |-> {o.id}, legs |-> << >>]
  BY DEF Local
<1>2. /\ o \in book /\ Open(o) > 0
      /\ \A r \in RestingOn(taker.eng, Opposite(taker.side)) :
           Open(r) > 0 => ~Better(taker.side, r.price, o.price)
  BY FrontIs
<1>3. o.price \in Int /\ o.id \in Nat
  BY <1>2 DEF GroupTypeOK, Orders
<1>4. Open(o) \in Nat \ {0}
  <2>1. Open(o) \in Int
    BY <1>2, OpenIs
  <2> QED BY <2>1, <1>2
<1>5. t.price = o.price /\ t.qty = Open(o) /\ t.makers = {o.id} /\ t.legs = << >>
  BY <1>1
<1>6. t \in Trades
  BY <1>1, <1>3, <1>4 DEF Trades, LegPrices
<1>7. \A r \in book : r.id \in t.makers => t.qty <= Open(r)
  <2>1. \A r \in book : r.id = o.id => r = o
    BY <1>2 DEF IdInv
  <2> QED BY <2>1, <1>4, <1>5
<1> QED BY <1>2, <1>5, <1>6, <1>7 DEF Fit, Covered

(* An implied price is only moved in the disfavour of the taker.            *)
LEMMA BehindIs ==
  ASSUME GroupTypeOK, IdInv, NEW e \in Engines, NEW side \in Sides, NEW price \in Int
  PROVE  /\ Behind(e, side, price) \in Int
         /\ IF side = "BUY" THEN price <= Behind(e, side, price)
                            ELSE Behind(e, side, price) <= price
<1> DEFINE own == Front(e, Opposite(side))
<1>1. \A o \in own : o.price \in Int
  <2>1. \A o \in own : o \in book
    BY FrontIs
  <2> QED BY <2>1 DEF GroupTypeOK, Orders
<1>2. Tick[e] \in Nat \ {0}
  BY GroupAssumption
<1>3. CASE \E o \in own : Better(side, price, o.price)
  <2>1. PICK o : o = CHOOSE r \in own : TRUE
    OBVIOUS
  <2>2. o \in own
    BY <1>3, <2>1
  <2>4. o.price \in Int
    BY <1>1, <2>2
  <2>5. Behind(e, side, price) = IF side = "BUY" THEN o.price + Tick[e] ELSE o.price - Tick[e]
    BY <1>3, <2>1 DEF Behind
  <2>6. \A r \in own : o.price = r.price
    <3>1. \A r \in Front(e, Opposite(side)) :
            r \in book /\ r \in RestingOn(e, Opposite(Opposite(side))) /\ Open(r) > 0
      BY FrontIs DEF RestingOn
    <3>2. \A r, s \in own : ~Better(Opposite(side), r.price, s.price)
      BY <3>1, FrontIs
    <3> HIDE DEF own
    <3>3. \A r \in own : /\ ~Better(Opposite(side), r.price, o.price)
                         /\ ~Better(Opposite(side), o.price, r.price)
      BY <3>2, <2>2
    <3> QED BY <3>3, <1>1, <2>4 DEF Better, Opposite
  <2>7. Better(side, price, o.price)
    <3>1. PICK r \in own : Better(side, price, r.price)
      BY <1>3
    <3>2. r.price = o.price
      BY <2>6
    <3> QED BY <3>1, <3>2
  <2> QED BY <2>4, <2>5, <2>7, <1>2 DEF Better, Sides
<1>4. CASE ~\E o \in own : Better(side, price, o.price)
  <2>1. Behind(e, side, price) = price
    BY <1>4 DEF Behind
  <2> QED BY <2>1
<1> QED BY <1>3, <1>4

(* The legs, when their price is better than the local order's.             *)
LEMMA ImpliedFits ==
  ASSUME GroupTypeOK, IdInv, pc # "idle", NEW t \in Implied(taker.eng, taker.side),
         \A l \in Local(taker.eng, taker.side) : Better(taker.side, t.price, l.price)
  PROVE  Fit(t)
<1> DEFINE e == taker.eng  side == taker.side
<1>0. e \in Engines /\ side \in Sides
  BY DEF GroupTypeOK, Takers
<1>1. PICK l \in LegPairs(e, side) :
        t = [price  |-> Behind(e, side, matchd_price(e, side, l[1].price, l[2].price)),
             qty    |-> Min2(Open(l[1]), Open(l[2])),
             makers |-> {l[1].id, l[2].id},
             legs   |-> <<l[1].price, l[2].price>>]
  BY DEF Implied
<1>2. Rule[e] # "none"
  BY <1>1 DEF LegPairs
<1>3. l \in Front(Legs[e][1], LegSides(e, side)[1]) \X Front(Legs[e][2], LegSides(e, side)[2])
  BY <1>1, <1>2 DEF LegPairs
<1>4. PICK a, b : a = l[1] /\ b = l[2]
  OBVIOUS
<1>5. /\ a \in Front(Legs[e][1], LegSides(e, side)[1])
      /\ b \in Front(Legs[e][2], LegSides(e, side)[2])
  BY <1>3, <1>4
<1>6. a \in book /\ b \in book /\ Open(a) > 0 /\ Open(b) > 0
  BY <1>5, FrontIs
<1>7. a.price \in Int /\ b.price \in Int /\ a.id \in Nat /\ b.id \in Nat
  BY <1>6 DEF GroupTypeOK, Orders
<1>8. Open(a) \in Nat \ {0} /\ Open(b) \in Nat \ {0}
  <2>1. Open(a) \in Int /\ Open(b) \in Int
    BY <1>6, OpenIs
  <2> QED BY <2>1, <1>6
<1>9. PICK p0 : p0 = matchd_price(e, side, a.price, b.price)
  OBVIOUS
<1>10. PICK m \in Int : m = LegsPrice(e, a.price, b.price)
  BY <1>0, <1>2, <1>7, LegsCovered
<1>11. /\ p0 \in Int
       /\ IF side = "BUY" THEN p0 * Scale(e) > m - Scale(e) ELSE p0 * Scale(e) < m + Scale(e)
  BY <1>0, <1>2, <1>7, <1>9, <1>10, LegsCovered
<1>12. PICK p \in Int : /\ p = Behind(e, side, p0)
                        /\ IF side = "BUY" THEN p0 <= p ELSE p <= p0
  BY <1>0, <1>11, BehindIs
<1>13. PICK c \in Nat : c = Scale(e)
  BY GroupAssumption DEF Scale
<1>14. IF side = "BUY" THEN p * c > m - c ELSE p * c < m + c
  <2>1. p0 * c \in Int /\ p * c \in Int
    BY <1>11, <1>12, <1>13
  <2>2. CASE side = "BUY"
    <3>1. p0 * c <= p * c
      BY <1>11, <1>12, <1>13, <2>2, ScaleUp
    <3>2. p0 * c > m - c
      BY <1>11, <1>13, <2>2
    <3> QED BY <2>1, <2>2, <3>1, <3>2, <1>10, <1>13
  <2>3. CASE side # "BUY"
    <3>1. p * c <= p0 * c
      BY <1>11, <1>12, <1>13, <2>3, ScaleUp
    <3>2. p0 * c < m + c
      BY <1>11, <1>13, <2>3
    <3> QED BY <2>1, <2>3, <3>1, <3>2, <1>10, <1>13
  <2> QED BY <2>2, <2>3
<1>15. /\ t.price = p /\ t.qty = Min2(Open(a), Open(b)) /\ t.makers = {a.id, b.id}
       /\ t.legs = <<a.price, b.price>>
       /\ t = [price |-> p, qty |-> Min2(Open(a), Open(b)), makers |-> {a.id, b.id},
               legs |-> <<a.price, b.price>>]
  BY <1>1, <1>4, <1>9, <1>12
<1>16. /\ Min2(Open(a), Open(b)) \in Nat \ {0}
       /\ Min2(Open(a), Open(b)) <= Open(a) /\ Min2(Open(a), Open(b)) <= Open(b)
  BY <1>8 DEF Min2
<1>17. t \in Trades
  <2>1. <<a.price, b.price>> \in LegPrices
    BY <1>7 DEF LegPrices
  <2> QED BY <1>7, <1>15, <1>16, <2>1 DEF Trades
<1>18. \A r \in book : r.id \in t.makers => t.qty <= Open(r)
  <2>1. \A r \in book : (r.id = a.id => r = a) /\ (r.id = b.id => r = b)
    BY <1>6 DEF IdInv
  <2> QED BY <2>1, <1>15, <1>16
<1>19. Covered(e, side, t.price, t.legs)
  <2>1. t.legs[1] = a.price /\ t.legs[2] = b.price
    BY <1>15
  <2> QED BY <2>1, <1>10, <1>13, <1>14, <1>15 DEF Covered
<1>20. ASSUME NEW r \in RestingOn(e, Opposite(side)), Open(r) > 0
       PROVE  ~Better(side, r.price, t.price)
  <2>1. Front(e, side) # {}
    BY <1>20, FrontIs
  <2>2. PICK o \in Front(e, side) : TRUE
    BY <2>1
  <2>3. o \in book /\ r \in book /\ ~Better(side, r.price, o.price)
    BY <1>20, FrontIs DEF RestingOn
  <2>4. PICK x \in Local(e, side) : x.price = o.price
    <3>1. PICK x : x = [price |-> o.price, qty |-> Open(o), makers |-> {o.id}, legs |-> << >>]
      OBVIOUS
    <3>2. x \in Local(e, side)
      BY <3>1 DEF Local
    <3> QED BY <3>1, <3>2
  <2>5. Better(side, p, o.price)
    BY <2>4, <1>15
  <2>6. o.price \in Int /\ r.price \in Int
    BY <2>3 DEF GroupTypeOK, Orders
  <2> QED BY <2>3, <2>5, <2>6, <1>15 DEF Better
<1>21. \A id \in t.makers : \E o \in book : o.id = id
  BY <1>6, <1>15
<1> QED BY <1>17, <1>18, <1>19, <1>20, <1>21 DEF Fit

(* What the taker meets first, legs or local, fits.                         *)
LEMMA TopFits ==
  ASSUME GroupTypeOK, IdInv, pc # "idle", NEW t \in Crossing
  PROVE  Fit(t) /\ Within(taker.price, taker.side, t.price)
<1>1. t \in Top(taker.eng, taker.side) /\ Reachable(t)
  BY DEF Crossing
<1>2. \/ /\ t \in Implied(taker.eng, taker.side)
         /\ \A l \in Local(taker.eng, taker.side) : Better(taker.side, t.price, l.price)
      \/ t \in Local(taker.eng, taker.side)
  BY <1>1 DEF Top
<1>3. Fit(t)
  BY <1>2, LocalFits, ImpliedFits
<1> QED BY <1>1, <1>3 DEF Reachable, Within

-----------------------------------------------------------------------------
(* What a trade does.                                                       *)

\* What the trade takes of an order.
Cut(t, qty, o) == IF o.id \in t.makers THEN qty ELSE 0

\* The same order, perhaps with another quantity.
Same(o, r) == o.id = r.id /\ o.eng = r.eng /\ o.side = r.side /\ o.price = r.price

(* A trade takes its quantity of its makers, and those it empties leave.    *)
LEMMA TradeBook ==
  ASSUME GroupTypeOK, IdInv, NEW t, NEW qty \in Nat \ {0}, Trade(t, qty),
         \A o \in book : o.id \in t.makers => qty <= o.qty
  PROVE  /\ book' \subseteq Orders /\ IsFiniteSet(book')
         /\ \A o \in book' : \E r \in book : Same(o, r) /\ o.qty = r.qty - Cut(t, qty, r)
         /\ \A r \in book : r.qty - Cut(t, qty, r) > 0 =>
              \E o \in book' : Same(o, r) /\ o.qty = r.qty - Cut(t, qty, r)
<1> DEFINE K == {o \in book : o.id \notin t.makers}
           M == {o \in book : o.id \in t.makers /\ o.qty # qty}
           Less(o) == [o EXCEPT !.qty = @ - qty]
           N == {Less(o) : o \in M}
<1>1. book' = K \cup N
  BY DEF Trade
<1>2. book \subseteq Orders /\ IsFiniteSet(book)
  BY DEF GroupTypeOK
<1>3. ASSUME NEW o \in book
      PROVE  /\ o.id \in Nat \ {0} /\ o.eng \in Engines /\ o.side \in Sides /\ o.price \in Int
             /\ o.qty \in Nat \ {0}
             /\ o = [id |-> o.id, eng |-> o.eng, side |-> o.side, price |-> o.price, qty |-> o.qty]
  BY <1>2 DEF Orders
<1>4. ASSUME NEW o \in M
      PROVE  /\ Less(o) \in Orders /\ Same(Less(o), o) /\ Less(o).qty = o.qty - qty
  <2>1. o \in book /\ o.id \in t.makers /\ o.qty # qty
    OBVIOUS
  <2>2. o.qty - qty \in Nat \ {0}
    BY <2>1, <1>3
  <2>3. Less(o) = [id |-> o.id, eng |-> o.eng, side |-> o.side, price |-> o.price,
                   qty |-> o.qty - qty]
    BY <2>1, <1>3
  <2> QED BY <2>1, <2>2, <2>3, <1>3 DEF Orders, Same
<1>5. IsFiniteSet(K) /\ IsFiniteSet(M)
  <2>1. K \in SUBSET book /\ M \in SUBSET book
    OBVIOUS
  <2> QED BY <2>1, <1>2, FS_Subset
<1>6. IsFiniteSet(N)
  <2> DEFINE f == [o \in M |-> Less(o)]
  <2>1. f \in [M -> N] /\ \A x \in N : \E o \in M : f[o] = x
    OBVIOUS
  <2>2. f \in Surjection(M, N)
    BY <2>1 DEF Surjection
  <2> HIDE DEF f, M, N
  <2> QED BY <2>2, <1>5, FS_Surjection
<1>7. book' \subseteq Orders
  BY <1>1, <1>2, <1>4
<1>8. IsFiniteSet(book')
  BY <1>1, <1>5, <1>6, FS_Union
<1>9. ASSUME NEW o \in book'
      PROVE  \E r \in book : Same(o, r) /\ o.qty = r.qty - Cut(t, qty, r)
  <2>1. CASE o \in K
    <3>1. o \in book /\ Cut(t, qty, o) = 0
      BY <2>1 DEF Cut
    <3> QED BY <3>1, <1>3 DEF Same
  <2>2. CASE o \in N
    <3>1. PICK r \in M : o = Less(r)
      BY <2>2
    <3>2. Cut(t, qty, r) = qty /\ r \in book
      BY DEF Cut
    <3> QED BY <3>1, <3>2, <1>4
  <2> QED BY <2>1, <2>2, <1>1
<1>10. ASSUME NEW r \in book, r.qty - Cut(t, qty, r) > 0
       PROVE  \E o \in book' : Same(o, r) /\ o.qty = r.qty - Cut(t, qty, r)
  <2>1. CASE r.id \notin t.makers
    <3>1. r \in K /\ Cut(t, qty, r) = 0
      BY <2>1 DEF Cut
    <3>2. r \in book' /\ r.qty = r.qty - 0
      BY <3>1, <1>1, <1>3
    <3> QED BY <3>1, <3>2 DEF Same
  <2>2. CASE r.id \in t.makers
    <3>1. Cut(t, qty, r) = qty
      BY <2>2 DEF Cut
    <3>2. r.qty # qty
      BY <3>1, <1>10, <1>3
    <3>3. r \in M
      BY <2>2, <3>2
    <3>4. Less(r) \in book'
      BY <3>3, <1>1
    <3> QED BY <3>1, <3>3, <3>4, <1>4
  <2> QED BY <2>1, <2>2
<1> QED BY <1>7, <1>8, <1>9, <1>10

(* The taker keeps all but its quantity left.                               *)
LEMMA TradeTaker ==
  ASSUME taker \in Takers, NEW t, NEW qty \in Nat \ {0}, qty <= taker.left, Trade(t, qty)
  PROVE  /\ taker' \in Takers /\ taker'.left = taker.left - qty
         /\ taker'.id = taker.id /\ taker'.eng = taker.eng /\ taker'.side = taker.side
         /\ taker'.price = taker.price /\ taker'.qty = taker.qty /\ taker'.tif = taker.tif
<1>1. taker' = [taker EXCEPT !.left = @ - qty]
  BY DEF Trade
<1>2. taker.left - qty \in Nat
  BY DEF Takers
<1> QED BY <1>1, <1>2 DEF Takers

(* The orders keep their ids.                                               *)
LEMMA TradeIds ==
  ASSUME GroupTypeOK, IdInv, pc # "idle", NEW t, NEW qty \in Nat \ {0}, qty <= taker.left,
         Trade(t, qty), \A o \in book : o.id \in t.makers => qty <= o.qty,
         nextId' = nextId
  PROVE  IdInv'
<1>1. /\ \A o \in book' : \E r \in book : Same(o, r) /\ o.qty = r.qty - Cut(t, qty, r)
      /\ book' \subseteq Orders
  BY TradeBook
<1>2. taker'.id = taker.id
  BY TradeTaker DEF GroupTypeOK
<1>3. \A o \in book' : o.id < nextId /\ o.id # taker.id
  BY <1>1 DEF IdInv, Same
<1>4. ASSUME NEW o \in book', NEW r \in book', o.id = r.id PROVE o = r
  <2>1. PICK a \in book : Same(o, a) /\ o.qty = a.qty - Cut(t, qty, a)
    BY <1>1
  <2>2. PICK b \in book : Same(r, b) /\ r.qty = b.qty - Cut(t, qty, b)
    BY <1>1
  <2>3. a = b
    BY <1>4, <2>1, <2>2 DEF IdInv, Same
  <2>4. /\ o.id = r.id /\ o.eng = r.eng /\ o.side = r.side /\ o.price = r.price
        /\ o.qty = r.qty
    BY <2>1, <2>2, <2>3 DEF Same
  <2>5. o \in Orders /\ r \in Orders
    BY <1>1
  <2>6. /\ o = [id |-> o.id, eng |-> o.eng, side |-> o.side, price |-> o.price, qty |-> o.qty]
        /\ r = [id |-> r.id, eng |-> r.eng, side |-> r.side, price |-> r.price, qty |-> r.qty]
    BY <2>5 DEF Orders
  <2> QED BY <2>4, <2>6
<1>5. taker.id < nextId
  BY DEF IdInv
<1> QED BY <1>2, <1>3, <1>4, <1>5 DEF IdInv

(* The fill of a trade that fits is as it should be.                        *)
LEMMA TradeFills ==
  ASSUME GroupInv, taker \in Takers, NEW t \in Trades, NEW qty, Trade(t, qty),
         Within(taker.price, taker.side, t.price),
         Covered(taker.eng, taker.side, t.price, t.legs),
         \A o \in RestingOn(taker.eng, Opposite(taker.side)) :
           ~Better(taker.side, o.price, t.price)
  PROVE  fills' \in Seq(Fills) /\ FillsAtBestPrice' /\ ImpliedCoversLegs'
<1> DEFINE B == {o.price : o \in RestingOn(taker.eng, Opposite(taker.side))}
<1>0. fills \in Seq(Fills) /\ FillsAtBestPrice /\ ImpliedCoversLegs
  BY DEF GroupInv, GroupTypeOK
<1>1. PICK f : f = [eng |-> taker.eng, side |-> taker.side, limit |-> taker.price,
                    price |-> t.price, legs |-> t.legs, book |-> B]
  OBVIOUS
<1>2. fills' = Append(fills, f)
  BY <1>1 DEF Trade
<1>3. /\ f.eng = taker.eng /\ f.side = taker.side /\ f.limit = taker.price
      /\ f.price = t.price /\ f.legs = t.legs /\ f.book = B
  BY <1>1
<1>4. f \in Fills
  <2>1. B \in SUBSET Int
    BY DEF GroupInv, GroupTypeOK, RestingOn, Orders
  <2> HIDE DEF B
  <2> QED BY <1>1, <2>1 DEF Fills, Takers, Trades
<1>5. \A p \in f.book : ~Better(f.side, p, f.price)
  BY <1>3
<1> HIDE DEF B
<1>6. /\ fills' \in Seq(Fills) /\ Len(fills') = Len(fills) + 1
      /\ Len(fills) \in Nat
      /\ \A i \in 1 .. Len(fills) : fills'[i] = fills[i]
      /\ fills'[Len(fills) + 1] = f
  <2>1. /\ Append(fills, f) \in Seq(Fills) /\ Len(Append(fills, f)) = Len(fills) + 1
        /\ Len(fills) \in Nat
        /\ \A i \in 1 .. Len(fills) : Append(fills, f)[i] = fills[i]
        /\ Append(fills, f)[Len(fills) + 1] = f
    BY ONLY <1>0, <1>4, AppendProperties, LenProperties
  <2> QED BY <2>1, <1>2
<1>7. DOMAIN fills = 1 .. Len(fills) /\ DOMAIN fills' = 1 .. Len(fills) + 1
  BY <1>0, <1>6, LenProperties
<1>8. \A i \in DOMAIN fills' : \/ i \in DOMAIN fills /\ fills'[i] = fills[i]
                               \/ fills'[i] = f
  BY <1>6, <1>7
<1>9. FillsAtBestPrice'
  <2>1. f.limit = MARKET_PRICE \/ ~Better(f.side, f.limit, f.price)
    BY <1>3 DEF Within
  <2>2. \A i \in DOMAIN fills :
          /\ fills[i].limit = MARKET_PRICE \/ ~Better(fills[i].side, fills[i].limit, fills[i].price)
          /\ \A p \in fills[i].book : ~Better(fills[i].side, p, fills[i].price)
    BY <1>0 DEF FillsAtBestPrice
  <2>3. \A i \in DOMAIN fills' :
          /\ fills'[i].limit = MARKET_PRICE
               \/ ~Better(fills'[i].side, fills'[i].limit, fills'[i].price)
          /\ \A p \in fills'[i].book : ~Better(fills'[i].side, p, fills'[i].price)
    BY ONLY <2>1, <2>2, <1>5, <1>8
  <2> QED BY <2>3 DEF FillsAtBestPrice
<1>10. ImpliedCoversLegs'
  <2>1. Covered(f.eng, f.side, f.price, f.legs)
    BY <1>3
  <2>2. \A i \in DOMAIN fills :
          Covered(fills[i].eng, fills[i].side, fills[i].price, fills[i].legs)
    BY <1>0 DEF ImpliedCoversLegs, Covered
  <2>3. \A i \in DOMAIN fills' :
          Covered(fills'[i].eng, fills'[i].side, fills'[i].price, fills'[i].legs)
    BY ONLY <2>1, <2>2, <1>8
  <2> QED BY <2>3 DEF ImpliedCoversLegs, Covered
<1> QED BY <1>6, <1>9, <1>10

-----------------------------------------------------------------------------
(* The steps.                                                               *)

(* An empty plan takes nothing.                                             *)
LEMMA NoPlan ==
  ASSUME NEW p, p = << >>, NEW ids
  PROVE  Len(p) = 0 /\ Part(p, ids, Len(p)) = 0
<1>1. Len(p) = 0
  BY EmptySeq
<1> QED BY <1>1, PartZero

(* Nothing is planned before the first order.                               *)
LEMMA GroupInit == Init => GroupInv
<1> SUFFICES ASSUME Init PROVE GroupInv
  OBVIOUS
<1>1. GroupTypeOK
  <2>1. IsFiniteSet({})
    BY FS_EmptySet
  <2> QED BY <2>1, EmptySeq DEF Init, GroupTypeOK, NoFok
<1>2. Len(plan) = 0
  BY EmptySeq DEF Init
<1>3. IdInv /\ PlanInv
  BY <1>2 DEF Init, IdInv, PlanInv, NoFok
<1>4. FillsAtBestPrice /\ ImpliedCoversLegs
  BY EmptySeq DEF Init, FillsAtBestPrice, ImpliedCoversLegs
<1> QED BY <1>1, <1>3, <1>4 DEF GroupInv

(* A step that leaves an idle group, or starts a call, with any finite book *)
(* of distinct orders.                                                      *)
LEMMA QuietStep ==
  ASSUME GroupTypeOK', IdInv', plan' = << >>, pc' \in {"idle", "match", "fok"},
         pc' = "match" => taker'.tif # "FOK" /\ taker'.left = taker'.qty,
         pc' = "fok" => taker'.tif = "FOK" /\ taker'.left = taker'.qty,
         ended'.left \in {0, ended'.qty}
  PROVE  PlanInv'
<1>1. Len(plan') = 0 /\ \A ids : Part(plan', ids, Len(plan')) = 0
  BY NoPlan
<1>2. pc' # "idle" => taker'.qty \in Nat
  BY DEF GroupTypeOK, Takers
<1>3. \A o \in book' : o.qty \in Nat
  BY DEF GroupTypeOK, Orders
<1>4. \A i \in 1 .. Len(plan') : FALSE
  BY <1>1
<1> QED BY <1>1, <1>2, <1>3, <1>4 DEF PlanInv

(* A new order.                                                             *)
LEMMA NewKeeps ==
  ASSUME GroupInv, NEW r \in Requests, New(r)
  PROVE  GroupInv'
<1>0. GroupTypeOK /\ IdInv /\ PlanInv /\ FillsAtBestPrice /\ ImpliedCoversLegs
  BY DEF GroupInv
<1>1. /\ pc = "idle" /\ nextId' = nextId + 1 /\ ended' = NoFok
      /\ taker' = [id |-> nextId, eng |-> r.eng, side |-> r.side, price |-> r.price,
                   qty |-> r.qty, left |-> r.qty, tif |-> r.tif]
      /\ pc' = IF r.tif = "FOK" THEN "fok" ELSE "match"
      /\ UNCHANGED <<book, plan, fills>>
  BY DEF New
<1>2. r \in [eng : Engines, side : {"BUY", "SELL"}, price : Int, qty : Nat \ {0},
             tif : {"NONE", "IOC", "FOK", "MAKER_ONLY", "MAKER_ONLY_REPRICE"}]
  BY GroupAssumption
<1>3. taker' \in Takers
  <2>1. nextId \in Nat \ {0}
    BY <1>0 DEF GroupTypeOK
  <2> QED BY <2>1, <1>1, <1>2 DEF Takers, Sides
<1>4. GroupTypeOK'
  BY <1>0, <1>1, <1>3 DEF GroupTypeOK, NoFok
<1>5. IdInv'
  <2>1. nextId \in Nat /\ \A o \in book : o.id \in Nat /\ o.id < nextId
    BY <1>0 DEF GroupTypeOK, IdInv, Orders
  <2>2. taker'.id = nextId
    BY <1>1
  <2>3. \A o \in book : o.id < nextId + 1 /\ o.id # nextId
    BY <2>1
  <2>4. nextId < nextId + 1
    BY <2>1
  <2>5. \A o, s \in book : o.id = s.id => o = s
    BY <1>0 DEF IdInv
  <2> QED BY <1>1, <2>2, <2>3, <2>4, <2>5 DEF IdInv
<1>6. PlanInv'
  <2>1. plan' = << >>
    BY <1>0, <1>1 DEF PlanInv
  <2>2. taker'.tif = r.tif /\ taker'.left = taker'.qty
    BY <1>1
  <2>3. pc' \in {"idle", "match", "fok"} /\ ended'.left \in {0, ended'.qty}
    BY <1>1 DEF NoFok
  <2> QED BY <1>1, <1>4, <1>5, <2>1, <2>2, <2>3, QuietStep
<1>7. FillsAtBestPrice' /\ ImpliedCoversLegs'
  BY <1>0, <1>1 DEF FillsAtBestPrice, ImpliedCoversLegs
<1> QED BY <1>4, <1>5, <1>6, <1>7 DEF GroupInv

(* A resting order is cancelled between calls.                              *)
LEMMA CancelKeeps ==
  ASSUME GroupInv, NEW o \in book, Cancel(o)
  PROVE  GroupInv'
<1>0. GroupTypeOK /\ IdInv /\ PlanInv /\ FillsAtBestPrice /\ ImpliedCoversLegs
  BY DEF GroupInv
<1>1. /\ pc = "idle" /\ book' = book \ {o}
      /\ UNCHANGED <<nextId, taker, plan, pc, fills, ended>>
  BY DEF Cancel
<1>2. IsFiniteSet(book')
  BY <1>0, <1>1, FS_RemoveElement DEF GroupTypeOK
<1>3. GroupTypeOK'
  BY <1>0, <1>1, <1>2 DEF GroupTypeOK
<1>4. IdInv'
  BY <1>0, <1>1 DEF IdInv
<1>5. PlanInv'
  BY <1>0, <1>1, <1>3, <1>4, QuietStep DEF PlanInv
<1>6. FillsAtBestPrice' /\ ImpliedCoversLegs'
  BY <1>0, <1>1 DEF FillsAtBestPrice, ImpliedCoversLegs
<1> QED BY <1>3, <1>4, <1>5, <1>6 DEF GroupInv

(* The call returns, and leaves any finite book of distinct orders.         *)
LEMMA ReturnKeeps ==
  ASSUME GroupInv, pc # "idle", Return,
         book' \subseteq Orders, IsFiniteSet(book'), \A o \in book' : o.id < nextId,
         \A o, r \in book' : o.id = r.id => o = r,
         taker.tif = "FOK" => taker.left \in {0, taker.qty}
  PROVE  GroupInv'
<1>0. GroupTypeOK /\ IdInv
  BY DEF GroupInv
<1>1. /\ pc' = "idle" /\ taker' = None /\ plan' = << >> /\ fills' = << >>
      /\ ended' = (IF taker.tif = "FOK" THEN [left |-> taker.left, qty |-> taker.qty] ELSE NoFok)
      /\ nextId' = nextId
  BY DEF Return
<1>2. taker \in Takers
  BY <1>0 DEF GroupTypeOK
<1>3. ended' \in [left : Nat, qty : Nat] /\ ended'.left \in {0, ended'.qty}
  <2>1. CASE taker.tif = "FOK"
    BY <1>1, <1>2, <2>1 DEF Takers
  <2>2. CASE taker.tif # "FOK"
    BY <1>1, <2>2 DEF NoFok
  <2> QED BY <2>1, <2>2
<1>4. GroupTypeOK'
  BY <1>0, <1>1, <1>3, EmptySeq DEF GroupTypeOK
<1>5. IdInv'
  BY <1>1 DEF IdInv
<1>6. PlanInv'
  BY <1>1, <1>3, <1>4, <1>5, QuietStep
<1>7. FillsAtBestPrice' /\ ImpliedCoversLegs'
  <2>1. \A i \in DOMAIN fills' : FALSE
    BY <1>1
  <2> QED BY <2>1 DEF FillsAtBestPrice, ImpliedCoversLegs
<1> QED BY <1>4, <1>5, <1>6, <1>7 DEF GroupInv

(* A call that returns without touching the book.                           *)
LEMMA ReturnSame ==
  ASSUME GroupInv, pc # "idle", Return, UNCHANGED book,
         taker.tif = "FOK" => taker.left \in {0, taker.qty}
  PROVE  GroupInv'
<1>1. /\ book' \subseteq Orders /\ IsFiniteSet(book') /\ \A o \in book' : o.id < nextId
      /\ \A o, r \in book' : o.id = r.id => o = r
  BY DEF GroupInv, GroupTypeOK, IdInv
<1> QED BY <1>1, ReturnKeeps

(* A call that returns with its order resting.                              *)
LEMMA ReturnResting ==
  ASSUME GroupInv, pc = "match", Return, NEW price \in Int, RestAt(price), taker.left # 0
  PROVE  GroupInv'
<1>0. GroupTypeOK /\ IdInv /\ PlanInv
  BY DEF GroupInv
<1>1. PICK x : x = [id |-> taker.id, eng |-> taker.eng, side |-> taker.side,
                    price |-> price, qty |-> taker.left]
  OBVIOUS
<1>2. x \in Orders
  BY <1>0, <1>1 DEF GroupTypeOK, Takers, Orders
<1>3. book' = book \cup {x}
  BY <1>1 DEF RestAt
<1>4. IsFiniteSet(book')
  BY <1>0, <1>3, FS_AddElement DEF GroupTypeOK
<1>5. book' \subseteq Orders
  BY <1>0, <1>2, <1>3 DEF GroupTypeOK
<1>6. /\ \A o \in book' : o.id < nextId
      /\ \A o, r \in book' : o.id = r.id => o = r
  <2>1. x.id = taker.id
    BY <1>1
  <2> QED BY <2>1, <1>0, <1>3 DEF IdInv
<1>7. taker.tif # "FOK"
  BY <1>0 DEF PlanInv
<1> QED BY <1>4, <1>5, <1>6, <1>7, ReturnKeeps

(* Post-only orders: one tick in front of what they would have crossed.     *)
LEMMA RepriceKeeps ==
  ASSUME GroupInv, Reprice
  PROVE  GroupInv'
<1>0. GroupTypeOK /\ IdInv /\ PlanInv
  BY DEF GroupInv
<1>1. /\ pc = "match" /\ taker.tif = "MAKER_ONLY_REPRICE" /\ Return
  BY DEF Reprice
<1>2. PICK t \in Crossing :
        RestAt(IF taker.side = "BUY" THEN t.price - Tick[taker.eng]
                                     ELSE t.price + Tick[taker.eng])
  BY DEF Reprice
<1>3. t.price \in Int
  BY <1>0, <1>1, TopFits DEF Fit, Trades
<1>4. taker \in Takers /\ taker.left = taker.qty
  BY <1>0, <1>1 DEF GroupTypeOK, PlanInv
<1>5. Tick[taker.eng] \in Nat
  BY <1>4, GroupAssumption DEF Takers
<1>6. taker.left # 0
  BY <1>4 DEF Takers
<1>7. PICK price \in Int : price = IF taker.side = "BUY" THEN t.price - Tick[taker.eng]
                                                          ELSE t.price + Tick[taker.eng]
  BY <1>3, <1>5
<1> QED BY <1>1, <1>2, <1>6, <1>7, ReturnResting

(* What is left when nothing crosses any more rests, at a price of the book *)
(* if it has none of its own.                                               *)
LEMMA RestKeeps ==
  ASSUME GroupInv, RestRemainder
  PROVE  GroupInv'
<1>0. GroupTypeOK /\ IdInv /\ PlanInv
  BY DEF GroupInv
<1>1. /\ pc = "match" /\ taker.left > 0 /\ Return
      /\ IF RestPrices = {} THEN UNCHANGED book ELSE \E p \in RestPrices : RestAt(p)
  BY DEF RestRemainder, Remains
<1>2. taker \in Takers /\ taker.tif # "FOK"
  BY <1>0, <1>1 DEF GroupTypeOK, PlanInv
<1>3. CASE RestPrices = {}
  BY <1>1, <1>2, <1>3, ReturnSame
<1>4. CASE RestPrices # {}
  <2>1. PICK p \in RestPrices : RestAt(p)
    BY <1>1, <1>4
  <2> DEFINE e == taker.eng  other == Opposite(taker.side)
  <2>2. e \in Engines /\ other \in Sides
    BY <1>2 DEF Takers, Sides, Opposite
  <2>3. \A q \in TopPrices(e, other) : q \in Int
    <3>1. \A s : \A g : \A o \in Front(g, s) : o.price \in Int
      <4>1. \A s : \A g : \A o \in Front(g, s) : o \in book
        BY <1>0, FrontIs
      <4> QED BY <4>1, <1>0 DEF GroupTypeOK, Orders
    <3>2. ASSUME NEW l \in LegPairs(e, other)
          PROVE  matchd_price(e, other, l[1].price, l[2].price) \in Int
      <4>1. Rule[e] # "none"
        BY DEF LegPairs
      <4>2. l \in Front(Legs[e][1], LegSides(e, other)[1])
                    \X Front(Legs[e][2], LegSides(e, other)[2])
        BY <4>1 DEF LegPairs
      <4>3. l[1].price \in Int /\ l[2].price \in Int
        BY <4>2, <3>1
      <4> QED BY <4>1, <4>3, <2>2, LegsCovered
    <3> QED BY <3>1, <3>2 DEF TopPrices
  <2>4. p \in Int
    <3>1. CASE taker.price # MARKET_PRICE
      BY <1>2, <2>1, <3>1 DEF RestPrices, Takers
    <3>2. CASE taker.price = MARKET_PRICE
      BY <2>1, <2>3, <3>2 DEF RestPrices
    <3> QED BY <3>1, <3>2
  <2>5. taker.left # 0
    BY <1>1
  <2> QED BY <1>1, <2>1, <2>4, <2>5, ReturnResting
<1> QED BY <1>3, <1>4

(* The taker trades with what it meets first.                               *)
LEMMA MatchKeeps ==
  ASSUME GroupInv, NEW t \in Crossing, MatchTop(t)
  PROVE  GroupInv'
<1>0. GroupTypeOK /\ IdInv /\ PlanInv
  BY DEF GroupInv
<1>1. /\ pc = "match" /\ taker.left > 0
      /\ taker.tif \notin {"MAKER_ONLY", "MAKER_ONLY_REPRICE"}
      /\ Trade(t, Min2(t.qty, taker.left))
      /\ UNCHANGED <<nextId, plan, pc, ended>>
  BY DEF MatchTop
<1>2. taker \in Takers
  BY <1>0, <1>1 DEF GroupTypeOK
<1>3. /\ Fit(t) /\ t \in Trades /\ Within(taker.price, taker.side, t.price)
      /\ Covered(taker.eng, taker.side, t.price, t.legs)
  BY <1>0, <1>1, TopFits DEF Fit
<1>4. PICK q \in Nat \ {0} : q = Min2(t.qty, taker.left) /\ q <= t.qty /\ q <= taker.left
  <2>1. t.qty \in Nat \ {0} /\ taker.left \in Nat \ {0}
    BY <1>1, <1>2, <1>3 DEF Trades, Takers
  <2> QED BY <2>1 DEF Min2
<1>5. Trade(t, q)
  BY <1>1, <1>4
<1>6. plan = << >>
  BY <1>0, <1>1 DEF PlanInv
<1>7. \A o \in book : o.qty \in Nat \ {0} /\ Open(o) = o.qty
  <2> SUFFICES ASSUME NEW o \in book PROVE o.qty \in Nat \ {0} /\ Open(o) = o.qty
    OBVIOUS
  <2>1. o.qty \in Nat \ {0}
    BY <1>0 DEF GroupTypeOK, Orders
  <2>2. Open(o) = o.qty - Part(plan, {o.id}, Len(plan))
    BY <1>0, OpenIs
  <2>3. Part(plan, {o.id}, Len(plan)) = 0
    BY <1>6, NoPlan
  <2> QED BY <2>1, <2>2, <2>3
<1>8. \A o \in book : o.id \in t.makers => q <= o.qty
  <2>1. \A o \in book : o.id \in t.makers => t.qty <= o.qty
    BY <1>3, <1>7 DEF Fit
  <2>2. t.qty \in Nat
    BY <1>3 DEF Trades
  <2> QED BY <2>1, <2>2, <1>4, <1>7
<1>9. \A o \in RestingOn(taker.eng, Opposite(taker.side)) : ~Better(taker.side, o.price, t.price)
  <2>1. \A o \in RestingOn(taker.eng, Opposite(taker.side)) : o \in book
    BY DEF RestingOn
  <2>2. \A o \in RestingOn(taker.eng, Opposite(taker.side)) : Open(o) > 0
    BY <2>1, <1>7
  <2> QED BY <2>2, <1>3 DEF Fit
<1>10. book' \subseteq Orders /\ IsFiniteSet(book')
  BY <1>0, <1>5, <1>8, TradeBook
<1>11. taker' \in Takers /\ taker'.tif = taker.tif
  BY <1>2, <1>4, <1>5, TradeTaker
<1>12. IdInv'
  BY <1>0, <1>1, <1>4, <1>5, <1>8, TradeIds
<1>13. fills' \in Seq(Fills) /\ FillsAtBestPrice' /\ ImpliedCoversLegs'
  BY <1>2, <1>3, <1>5, <1>9, TradeFills
<1>14. GroupTypeOK'
  BY <1>0, <1>1, <1>10, <1>11, <1>13 DEF GroupTypeOK
<1>15. PlanInv'
  <2>1. Len(plan') = 0 /\ \A ids : Part(plan', ids, Len(plan')) = 0
    BY <1>1, <1>6, NoPlan
  <2>2. \A o \in book' : o.qty \in Nat
    BY <1>10 DEF Orders
  <2>3. taker'.tif # "FOK" /\ taker'.tif # "MAKER_ONLY_REPRICE"
    BY <1>0, <1>1, <1>11 DEF PlanInv
  <2>4. ended'.left \in {0, ended'.qty}
    BY <1>0, <1>1 DEF PlanInv
  <2>5. pc' = "match" /\ plan' = << >> /\ \A i \in 1 .. Len(plan') : FALSE
    BY <1>1, <1>6, <2>1
  <2> QED BY <2>1, <2>2, <2>3, <2>4, <2>5 DEF PlanInv
<1> QED BY <1>12, <1>13, <1>14, <1>15 DEF GroupInv

(* One record of the plan: it fits what the plan so far leaves open.        *)
LEMMA PlanKeeps ==
  ASSUME GroupInv, NEW t \in Crossing, FokPlan(t)
  PROVE  GroupInv'
<1>0. GroupTypeOK /\ IdInv /\ PlanInv
  BY DEF GroupInv
<1>1. /\ pc = "fok" /\ Planned < taker.qty
      /\ plan' = Append(plan, [t EXCEPT !.qty = Min2(@, taker.qty - Planned)])
      /\ UNCHANGED <<book, nextId, taker, pc, fills, ended>>
  BY DEF FokPlan
<1>2. taker \in Takers /\ taker.left = taker.qty
  BY <1>0, <1>1 DEF GroupTypeOK, PlanInv
<1>3. /\ Fit(t) /\ t \in Trades /\ Within(taker.price, taker.side, t.price)
      /\ Covered(taker.eng, taker.side, t.price, t.legs)
  BY <1>0, <1>1, TopFits DEF Fit
<1>4. Planned = Part(plan, {}, Len(plan)) /\ Planned \in Nat
  BY <1>0, PlannedIs
<1>5. PICK u : u = [t EXCEPT !.qty = Min2(@, taker.qty - Planned)]
  OBVIOUS
<1>6. /\ u \in Trades /\ u.qty \in Nat \ {0} /\ u.qty <= t.qty /\ u.qty <= taker.qty - Planned
      /\ u.price = t.price /\ u.makers = t.makers /\ u.legs = t.legs
  <2>1. t.qty \in Nat \ {0} /\ taker.qty - Planned \in Nat \ {0}
    BY <1>1, <1>2, <1>3, <1>4 DEF Trades, Takers
  <2>2. PICK m \in Nat \ {0} : /\ m = Min2(t.qty, taker.qty - Planned)
                               /\ m <= t.qty /\ m <= taker.qty - Planned
    BY <2>1 DEF Min2
  <2>3. u = [t EXCEPT !.qty = m]
    BY <1>5, <2>2
  <2> QED BY <2>2, <2>3, <1>3 DEF Trades
<1> DEFINE n == Len(plan)
<1>7. plan \in Seq(Trades) /\ n \in Nat /\ Counted(plan, 1 .. n)
  BY <1>0, PlanCounted DEF GroupTypeOK
<1>8. /\ plan' \in Seq(Trades) /\ Len(plan') = n + 1
      /\ \A i \in 1 .. n : plan'[i] = plan[i]
      /\ plan'[n + 1] = u
  <2>1. /\ Append(plan, u) \in Seq(Trades) /\ Len(Append(plan, u)) = Len(plan) + 1
        /\ \A i \in 1 .. Len(plan) : Append(plan, u)[i] = plan[i]
        /\ Append(plan, u)[Len(plan) + 1] = u
    BY ONLY <1>6, <1>7, AppendProperties
  <2> QED BY <2>1, <1>1, <1>5
<1>9. Counted(plan', 1 .. n + 1)
  <2>1. Counted(plan', 1 .. Len(plan'))
    BY <1>8, PlanCounted
  <2> QED BY <2>1, <1>8
<1> HIDE DEF n
<1>10. ASSUME NEW ids, NEW i \in 0 .. n PROVE Part(plan', ids, i) = Part(plan, ids, i)
  <2>1. \A j \in 1 .. i : plan'[j] = plan[j]
    BY <1>7, <1>8
  <2> QED BY <2>1, <1>7, PartSame
<1>11. ASSUME NEW ids
       PROVE  Part(plan', ids, n + 1) = Part(plan, ids, n) + Share(plan', ids, n + 1)
  <2>1. n \in 0 .. (n + 1) - 1 /\ n + 1 \in Nat /\ n \in 0 .. n
    BY <1>7
  <2>2. Part(plan', ids, n + 1) = Part(plan', ids, n) + Share(plan', ids, n + 1)
    BY <2>1, <1>9, PartStep
  <2> QED BY <2>1, <2>2, <1>10
<1>12. Part(plan', {}, Len(plan')) <= taker.qty
  <2>1. Share(plan', {}, n + 1) = u.qty
    BY <1>8 DEF Share
  <2>2. Part(plan', {}, n + 1) = Planned + u.qty
    BY <2>1, <1>11, <1>4 DEF n
  <2>3. taker.qty \in Nat
    BY <1>2 DEF Takers
  <2> QED BY <2>2, <2>3, <1>4, <1>6, <1>8
<1>13. ASSUME NEW o \in book PROVE Part(plan', {o.id}, Len(plan')) <= o.qty
  <2>1. PICK m : m = Part(plan, {o.id}, n)
    OBVIOUS
  <2>2. m \in Nat /\ m <= o.qty /\ o.qty \in Nat
    <3>1. n \in 0 .. n
      BY <1>7
    <3> QED BY <3>1, <2>1, <1>0, <1>7, PartSet DEF PlanInv, GroupTypeOK, Orders, n
  <2>3. Open(o) = o.qty - m
    BY <1>0, <2>1, OpenIs DEF n
  <2>4. Part(plan', {o.id}, n + 1) = m + Share(plan', {o.id}, n + 1)
    BY <2>1, <1>11
  <2>5. CASE o.id \in t.makers
    <3>1. Share(plan', {o.id}, n + 1) = u.qty
      BY <2>5, <1>6, <1>8 DEF Share
    <3>2. t.qty <= o.qty - m
      BY <2>3, <2>5, <1>3 DEF Fit
    <3>3. t.qty \in Nat
      BY <1>3 DEF Trades
    <3> QED BY <2>2, <2>4, <3>1, <3>2, <3>3, <1>6, <1>8
  <2>6. CASE o.id \notin t.makers
    <3>1. Share(plan', {o.id}, n + 1) = 0
      BY <2>6, <1>6, <1>8 DEF Share
    <3> QED BY <2>2, <2>4, <3>1, <1>8
  <2> QED BY <2>5, <2>6
<1>14. ASSUME NEW i \in 1 .. n + 1
       PROVE  /\ \A id \in plan'[i].makers : \E o \in book : o.id = id
              /\ Within(taker.price, taker.side, plan'[i].price)
              /\ Covered(taker.eng, taker.side, plan'[i].price, plan'[i].legs)
              /\ \A o \in RestingOn(taker.eng, Opposite(taker.side)) :
                   o.qty > Part(plan', {o.id}, i - 1) =>
                     ~Better(taker.side, o.price, plan'[i].price)
  <2>0. i - 1 \in 0 .. n
    BY <1>7
  <2>1. CASE i \in 1 .. n
    <3>1. plan'[i] = plan[i] /\ \A ids : Part(plan', ids, i - 1) = Part(plan, ids, i - 1)
      BY <2>0, <2>1, <1>8, <1>10
    <3> QED BY <3>1, <2>1, <1>0 DEF PlanInv, n
  <2>2. CASE i = n + 1
    <3>1. plan'[i] = u /\ i - 1 = n
      BY <2>2, <1>7, <1>8
    <3>2. ASSUME NEW o \in RestingOn(taker.eng, Opposite(taker.side)),
                 o.qty > Part(plan', {o.id}, n)
          PROVE  ~Better(taker.side, o.price, t.price)
      <4>1. o \in book
        BY DEF RestingOn
      <4>2. n \in 0 .. n
        BY <1>7
      <4>3. Part(plan', {o.id}, n) = Part(plan, {o.id}, n) /\ Part(plan, {o.id}, n) \in Nat
        BY <4>2, <1>7, <1>10, PartSet
      <4>4. Open(o) = o.qty - Part(plan, {o.id}, n) /\ o.qty \in Nat
        BY <4>1, <1>0, OpenIs DEF n, GroupTypeOK, Orders
      <4>5. Open(o) > 0
        BY <4>3, <4>4, <3>2
      <4> QED BY <4>5, <1>3 DEF Fit
    <3> QED BY <3>1, <3>2, <1>3, <1>6 DEF Fit
  <2>3. i \in 1 .. n \/ i = n + 1
    BY <1>7
  <2> QED BY <2>1, <2>2, <2>3
<1>15. GroupTypeOK'
  BY <1>0, <1>1, <1>8 DEF GroupTypeOK
<1>16. IdInv'
  BY <1>0, <1>1 DEF IdInv
<1>17. PlanInv'
  <2>1. taker.tif = "FOK" /\ ended.left \in {0, ended.qty}
    BY <1>0, <1>1 DEF PlanInv
  <2>2. /\ RestingOn(taker.eng, Opposite(taker.side))' = RestingOn(taker.eng, Opposite(taker.side))
        /\ taker' = taker /\ book' = book /\ pc' = "fok" /\ ended' = ended
    BY <1>1 DEF RestingOn
  <2>3. \A i \in 1 .. Len(plan') : i \in 1 .. n + 1
    BY <1>8
  <2> QED BY <2>1, <2>2, <2>3, <1>2, <1>12, <1>13, <1>14 DEF PlanInv
<1>18. FillsAtBestPrice' /\ ImpliedCoversLegs'
  BY <1>1 DEF GroupInv, FillsAtBestPrice, ImpliedCoversLegs
<1> QED BY <1>15, <1>16, <1>17, <1>18 DEF GroupInv

(* The plan covers the order, and its trades begin.                         *)
LEMMA PlannedKeeps ==
  ASSUME GroupInv, FokPlanned
  PROVE  GroupInv'
<1>0. GroupTypeOK /\ IdInv /\ PlanInv
  BY DEF GroupInv
<1>1. /\ pc = "fok" /\ Planned = taker.qty /\ pc' = "trade"
      /\ UNCHANGED <<book, nextId, taker, plan, fills, ended>>
  BY DEF FokPlanned
<1>2. taker.left = Part(plan, {}, Len(plan)) /\ taker.tif = "FOK"
  BY <1>0, <1>1, PlannedIs DEF PlanInv
<1>3. GroupTypeOK' /\ IdInv'
  BY <1>0, <1>1 DEF GroupTypeOK, IdInv
<1>4. RestingOn(taker.eng, Opposite(taker.side))' = RestingOn(taker.eng, Opposite(taker.side))
  BY <1>1 DEF RestingOn
<1>5. PlanInv'
  BY <1>0, <1>1, <1>2, <1>4 DEF PlanInv
<1>6. FillsAtBestPrice' /\ ImpliedCoversLegs'
  BY <1>1 DEF GroupInv, FillsAtBestPrice, ImpliedCoversLegs
<1> QED BY <1>3, <1>5, <1>6 DEF GroupInv

(* The first record of the plan is traded: its makers have its quantity,    *)
(* and the makers of the others keep what those need.                       *)
LEMMA FokTradeKeeps ==
  ASSUME GroupInv, FokTrade
  PROVE  GroupInv'
<1>0. GroupTypeOK /\ IdInv /\ PlanInv
  BY DEF GroupInv
<1>1. /\ pc = "trade" /\ plan # << >> /\ plan' = Tail(plan)
      /\ Trade(Head(plan), Head(plan).qty)
      /\ UNCHANGED <<nextId, pc, ended>>
  BY DEF FokTrade
<1>2. taker \in Takers
  BY <1>0, <1>1 DEF GroupTypeOK
<1>3. PICK h : h = Head(plan)
  OBVIOUS
<1> DEFINE n == Len(plan)
<1>4. plan \in Seq(Trades) /\ n \in Nat /\ Counted(plan, 1 .. n)
  BY <1>0, PlanCounted DEF GroupTypeOK
<1>5. /\ n \in Nat \ {0} /\ h = plan[1] /\ h \in Trades
      /\ plan' \in Seq(Trades) /\ Len(plan') = n - 1
      /\ \A j \in 1 .. n - 1 : plan'[j] = plan[j + 1]
  <2>1. /\ Head(plan) = plan[1] /\ Head(plan) \in Trades
        /\ Tail(plan) \in Seq(Trades) /\ Len(Tail(plan)) = n - 1
        /\ \A j \in 1 .. n - 1 : Tail(plan)[j] = plan[j + 1]
    BY <1>1, <1>4, HeadTailProperties
  <2>2. n # 0
    BY <1>1, <1>4, EmptySeq
  <2> QED BY <2>1, <2>2, <1>1, <1>3, <1>4
<1>6. PICK q \in Nat \ {0} : q = h.qty
  BY <1>5 DEF Trades
<1>7. Trade(h, q)
  BY <1>1, <1>3, <1>6
<1>8. Counted(plan', 1 .. n - 1)
  <2>1. Counted(plan', 1 .. Len(plan'))
    BY <1>5, PlanCounted
  <2> QED BY <2>1, <1>5
<1>a. n - 1 \in Nat /\ n - 1 \in 0 .. n - 1 /\ n \in 0 .. n
  BY <1>5
<1> DEFINE side == taker.side  opp == RestingOn(taker.eng, Opposite(taker.side))
<1>9. /\ taker.left = Part(plan, {}, n) /\ taker.tif = "FOK"
      /\ \A o \in book : Part(plan, {o.id}, n) <= o.qty
      /\ \A i \in 1 .. n :
           /\ \A id \in plan[i].makers : \E o \in book : o.id = id
           /\ Within(taker.price, side, plan[i].price)
           /\ Covered(taker.eng, side, plan[i].price, plan[i].legs)
           /\ \A o \in opp : o.qty > Part(plan, {o.id}, i - 1) =>
                ~Better(side, o.price, plan[i].price)
      /\ ended.left \in {0, ended.qty}
  BY <1>0, <1>1 DEF PlanInv
<1> HIDE DEF n, side, opp
<1>10. ASSUME NEW ids, NEW i \in 0 .. n - 1
       PROVE  /\ Part(plan, ids, i + 1) = Share(plan, ids, 1) + Part(plan', ids, i)
              /\ Part(plan', ids, i) \in Nat /\ Part(plan, ids, i + 1) \in Nat
              /\ Share(plan, ids, 1) \in Nat
  <2>1. Part(plan, ids, i + 1) = Share(plan, ids, 1) + Part(plan', ids, i)
    BY <1>4, <1>5, PartShift
  <2>2. Part(plan', ids, i) \in Nat
    BY <1>a, <1>8, PartSet
  <2>3. i + 1 \in 0 .. n
    BY <1>5
  <2>4. Part(plan, ids, i + 1) \in Nat
    BY <2>3, <1>4, PartSet
  <2>5. Share(plan, ids, 1) \in Nat
    BY <1>5, <1>6 DEF Share
  <2> QED BY <2>1, <2>2, <2>4, <2>5
<1>11. ASSUME NEW ids PROVE Part(plan, ids, n) = Share(plan, ids, 1) + Part(plan', ids, n - 1)
  <2>1. (n - 1) + 1 = n
    BY <1>5
  <2>2. Part(plan, ids, (n - 1) + 1) = Share(plan, ids, 1) + Part(plan', ids, n - 1)
    BY <1>10, <1>a
  <2> QED BY <2>1, <2>2
<1>12. \A o \in book : Share(plan, {o.id}, 1) = Cut(h, q, o)
  BY <1>5, <1>6 DEF Share, Cut
<1>13. Share(plan, {}, 1) = q
  BY <1>5, <1>6 DEF Share
<1>14. q <= taker.left /\ taker.left - q = Part(plan', {}, n - 1)
  <2>1. Part(plan', {}, n - 1) \in Nat
    BY <1>10, <1>a
  <2> QED BY <2>1, <1>9, <1>11, <1>13
<1>15. \A o \in book : /\ o.qty \in Nat \ {0} /\ Cut(h, q, o) \in Nat
                       /\ Part(plan', {o.id}, n - 1) \in Nat
                       /\ Cut(h, q, o) + Part(plan', {o.id}, n - 1) <= o.qty
  <2> SUFFICES ASSUME NEW o \in book
               PROVE  /\ o.qty \in Nat \ {0} /\ Cut(h, q, o) \in Nat
                      /\ Part(plan', {o.id}, n - 1) \in Nat
                      /\ Cut(h, q, o) + Part(plan', {o.id}, n - 1) <= o.qty
    OBVIOUS
  <2>1. o.qty \in Nat \ {0}
    BY <1>0 DEF GroupTypeOK, Orders
  <2>2. Part(plan, {o.id}, n) = Cut(h, q, o) + Part(plan', {o.id}, n - 1)
    BY <1>11, <1>12
  <2>3. Part(plan', {o.id}, n - 1) \in Nat
    BY <1>10, <1>a
  <2>4. Cut(h, q, o) \in Nat
    BY DEF Cut
  <2> QED BY <2>1, <2>2, <2>3, <2>4, <1>9
<1>16. \A o \in book : o.id \in h.makers => q <= o.qty
  <2> SUFFICES ASSUME NEW o \in book, o.id \in h.makers PROVE q <= o.qty
    OBVIOUS
  <2>1. Cut(h, q, o) = q
    BY DEF Cut
  <2>2. PICK m \in Nat : m = Part(plan', {o.id}, n - 1)
    BY <1>15
  <2>3. q + m <= o.qty /\ o.qty \in Nat
    BY <2>1, <2>2, <1>15
  <2> QED BY <2>3
<1>17. /\ book' \subseteq Orders /\ IsFiniteSet(book')
       /\ \A o \in book' : \E r \in book : Same(o, r) /\ o.qty = r.qty - Cut(h, q, r)
       /\ \A r \in book : r.qty - Cut(h, q, r) > 0 =>
            \E o \in book' : Same(o, r) /\ o.qty = r.qty - Cut(h, q, r)
  BY <1>0, <1>7, <1>16, TradeBook
<1>18. /\ taker' \in Takers /\ taker'.left = taker.left - q
       /\ taker'.eng = taker.eng /\ taker'.side = taker.side
       /\ taker'.price = taker.price /\ taker'.qty = taker.qty /\ taker'.tif = taker.tif
  BY <1>2, <1>7, <1>14, TradeTaker
<1>19. IdInv'
  BY <1>0, <1>1, <1>7, <1>14, <1>16, TradeIds
<1>20. \A o \in opp : ~Better(side, o.price, h.price)
  <2>1. 1 \in 1 .. n /\ 1 - 1 = 0
    BY <1>5
  <2>2. \A o \in opp : o.qty \in Nat \ {0}
    BY <1>15 DEF opp, RestingOn
  <2>3. \A o \in opp : Part(plan, {o.id}, 1 - 1) = 0
    BY <2>1, PartZero
  <2>4. \A o \in opp : o.qty > Part(plan, {o.id}, 1 - 1)
    BY <2>2, <2>3
  <2>5. \A o \in opp : ~Better(side, o.price, plan[1].price)
    BY <2>1, <2>4, <1>9
  <2> QED BY <2>5, <1>5
<1>21. fills' \in Seq(Fills) /\ FillsAtBestPrice' /\ ImpliedCoversLegs'
  <2>1. 1 \in 1 .. n
    BY <1>5
  <2>2. /\ Within(taker.price, taker.side, h.price)
        /\ Covered(taker.eng, taker.side, h.price, h.legs)
    BY <2>1, <1>5, <1>9 DEF side
  <2> QED BY <2>2, <1>2, <1>5, <1>7, <1>20, TradeFills DEF side, opp
<1>22. GroupTypeOK'
  BY <1>0, <1>1, <1>5, <1>17, <1>18, <1>21 DEF GroupTypeOK
<1>23. \A o \in book' : Part(plan', {o.id}, Len(plan')) <= o.qty
  <2> SUFFICES ASSUME NEW o \in book' PROVE Part(plan', {o.id}, n - 1) <= o.qty
    BY <1>5
  <2>1. PICK r \in book : o.id = r.id /\ o.qty = r.qty - Cut(h, q, r)
    BY <1>17 DEF Same
  <2>2. /\ r.qty \in Nat /\ Cut(h, q, r) \in Nat /\ Part(plan', {o.id}, n - 1) \in Nat
        /\ Cut(h, q, r) + Part(plan', {o.id}, n - 1) <= r.qty
    BY <2>1, <1>15
  <2> QED BY <2>1, <2>2
<1>24. ASSUME NEW i \in 1 .. n - 1
       PROVE  /\ \A id \in plan'[i].makers : \E o \in book' : o.id = id
              /\ Within(taker.price, side, plan'[i].price)
              /\ Covered(taker.eng, side, plan'[i].price, plan'[i].legs)
              /\ \A o \in book' : o.eng = taker.eng /\ o.side = Opposite(side) =>
                   (o.qty > Part(plan', {o.id}, i - 1) => ~Better(side, o.price, plan'[i].price))
  <2>0. i + 1 \in 1 .. n /\ i - 1 \in 0 .. n - 1 /\ (i - 1) + 1 = i /\ (i + 1) - 1 = i
    BY <1>5
  <2>1. plan'[i] = plan[i + 1]
    BY <1>5
  <2>2. ASSUME NEW id \in plan'[i].makers PROVE \E o \in book' : o.id = id
    <3>1. PICK r \in book : r.id = id
      BY <2>0, <2>1, <2>2, <1>9
    <3>2. /\ Part(plan', {id}, (i - 1) + 1) = Part(plan', {id}, i - 1) + Share(plan', {id}, (i - 1) + 1)
          /\ Part(plan', {id}, i - 1) \in Nat
      <4>1. i - 1 \in 0 .. (n - 1) - 1
        BY <1>5
      <4>2. Part(plan', {id}, i - 1) \in Nat
        BY <2>0, <1>10
      <4> QED BY <4>1, <4>2, <1>a, <1>8, PartStep
    <3>3. Share(plan', {id}, i) = plan'[i].qty /\ plan'[i].qty \in Nat \ {0}
      <4>1. plan'[i] \in Trades
        BY <2>0, <2>1, <1>4, ElementOfSeq DEF n
      <4> QED BY <4>1, <2>2 DEF Share, Trades
    <3>4. Part(plan', {id}, i) > 0 /\ Part(plan', {id}, i) \in Nat
      BY <2>0, <3>2, <3>3
    <3>5. Part(plan', {id}, i) <= Part(plan', {id}, n - 1)
      <4>1. i \in 0 .. n - 1 /\ n - 1 \in i .. n - 1
        BY <1>5
      <4> QED BY <4>1, <1>a, <1>8, PartGrows
    <3>6. r.qty - Cut(h, q, r) > 0
      <4>1. /\ r.qty \in Nat /\ Cut(h, q, r) \in Nat /\ Part(plan', {id}, n - 1) \in Nat
            /\ Cut(h, q, r) + Part(plan', {id}, n - 1) <= r.qty
        BY <3>1, <1>15
      <4> QED BY <4>1, <3>4, <3>5
    <3> QED BY <3>1, <3>6, <1>17 DEF Same
  <2>3. ASSUME NEW o \in book', o.eng = taker.eng, o.side = Opposite(side),
               o.qty > Part(plan', {o.id}, i - 1)
        PROVE  ~Better(side, o.price, plan'[i].price)
    <3>1. PICK r \in book : Same(o, r) /\ o.qty = r.qty - Cut(h, q, r)
      BY <1>17
    <3>2. r.id = o.id /\ r.price = o.price /\ r \in opp
      BY <2>3, <3>1 DEF Same, opp, RestingOn, side
    <3>3. /\ Part(plan, {r.id}, i) = Cut(h, q, r) + Part(plan', {r.id}, i - 1)
          /\ Part(plan', {r.id}, i - 1) \in Nat
      <4>1. /\ Part(plan, {r.id}, (i - 1) + 1) = Share(plan, {r.id}, 1) + Part(plan', {r.id}, i - 1)
            /\ Part(plan', {r.id}, i - 1) \in Nat
        BY <2>0, <1>10
      <4> QED BY <4>1, <2>0, <1>12
    <3>4. r.qty > Part(plan, {r.id}, i)
      <4>1. r.qty \in Nat /\ Cut(h, q, r) \in Nat
        BY <1>15
      <4>2. r.qty - Cut(h, q, r) > Part(plan', {r.id}, i - 1)
        BY <2>3, <3>1, <3>2
      <4> QED BY <4>1, <4>2, <3>3
    <3>5. ~Better(side, r.price, plan[i + 1].price)
      BY <2>0, <3>2, <3>4, <1>9
    <3> QED BY <3>2, <3>5, <2>1
  <2> QED BY <2>0, <2>1, <2>2, <2>3, <1>9
<1>25. PlanInv'
  <2>1. pc' = "trade" /\ ended'.left \in {0, ended'.qty}
    BY <1>1, <1>9
  <2>2. taker'.tif = "FOK" /\ taker'.left = Part(plan', {}, Len(plan'))
    BY <1>5, <1>9, <1>14, <1>18
  <2>3. \A i \in 1 .. Len(plan') : i \in 1 .. n - 1
    BY <1>5
  <2>4. \A i \in 1 .. Len(plan') :
          \A o \in RestingOn(taker.eng, Opposite(taker.side))' :
            o.qty > Part(plan', {o.id}, i - 1) => ~Better(taker.side, o.price, plan'[i].price)
    BY <2>3, <1>18, <1>24 DEF RestingOn, side
  <2> QED BY <2>1, <2>2, <2>3, <2>4, <1>18, <1>23, <1>24 DEF PlanInv, side
<1> QED BY <1>19, <1>21, <1>22, <1>25 DEF GroupInv

(* The last trade of the plan filled the order.                             *)
LEMMA FokDoneKeeps ==
  ASSUME GroupInv, FokDone
  PROVE  GroupInv'
<1>0. GroupTypeOK /\ IdInv /\ PlanInv
  BY DEF GroupInv
<1>1. pc = "trade" /\ plan = << >> /\ Return /\ UNCHANGED book
  BY DEF FokDone
<1>2. taker.left = 0
  BY <1>0, <1>1, NoPlan DEF PlanInv
<1> QED BY <1>1, <1>2, ReturnSame

(* GroupInv is inductive.                                                   *)
LEMMA GroupNext == GroupInv /\ [Next]_vars => GroupInv'
<1> SUFFICES ASSUME GroupInv, [Next]_vars PROVE GroupInv'
  OBVIOUS
<1>0. GroupTypeOK /\ IdInv /\ PlanInv
  BY DEF GroupInv
<1>1. ASSUME NEW r \in Requests, New(r) PROVE GroupInv'
  BY <1>1, NewKeeps
<1>2. ASSUME NEW o \in book, Cancel(o) PROVE GroupInv'
  BY <1>2, CancelKeeps
<1>3. ASSUME NEW t \in Crossing, MatchTop(t) PROVE GroupInv'
  BY <1>3, MatchKeeps
<1>4. CASE MatchDone \/ CancelMakerOnly \/ CancelRemainder
  <2>1. pc = "match" /\ Return /\ UNCHANGED book
    BY <1>4 DEF MatchDone, CancelMakerOnly, CancelRemainder, Remains
  <2>2. taker.tif # "FOK"
    BY <2>1, <1>0 DEF PlanInv
  <2> QED BY <2>1, <2>2, ReturnSame
<1>5. CASE Reprice
  BY <1>5, RepriceKeeps
<1>6. CASE RestRemainder
  BY <1>6, RestKeeps
<1>7. ASSUME NEW t \in Crossing, FokPlan(t) PROVE GroupInv'
  BY <1>7, PlanKeeps
<1>8. CASE FokKill
  <2>1. pc = "fok" /\ Return /\ UNCHANGED book
    BY <1>8 DEF FokKill
  <2>2. taker.left = taker.qty
    BY <2>1, <1>0 DEF PlanInv
  <2> QED BY <2>1, <2>2, ReturnSame
<1>9. CASE FokPlanned
  BY <1>9, PlannedKeeps
<1>10. CASE FokTrade
  BY <1>10, FokTradeKeeps
<1>11. CASE FokDone
  BY <1>11, FokDoneKeeps
<1>12. CASE UNCHANGED vars
  <2>1. /\ book' = book /\ nextId' = nextId /\ taker' = taker /\ plan' = plan /\ pc' = pc
        /\ fills' = fills /\ ended' = ended
    BY <1>12 DEF vars
  <2>2. GroupTypeOK' /\ IdInv'
    BY <1>0, <2>1 DEF GroupTypeOK, IdInv
  <2>3. RestingOn(taker.eng, Opposite(taker.side))' = RestingOn(taker.eng, Opposite(taker.side))
    BY <2>1 DEF RestingOn
  <2>4. PlanInv'
    BY <1>0, <2>1, <2>3 DEF PlanInv
  <2>5. FillsAtBestPrice' /\ ImpliedCoversLegs'
    BY <2>1 DEF GroupInv, FillsAtBestPrice, ImpliedCoversLegs
  <2> QED BY <2>2, <2>4, <2>5 DEF GroupInv
<1> QED BY <1>1, <1>2, <1>3, <1>4, <1>5, <1>6, <1>7, <1>8, <1>9, <1>10, <1>11, <1>12
        DEF Next, Step

(* What the matcher with impliers relies on, always.                        *)
THEOREM GroupInductive == Spec => []GroupInv
  BY GroupInit, GroupNext, PTL DEF Spec

(* A taker never trades beyond its limit, nor at a worse price than an      *)
(* order that waits in its own engine's book at that moment, be it met at   *)
(* once or planned first (matcher::top, matcher::fok_match).                *)
THEOREM FillsAtBestPriceHolds == Spec => []FillsAtBestPrice
<1>1. GroupInv => FillsAtBestPrice
  BY DEF GroupInv
<1> QED BY <1>1, GroupInductive, PTL

(* An implied fill never costs the exchange, for every rule, sign of the    *)
(* prices, commission and tick; for repo_out it may cost the fraction that  *)
(* is dropped.                                                              *)
THEOREM ImpliedCoversLegsHolds == Spec => []ImpliedCoversLegs
<1>1. GroupInv => ImpliedCoversLegs
  BY DEF GroupInv
<1> QED BY <1>1, GroupInductive, PTL

(* What fok_match has planned can be traded, and a fill-or-kill order ends  *)
(* filled or untouched.                                                     *)
THEOREM PlanHoldsAlways == Spec => []PlanHolds
<1>1. GroupInv => PlanHolds
  <2> SUFFICES ASSUME GroupInv PROVE PlanHolds
    OBVIOUS
  <2>0. GroupTypeOK /\ PlanInv
    BY DEF GroupInv
  <2>1. ASSUME NEW o \in book PROVE o.qty > 0 /\ Open(o) >= 0
    <3>1. o.qty \in Nat \ {0}
      BY <2>0 DEF GroupTypeOK, Orders
    <3>2. Open(o) = o.qty - Part(plan, {o.id}, Len(plan)) /\ Open(o) \in Int
      BY <2>0, OpenIs
    <3>3. Part(plan, {o.id}, Len(plan)) <= o.qty /\ Part(plan, {o.id}, Len(plan)) \in Nat
      <4>1. Len(plan) \in Nat /\ Counted(plan, 1 .. Len(plan))
        BY <2>0, PlanCounted DEF GroupTypeOK
      <4>2. Len(plan) \in 0 .. Len(plan)
        BY <4>1
      <4> QED BY <4>1, <4>2, <2>0, PartSet DEF PlanInv
    <3> QED BY <3>1, <3>2, <3>3
  <2>2. \A i \in DOMAIN plan : plan[i].makers \subseteq {o.id : o \in book}
    <3>1. DOMAIN plan = 1 .. Len(plan)
      BY <2>0, PlanCounted DEF GroupTypeOK
    <3> QED BY <3>1, <2>0 DEF PlanInv
  <2>3. ended.left \in {0, ended.qty}
    BY <2>0 DEF PlanInv
  <2> QED BY <2>1, <2>2, <2>3 DEF PlanHolds
<1> QED BY <1>1, GroupInductive, PTL

-----------------------------------------------------------------------------
(* Prices of linked legs.                                                   *)

(* Rounding keeps the order of prices.                                      *)
LEMMA RoundMono ==
  ASSUME NEW p \in Int, NEW q \in Int, NEW t \in Nat \ {0}, p <= q
  PROVE  round_down(p, t) <= round_down(q, t) /\ round_up(p, t) <= round_up(q, t)
<1>1. ASSUME NEW x \in Int, NEW y \in Int, x <= y
      PROVE  round_down(x, t) <= round_down(y, t)
  <2>1. PICK k \in Int : round_down(x, t) = k * t
    BY RoundDownOnGrid
  <2>2. PICK m \in Int : round_down(y, t) = m * t
    BY RoundDownOnGrid
  <2>3. k * t <= x /\ y < m * t + t
    BY <2>1, <2>2, RoundDownClose
  <2>4. CASE k <= m
    BY <2>1, <2>2, <2>4, ScaleUp
  <2>5. CASE m + 1 <= k
    <3>1. (m + 1) * t <= k * t
      BY <2>5, ScaleUp
    <3>2. (m + 1) * t = m * t + t
      OBVIOUS
    <3>3. k * t \in Int /\ m * t \in Int
      OBVIOUS
    <3> QED BY <3>1, <3>2, <3>3, <2>3, <1>1
  <2> QED BY <2>4, <2>5
<1>2. round_down(-q, t) <= round_down(-p, t)
  <2>1. -p \in Int /\ -q \in Int /\ -q <= -p
    OBVIOUS
  <2> QED BY <2>1, <1>1
<1>3. /\ round_down(-q, t) \in Int /\ round_down(-p, t) \in Int
      /\ round_up(p, t) = -round_down(-p, t) /\ round_up(q, t) = -round_down(-q, t)
  <2>1. -p \in Int /\ -q \in Int
    OBVIOUS
  <2>2. round_down(-q, t) \in Int /\ round_down(-p, t) \in Int
    BY <2>1, RoundDownClose
  <2>3. round_up(p, t) = -round_down(-p, t) /\ round_up(q, t) = -round_down(-q, t)
    BY RoundMirror
  <2> QED BY <2>2, <2>3
<1> QED BY <1>1, <1>2, <1>3

(* A multiple of the tick below a rounded price is below the price, and one *)
(* less than a tick above another is not above it.                          *)
LEMMA GridBelow ==
  ASSUME NEW r \in Int, NEW t \in Nat \ {0}, round_down(r, t) = r, NEW p \in Int
  PROVE  /\ r < round_up(p, t) => r < p
         /\ r > round_down(p, t) => r > p
         /\ round_down(p, t) = p /\ r < p + t => r <= p
         /\ round_down(p, t) = p /\ r > p - t => r >= p
<1>1. PICK k \in Int : r = k * t
  BY RoundDownOnGrid
<1>2. ASSUME NEW q \in Int, round_down(q, t) = q, r < q + t PROVE r <= q
  <2>1. PICK m \in Int : q = m * t
    BY <1>2, RoundDownOnGrid
  <2>2. CASE k <= m
    BY <1>1, <2>1, <2>2, ScaleUp
  <2>3. CASE m + 1 <= k
    <3>1. (m + 1) * t <= k * t
      BY <2>3, ScaleUp
    <3>2. (m + 1) * t = m * t + t
      OBVIOUS
    <3> QED BY <3>1, <3>2, <1>1, <1>2, <2>1
  <2> QED BY <2>2, <2>3
<1>3. ASSUME NEW q \in Int, round_down(q, t) = q, r > q - t PROVE r >= q
  <2>1. PICK m \in Int : q = m * t
    BY <1>3, RoundDownOnGrid
  <2>2. CASE m <= k
    BY <1>1, <2>1, <2>2, ScaleUp
  <2>3. CASE k + 1 <= m
    <3>1. (k + 1) * t <= m * t
      BY <2>3, ScaleUp
    <3>2. (k + 1) * t = k * t + t
      OBVIOUS
    <3> QED BY <3>1, <3>2, <1>1, <1>3, <2>1
  <2> QED BY <2>2, <2>3
<1>4. /\ round_down(r, t) \in Int /\ round_down(p, t) \in Int
      /\ round_down(p, t) <= p /\ p < round_down(p, t) + t
      /\ round_up(p, t) \in Int /\ p <= round_up(p, t) /\ round_up(p, t) < p + t
  BY RoundDownClose, RoundUpClose
<1>5. ASSUME r >= p PROVE round_up(p, t) <= r
  <2>1. round_up(p, t) <= round_up(r, t)
    BY <1>5, RoundMono
  <2>2. round_up(r, t) = -round_down(-r, t)
    BY RoundMirror
  <2>3. Rem(r, t) = 0
    <3>1. Rem(r, t) \in Int /\ -t < Rem(r, t) /\ Rem(r, t) < t
      BY RemRange
    <3> QED BY <3>1 DEF round_down
  <2>4. round_up(r, t) = r
    BY <2>3 DEF round_up
  <2> QED BY <2>1, <2>4
<1>6. ASSUME r <= p PROVE r <= round_down(p, t)
  BY <1>6, RoundMono
<1> QED BY <1>2, <1>3, <1>4, <1>5, <1>6

(* A rounded price is a multiple of the tick.                               *)
LEMMA RoundedOnGrid ==
  ASSUME NEW p \in Int, NEW t \in Nat \ {0}
  PROVE  /\ round_down(round_down(p, t), t) = round_down(p, t)
         /\ round_down(round_up(p, t), t) = round_up(p, t)
         /\ round_down(p, t) = p =>
              round_down(p + t, t) = p + t /\ round_down(p - t, t) = p - t
<1>1. ASSUME NEW k \in Int PROVE round_down(k * t, t) = k * t
  <2>0. PICK x \in Int : x = k * t
    OBVIOUS
  <2>1. PICK m \in Int : round_down(x, t) = m * t
    BY RoundDownOnGrid
  <2>2. m * t <= k * t /\ k * t < m * t + t
    BY <2>0, <2>1, RoundDownClose
  <2>3. CASE m = k
    BY <2>0, <2>1, <2>3
  <2>4. CASE m + 1 <= k
    <3>1. (m + 1) * t <= k * t /\ (m + 1) * t = m * t + t
      BY <2>4, ScaleUp
    <3> QED BY <3>1, <2>2
  <2>5. CASE k + 1 <= m
    <3>1. (k + 1) * t <= m * t /\ (k + 1) * t = k * t + t
      BY <2>5, ScaleUp
    <3> QED BY <3>1, <2>2
  <2> QED BY <2>3, <2>4, <2>5
<1>2. PICK k \in Int : round_down(p, t) = k * t
  BY RoundDownOnGrid
<1>3. PICK m \in Int : round_down(-p, t) = m * t
  <2>1. -p \in Int
    OBVIOUS
  <2> QED BY <2>1, RoundDownOnGrid
<1>4. round_up(p, t) = (-m) * t
  BY <1>3, RoundMirror
<1>5. round_down(p, t) = p => p + t = (k + 1) * t /\ p - t = (k - 1) * t
  BY <1>2
<1>6. -m \in Int /\ k + 1 \in Int /\ k - 1 \in Int
  OBVIOUS
<1> QED BY <1>1, <1>2, <1>4, <1>5, <1>6

(* A commission of no more than the price changes by no more than the price *)
(* does.                                                                    *)
LEMMA PipsSlope ==
  ASSUME NEW p \in Int, NEW q \in Int, NEW pips \in Nat, p <= q, pips <= 10000
  PROVE  /\ handle_pips(q, pips) - handle_pips(p, pips) <= q - p
         /\ handle_pips(p, pips) - handle_pips(q, pips) <= q - p
<1>1. ASSUME NEW x \in Nat, NEW y \in Nat, x <= y
      PROVE  /\ (x * pips) \div 10000 \in Nat /\ (y * pips) \div 10000 \in Nat
             /\ (x * pips) \div 10000 <= (y * pips) \div 10000
             /\ (y * pips) \div 10000 - (x * pips) \div 10000 <= y - x
  <2>1. PICK a \in Nat : a = x * pips
    OBVIOUS
  <2>2. PICK b \in Nat : b = y * pips
    OBVIOUS
  <2>3. a <= b
    BY <2>1, <2>2, <1>1, ScaleUp
  <2>4. b - a <= (y - x) * 10000
    <3>1. pips * (y - x) <= 10000 * (y - x)
      <4>1. y - x \in Nat
        BY <1>1
      <4> QED BY <4>1, ScaleUp
    <3>2. b - a = pips * (y - x)
      BY <2>1, <2>2
    <3> QED BY <3>1, <3>2
  <2>5. /\ a \div 10000 \in Nat /\ a = 10000 * (a \div 10000) + (a % 10000)
        /\ (a % 10000) \in 0 .. 9999
    BY NatDivision, NatRemainder
  <2>6. /\ b \div 10000 \in Nat /\ b = 10000 * (b \div 10000) + (b % 10000)
        /\ (b % 10000) \in 0 .. 9999
    BY NatDivision, NatRemainder
  <2>7. PICK c \in Nat : c = a \div 10000
    BY <2>5
  <2>8. PICK d \in Nat : d = b \div 10000
    BY <2>6
  <2>9. PICK u : u = a % 10000
    OBVIOUS
  <2>10. PICK v : v = b % 10000
    OBVIOUS
  <2>a. /\ a = 10000 * c + u /\ b = 10000 * d + v
        /\ u \in 0 .. 9999 /\ v \in 0 .. 9999
    BY <2>5, <2>6, <2>7, <2>8, <2>9, <2>10
  <2>11. c <= d
    BY ONLY <2>3, <2>a
  <2>12. d - c <= y - x
    <3>1. PICK w \in Nat : w = y - x
      BY <1>1
    <3>2. b - a <= w * 10000
      BY <2>4, <3>1
    <3>3. d - c <= w
      BY ONLY <3>2, <2>a
    <3> QED BY <3>1, <3>3
  <2> QED BY <2>1, <2>2, <2>7, <2>8, <2>11, <2>12
<1>2. \A x \in Nat : handle_pips(x, pips) = (x * pips) \div 10000
  BY DEF handle_pips, Quot, Abs
<1>3. \A x \in Nat : handle_pips(-x, pips) = (x * pips) \div 10000
  BY DEF handle_pips, Quot, Abs
<1>4. CASE p >= 0
  <2>1. p \in Nat /\ q \in Nat
    BY <1>4
  <2> QED BY <2>1, <1>1, <1>2
<1>5. CASE q <= 0
  <2>1. PICK x \in Nat : x = -q
    BY <1>5
  <2>2. PICK y \in Nat : y = -p
    BY <1>5
  <2>3. x <= y /\ p = -y /\ q = -x
    BY <2>1, <2>2
  <2>4. /\ handle_pips(p, pips) = (y * pips) \div 10000
        /\ handle_pips(q, pips) = (x * pips) \div 10000
    BY <2>3, <1>3
  <2>5. PICK c \in Nat : c = (x * pips) \div 10000
    BY <1>1, <2>3
  <2>6. PICK d \in Nat : d = (y * pips) \div 10000
    BY <1>1, <2>3
  <2>7. c <= d /\ d - c <= y - x
    BY <1>1, <2>3, <2>5, <2>6
  <2> QED BY ONLY <2>3, <2>4, <2>5, <2>6, <2>7
<1>6. CASE p < 0 /\ q > 0
  <2>1. PICK y \in Nat : y = -p
    BY <1>6
  <2>2. p = -y /\ q \in Nat
    BY <2>1, <1>6
  <2>3. /\ handle_pips(p, pips) <= y /\ handle_pips(p, pips) \in Nat
        /\ handle_pips(q, pips) <= q /\ handle_pips(q, pips) \in Nat
    <3>1. \A x \in Nat : (x * pips) \div 10000 \in Nat /\ (x * pips) \div 10000 <= x
      <4>1. 0 \in Nat /\ (0 * pips) \div 10000 \in Nat
        BY <1>1
      <4>2. (0 * pips) \div 10000 = 0
        BY SMT
      <4>3. \A x \in Nat : 0 <= x
        OBVIOUS
      <4> QED BY <4>1, <4>2, <4>3, <1>1
    <3>2. /\ handle_pips(p, pips) = (y * pips) \div 10000
          /\ handle_pips(q, pips) = (q * pips) \div 10000
      BY <2>2, <1>2, <1>3
    <3>3. /\ (y * pips) \div 10000 \in Nat /\ (y * pips) \div 10000 <= y
          /\ (q * pips) \div 10000 \in Nat /\ (q * pips) \div 10000 <= q
      BY <3>1, <2>2
    <3> QED BY <3>2, <3>3
  <2> QED BY <2>2, <2>3
<1> QED BY <1>4, <1>5, <1>6

(* A dearer first leg or a cheaper second one makes a spread dearer, the    *)
(* commission and the rounding included.                                    *)
LEMMA MinusMono ==
  ASSUME NEW p1 \in Int, NEW p2 \in Int, NEW q1 \in Int, NEW q2 \in Int,
         NEW pips \in Nat, NEW t \in Nat \ {0}, pips <= 10000, p1 <= q1, q2 <= p2
  PROVE  /\ minus_ask(p1, p2, pips, t) \in Int /\ minus_bid(p1, p2, pips, t) \in Int
         /\ minus_ask(p1, p2, pips, t) <= minus_ask(q1, q2, pips, t)
         /\ minus_bid(p1, p2, pips, t) <= minus_bid(q1, q2, pips, t)
<1>1. PICK a \in Nat : a = handle_pips(p1, pips)
  BY PipsNat
<1>2. PICK b \in Nat : b = handle_pips(p2, pips)
  BY PipsNat
<1>3. PICK c \in Nat : c = handle_pips(q1, pips)
  BY PipsNat
<1>4. PICK d \in Nat : d = handle_pips(q2, pips)
  BY PipsNat
<1>5. c - a <= q1 - p1 /\ a - c <= q1 - p1
  BY <1>1, <1>3, PipsSlope
<1>6. b - d <= p2 - q2 /\ d - b <= p2 - q2
  BY <1>2, <1>4, PipsSlope
<1>7. PICK m \in Int : m = p1 - p2 + (a + b)
  OBVIOUS
<1>8. PICK n \in Int : n = q1 - q2 + (c + d)
  OBVIOUS
<1>9. PICK u \in Int : u = p1 - p2 - (a + b)
  OBVIOUS
<1>10. PICK v \in Int : v = q1 - q2 - (c + d)
  OBVIOUS
<1>11. m <= n /\ u <= v
  BY <1>5, <1>6, <1>7, <1>8, <1>9, <1>10
<1>12. /\ minus_ask(p1, p2, pips, t) = round_up(m, t)
       /\ minus_ask(q1, q2, pips, t) = round_up(n, t)
       /\ minus_bid(p1, p2, pips, t) = round_down(u, t)
       /\ minus_bid(q1, q2, pips, t) = round_down(v, t)
  BY <1>1, <1>2, <1>3, <1>4, <1>7, <1>8, <1>9, <1>10 DEF minus_ask, minus_bid, Commission
<1>13. round_up(m, t) <= round_up(n, t) /\ round_down(u, t) <= round_down(v, t)
  BY <1>11, RoundMono
<1>14. round_up(m, t) \in Int /\ round_down(u, t) \in Int
  BY RoundUpClose, RoundDownClose
<1> QED BY <1>12, <1>13, <1>14

\* A spread with this commission and tick is never cheaper than its legs, nor
\* made cheaper by a dearer first leg or a cheaper second one.
Fair(pips, t) ==
  /\ \A p1, p2 \in Int :
       /\ minus_ask(p1, p2, pips, t) \in Int /\ minus_bid(p1, p2, pips, t) \in Int
       /\ minus_ask(p1, p2, pips, t) >= p1 - p2 /\ minus_bid(p1, p2, pips, t) <= p1 - p2
  /\ \A p1, p2, q1, q2 \in Int :
       p1 <= q1 /\ q2 <= p2 =>
         /\ minus_ask(p1, p2, pips, t) <= minus_ask(q1, q2, pips, t)
         /\ minus_bid(p1, p2, pips, t) <= minus_bid(q1, q2, pips, t)

(* So it is if the commission is no more than the price.                    *)
LEMMA MinusOrder ==
  ASSUME NEW pips \in Nat, NEW t \in Nat \ {0}, pips <= 10000
  PROVE  Fair(pips, t)
<1>1. ASSUME NEW p1 \in Int, NEW p2 \in Int
      PROVE  /\ minus_ask(p1, p2, pips, t) \in Int /\ minus_bid(p1, p2, pips, t) \in Int
             /\ minus_ask(p1, p2, pips, t) >= p1 - p2 /\ minus_bid(p1, p2, pips, t) <= p1 - p2
  <2>1. p1 <= p1 /\ p2 <= p2
    OBVIOUS
  <2>2. minus_ask(p1, p2, pips, t) \in Int /\ minus_bid(p1, p2, pips, t) \in Int
    BY <2>1, MinusMono
  <2>3. minus_ask(p1, p2, pips, t) >= p1 - p2 /\ minus_bid(p1, p2, pips, t) <= p1 - p2
    BY SpreadCoversLegs
  <2> QED BY <2>2, <2>3
<1>2. ASSUME NEW p1 \in Int, NEW p2 \in Int, NEW q1 \in Int, NEW q2 \in Int,
             p1 <= q1, q2 <= p2
      PROVE  /\ minus_ask(p1, p2, pips, t) <= minus_ask(q1, q2, pips, t)
             /\ minus_bid(p1, p2, pips, t) <= minus_bid(q1, q2, pips, t)
  BY <1>2, MinusMono
<1> QED BY <1>1, <1>2 DEF Fair

(* Without a commission the legs' price is only rounded.                    *)
LEMMA NoPips ==
  ASSUME NEW p1 \in Int, NEW p2 \in Int, NEW t
  PROVE  /\ add_ask(p1, p2, 0, t) = round_up(p1 + p2, t)
         /\ add_bid(p1, p2, 0, t) = round_down(p1 + p2, t)
         /\ minus_ask(p1, p2, 0, t) = round_up(p1 - p2, t)
         /\ minus_bid(p1, p2, 0, t) = round_down(p1 - p2, t)
<1>1. ASSUME NEW p \in Int PROVE handle_pips(p, 0) = 0
  <2>1. Abs(p) \in Int
    BY DEF Abs
  <2>2. Abs(p) * 0 = 0
    BY <2>1
  <2>3. 0 \div 10000 = 0
    BY SMT
  <2> QED BY <2>2, <2>3 DEF handle_pips, Quot
<1>2. Commission(p1, p2, 0) = 0
  BY <1>1 DEF Commission
<1>3. p1 + p2 + 0 = p1 + p2 /\ p1 + p2 - 0 = p1 + p2 /\ p1 - p2 + 0 = p1 - p2 /\ p1 - p2 - 0 = p1 - p2
  OBVIOUS
<1> QED BY <1>2, <1>3 DEF add_ask, add_bid, minus_ask, minus_bid

-----------------------------------------------------------------------------
(* The books of a group stay uncrossed.                                     *)

IsLeg(l) == \E e \in Engines : Linked(e) /\ l \in {Legs[e][1], Legs[e][2]}

\* The orders in the books of legs keep to the tick, as their sender did.
TickInv ==
  /\ \A o \in book : IsLeg(o.eng) => OnTick(o.eng, o.price)
  /\ pc # "idle" /\ IsLeg(taker.eng) =>
       taker.price = MARKET_PRICE \/ OnTick(taker.eng, taker.price)

\* No engine's own book is crossed.
OwnInv ==
  \A b, a \in book : b.eng = a.eng /\ b.side = "BUY" /\ a.side = "SELL" => b.price < a.price

\* No order of a spread and no two of its legs, the best or not, can trade.
Apart(e, s, x, y) ==
  /\ s.side = "BUY" /\ x.side = "SELL" /\ y.side = "BUY" =>
       s.price < minus_ask(x.price, y.price, Pips[e], Tick[e])
  /\ s.side = "SELL" /\ x.side = "BUY" /\ y.side = "SELL" =>
       s.price > minus_bid(x.price, y.price, Pips[e], Tick[e])

LegsInv ==
  \A e \in Engines : Linked(e) =>
    \A s, x, y \in book :
      s.eng = e /\ x.eng = Legs[e][1] /\ y.eng = Legs[e][2] => Apart(e, s, x, y)

ApartInv == TickInv /\ OwnInv /\ LegsInv

(* What the hypothesis says of a spread and its legs.                       *)
LEMMA LinkedGroup ==
  ASSUME SpreadGroups, NEW e \in Engines, Linked(e), NEW a, NEW b,
         a = Legs[e][1], b = Legs[e][2]
  PROVE  /\ a \in Engines /\ b \in Engines /\ a # e /\ b # e /\ a # b
         /\ Rule[e] = "in" /\ Legs[e] = <<a, b>>
         /\ Rule[a] = "a_out" /\ Legs[a] = <<e, b>> /\ Pips[a] = 0
         /\ Rule[b] = "b_out" /\ Legs[b] = <<a, e>> /\ Pips[b] = 0
         /\ Pips[e] \in Nat /\ Pips[e] <= 10000
         /\ Tick[e] \in Nat \ {0} /\ Tick[a] \in Nat \ {0} /\ Tick[b] \in Nat \ {0}
         /\ IsLeg(a) /\ IsLeg(b) /\ ~IsLeg(e)
<1>1. Rule[e] = "in" /\ Rule[e] # "none"
  BY DEF Linked
<1>2. Legs[e] \in Engines \X Engines /\ Cardinality({e, a, b}) = 3
  BY <1>1, GroupAssumption
<1>3. a \in Engines /\ b \in Engines /\ Legs[e] = <<a, b>>
  BY <1>2
<1>4. a # e /\ b # e /\ a # b
  <2>1. \A u, v : IsFiniteSet({u, v}) /\ Cardinality({u, v}) \in Nat /\ Cardinality({u, v}) < 3
    <3> SUFFICES ASSUME NEW u, NEW v
                 PROVE  /\ IsFiniteSet({u, v}) /\ Cardinality({u, v}) \in Nat
                        /\ Cardinality({u, v}) < 3
      OBVIOUS
    <3>1. IsFiniteSet({u}) /\ Cardinality({u}) = 1
      BY FS_Singleton
    <3>2. IsFiniteSet({u} \cup {v}) /\ Cardinality({u} \cup {v}) \in {1, 2}
      BY <3>1, FS_AddElement
    <3>3. {u} \cup {v} = {u, v}
      OBVIOUS
    <3> QED BY <3>2, <3>3
  <2>2. Cardinality({e, b}) # 3 /\ Cardinality({e, a}) # 3
    <3>1. \A u, v : Cardinality({u, v}) # 3
      <4> SUFFICES ASSUME NEW u, NEW v PROVE Cardinality({u, v}) # 3
        OBVIOUS
      <4>1. PICK n : n = Cardinality({u, v})
        OBVIOUS
      <4>2. n \in Nat /\ n < 3
        BY <2>1, <4>1
      <4>3. n # 3
        BY ONLY <4>2
      <4> QED BY <4>1, <4>3
    <3> QED BY <3>1
  <2>3. /\ a = e => {e, a, b} = {e, b}
        /\ b = e => {e, a, b} = {e, a}
        /\ a = b => {e, a, b} = {e, a}
    OBVIOUS
  <2> QED BY <1>2, <2>2, <2>3
<1>5. /\ Rule[a] = "a_out" /\ Legs[a] = <<e, b>> /\ Rule[b] = "b_out" /\ Legs[b] = <<a, e>>
      /\ Pips[e] <= 10000 /\ Pips[a] = 0 /\ Pips[b] = 0
  BY DEF SpreadGroups
<1>6. \A l \in Engines : Tick[l] \in Nat \ {0} /\ Pips[l] \in Nat
  BY GroupAssumption
<1>7. IsLeg(a) /\ IsLeg(b)
  BY DEF IsLeg
<1>8. ~IsLeg(e)
  <2>1. \A l : IsLeg(l) => Rule[l] \in {"a_out", "b_out"}
    BY DEF IsLeg, SpreadGroups
  <2> QED BY <1>1, <2>1
<1> QED BY <1>1, <1>3, <1>4, <1>5, <1>6, <1>7, <1>8

(* A leg has ticks, no commission, and the rule of one of the two legs.     *)
LEMMA LegIs ==
  ASSUME SpreadGroups, NEW l, IsLeg(l)
  PROVE  /\ l \in Engines /\ Tick[l] \in Nat \ {0} /\ Pips[l] = 0
         /\ Rule[l] \in {"a_out", "b_out"}
<1>1. PICK e \in Engines : Linked(e) /\ l \in {Legs[e][1], Legs[e][2]}
  BY DEF IsLeg
<1> QED BY <1>1, LinkedGroup

(* Orders and the prices at the front of a book.                            *)
LEMMA FrontPrice ==
  ASSUME GroupTypeOK, IdInv, NEW e, NEW side \in Sides
  PROVE  /\ \A o \in Front(e, side) :
              o \in book /\ o.eng = e /\ o.side = Opposite(side) /\ o.price \in Int
         /\ \A o, r \in Front(e, side) : o.price = r.price
<1>1. \A o \in Front(e, side) :
        o \in book /\ o.eng = e /\ o.side = Opposite(side) /\ Open(o) > 0
  BY FrontIs
<1>2. \A o \in Front(e, side) : o.price \in Int
  BY <1>1 DEF GroupTypeOK, Orders
<1>3. ASSUME NEW o \in Front(e, side), NEW r \in Front(e, side) PROVE o.price = r.price
  <2>1. o \in RestingOn(e, Opposite(side)) /\ r \in RestingOn(e, Opposite(side))
    BY <1>1 DEF RestingOn
  <2>2. ~Better(side, r.price, o.price) /\ ~Better(side, o.price, r.price)
    BY <2>1, <1>1, FrontIs
  <2> QED BY <2>2, <1>2 DEF Better
<1> QED BY <1>1, <1>2, <1>3

(* In a call that is matching every order is open, and the front of a book  *)
(* has no order before it.                                                  *)
LEMMA FrontBest ==
  ASSUME GroupTypeOK, IdInv, PlanInv, pc = "match", NEW e, NEW side \in Sides,
         NEW r \in book, r.eng = e, r.side = Opposite(side)
  PROVE  \E o \in Front(e, side) :
           /\ o \in book /\ o.eng = e /\ o.side = Opposite(side) /\ o.price \in Int
           /\ ~Better(side, r.price, o.price)
<1>1. plan = << >>
  BY DEF PlanInv
<1>2. \A o \in book : Open(o) > 0
  <2> SUFFICES ASSUME NEW o \in book PROVE Open(o) > 0
    OBVIOUS
  <2>1. Part(plan, {o.id}, Len(plan)) = 0
    BY <1>1, NoPlan
  <2>2. Open(o) = o.qty - 0 /\ o.qty \in Nat \ {0}
    BY <2>1, OpenIs DEF GroupTypeOK, Orders
  <2> QED BY <2>2
<1>3. r \in RestingOn(e, Opposite(side))
  BY DEF RestingOn
<1>4. PICK o \in Front(e, side) : TRUE
  BY <1>2, <1>3, FrontIs
<1>5. ~Better(side, r.price, o.price)
  BY <1>2, <1>3, <1>4, FrontIs
<1> QED BY <1>4, <1>5, FrontPrice

\* An implied order is made of orders in these books, at least as good as these.
Met(e, side, a, b, s1, s2, x, y) ==
  \E f, g \in book :
    /\ f.eng = a /\ f.side = Opposite(s1) /\ f.price \in Int
    /\ g.eng = b /\ g.side = Opposite(s2) /\ g.price \in Int
    /\ ~Better(s1, x.price, f.price) /\ ~Better(s2, y.price, g.price)
    /\ \E i \in Implied(e, side) :
         i.price = Behind(e, side, matchd_price(e, side, f.price, g.price))

(* Two orders of the legs' books are met by an implied order that is made   *)
(* of orders at least as good.                                              *)
LEMMA ImpliedMet ==
  ASSUME GroupTypeOK, IdInv, PlanInv, pc = "match", NEW e, NEW side, Rule[e] # "none",
         NEW a, NEW b, Legs[e] = <<a, b>>,
         NEW s1 \in Sides, NEW s2 \in Sides, LegSides(e, side) = <<s1, s2>>,
         NEW x \in book, x.eng = a, x.side = Opposite(s1),
         NEW y \in book, y.eng = b, y.side = Opposite(s2)
  PROVE  Met(e, side, a, b, s1, s2, x, y)
<1>1. PICK f \in Front(a, s1) :
        /\ f \in book /\ f.eng = a /\ f.side = Opposite(s1) /\ f.price \in Int
        /\ ~Better(s1, x.price, f.price)
  BY FrontBest
<1>2. PICK g \in Front(b, s2) :
        /\ g \in book /\ g.eng = b /\ g.side = Opposite(s2) /\ g.price \in Int
        /\ ~Better(s2, y.price, g.price)
  BY FrontBest
<1>3. <<f, g>> \in LegPairs(e, side)
  BY DEF LegPairs
<1>4. PICK l : l = <<f, g>>
  OBVIOUS
<1>5. PICK i : i = [price  |-> Behind(e, side, matchd_price(e, side, l[1].price, l[2].price)),
                    qty    |-> Min2(Open(l[1]), Open(l[2])),
                    makers |-> {l[1].id, l[2].id},
                    legs   |-> <<l[1].price, l[2].price>>]
  OBVIOUS
<1>6. i \in Implied(e, side)
  BY <1>3, <1>4, <1>5 DEF Implied
<1>7. i.price = Behind(e, side, matchd_price(e, side, f.price, g.price))
  BY <1>4, <1>5
<1> QED BY <1>1, <1>2, <1>6, <1>7 DEF Met

\* The implied price is moved next to an order of the taker's own side.
Moved(e, side, price) ==
  \E r, o \in book :
    /\ r.eng = e /\ r.side = side /\ Better(side, price, r.price)
    /\ o.eng = e /\ o.side = side /\ o.price \in Int
    /\ Behind(e, side, price) = IF side = "BUY" THEN o.price + Tick[e]
                                                ELSE o.price - Tick[e]

(* An implied price is moved next to an order of the taker's own side, or   *)
(* not at all.                                                              *)
LEMMA BehindCases ==
  ASSUME GroupTypeOK, IdInv, NEW e, NEW side \in Sides, NEW price
  PROVE  Behind(e, side, price) = price \/ Moved(e, side, price)
<1>0. Opposite(side) \in Sides /\ Opposite(Opposite(side)) = side
  BY DEF Opposite, Sides
<1>1. \A o \in Front(e, Opposite(side)) :
        o \in book /\ o.eng = e /\ o.side = side /\ o.price \in Int
  BY <1>0, FrontPrice
<1>2. CASE \E o \in Front(e, Opposite(side)) : Better(side, price, o.price)
  <2>1. PICK r \in Front(e, Opposite(side)) : Better(side, price, r.price)
    BY <1>2
  <2>2. PICK o : o = CHOOSE u \in Front(e, Opposite(side)) : TRUE
    OBVIOUS
  <2>3. o \in Front(e, Opposite(side))
    BY <2>1, <2>2
  <2>4. Behind(e, side, price) = IF side = "BUY" THEN o.price + Tick[e] ELSE o.price - Tick[e]
    BY <1>2, <2>2 DEF Behind
  <2> QED BY <1>1, <2>1, <2>3, <2>4 DEF Moved
<1>3. CASE ~\E o \in Front(e, Opposite(side)) : Better(side, price, o.price)
  BY <1>3 DEF Behind
<1> QED BY <1>2, <1>3

\* A price no order of the engine's own book or of its legs' books reaches.
Strict(e, side, price) ==
  \A i \in Local(e, side) \cup Implied(e, side) : Better(side, price, i.price)

(* An order that rests where nothing reaches it does not cross its book.    *)
LEMMA OwnRest ==
  ASSUME GroupTypeOK, IdInv, PlanInv, pc = "match", NEW e, NEW side \in Sides,
         NEW price \in Int, Strict(e, side, price),
         NEW r \in book, r.eng = e, r.side = Opposite(side)
  PROVE  Better(side, price, r.price)
<1>1. PICK o \in Front(e, side) : o.price \in Int /\ ~Better(side, r.price, o.price)
  BY FrontBest
<1>2. PICK i : i = [price |-> o.price, qty |-> Open(o), makers |-> {o.id}, legs |-> << >>]
  OBVIOUS
<1>3. i \in Local(e, side) /\ i.price = o.price
  BY <1>2 DEF Local
<1>4. Better(side, price, o.price)
  BY <1>3 DEF Strict
<1>5. r.price \in Int
  BY DEF GroupTypeOK, Orders
<1> QED BY <1>1, <1>4, <1>5 DEF Better, Sides

(* The order rests in the book of a spread: the implied price is not behind *)
(* its side's own orders, for none of them can trade with the legs.         *)
LEMMA SpreadRest ==
  ASSUME SpreadGroups, GroupTypeOK, IdInv, PlanInv, LegsInv, pc = "match",
         NEW e \in Engines, Linked(e), NEW side \in Sides,
         NEW price \in Int, Strict(e, side, price),
         NEW x \in book, x.eng = Legs[e][1], x.side = Opposite(side),
         NEW y \in book, y.eng = Legs[e][2], y.side = side
  PROVE  IF side = "BUY" THEN price < minus_ask(x.price, y.price, Pips[e], Tick[e])
                         ELSE price > minus_bid(x.price, y.price, Pips[e], Tick[e])
<1>1. PICK a, b : a = Legs[e][1] /\ b = Legs[e][2]
  OBVIOUS
<1>2. /\ Rule[e] = "in" /\ Legs[e] = <<a, b>> /\ Pips[e] \in Nat /\ Pips[e] <= 10000
      /\ Tick[e] \in Nat \ {0}
  BY <1>1, LinkedGroup
<1>f. Fair(Pips[e], Tick[e])
  BY <1>2, MinusOrder
<1>3. /\ LegSides(e, side) = <<side, Opposite(side)>> /\ Opposite(side) \in Sides
      /\ Opposite(Opposite(side)) = side
  BY <1>2 DEF LegSides, Opposite, Sides
<1>4. Rule[e] # "none"
  BY <1>2
<1>c. PICK t \in Sides : t = Opposite(side)
  BY <1>3
<1>d. /\ LegSides(e, side) = <<side, t>> /\ x.eng = a /\ x.side = Opposite(side)
      /\ y.eng = b /\ y.side = Opposite(t)
  BY <1>1, <1>3, <1>c
<1>e. Met(e, side, a, b, side, t, x, y)
  BY <1>d, <1>2, <1>4, ImpliedMet
<1>g. PICK f, g \in book :
        /\ f.eng = a /\ f.side = Opposite(side) /\ f.price \in Int
        /\ g.eng = b /\ g.side = Opposite(t) /\ g.price \in Int
        /\ ~Better(side, x.price, f.price) /\ ~Better(t, y.price, g.price)
        /\ \E i \in Implied(e, side) :
             i.price = Behind(e, side, matchd_price(e, side, f.price, g.price))
  BY <1>e DEF Met
<1>5. /\ f.eng = a /\ f.side = Opposite(side) /\ f.price \in Int
      /\ g.eng = b /\ g.side = side /\ g.price \in Int
      /\ ~Better(side, x.price, f.price) /\ ~Better(Opposite(side), y.price, g.price)
      /\ \E i \in Implied(e, side) :
           i.price = Behind(e, side, matchd_price(e, side, f.price, g.price))
  BY <1>c, <1>d, <1>g
<1>6. PICK p : p = matchd_price(e, side, f.price, g.price)
  OBVIOUS
<1>7. p = IF side = "BUY" THEN minus_ask(f.price, g.price, Pips[e], Tick[e])
                          ELSE minus_bid(f.price, g.price, Pips[e], Tick[e])
  BY <1>2, <1>6 DEF matchd_price
<1>8. Better(side, price, Behind(e, side, p))
  BY <1>5, <1>6 DEF Strict
<1>9. x.price \in Int /\ y.price \in Int
  BY DEF GroupTypeOK, Orders
<1>10. /\ minus_ask(f.price, g.price, Pips[e], Tick[e]) \in Int
       /\ minus_bid(f.price, g.price, Pips[e], Tick[e]) \in Int
       /\ minus_ask(x.price, y.price, Pips[e], Tick[e]) \in Int
       /\ minus_bid(x.price, y.price, Pips[e], Tick[e]) \in Int
  BY ONLY <1>5, <1>9, <1>f DEF Fair
<1>11. ASSUME NEW r \in book, r.eng = e, r.side = side PROVE ~Better(side, p, r.price)
  <2>1. Apart(e, r, f, g)
    BY <1>1, <1>5, <1>11 DEF LegsInv
  <2>2. r.price \in Int
    BY DEF GroupTypeOK, Orders
  <2>3. CASE side = "BUY"
    BY <1>5, <1>7, <1>10, <1>11, <2>1, <2>2, <2>3 DEF Apart, Better, Opposite
  <2>4. CASE side = "SELL"
    BY <1>5, <1>7, <1>10, <1>11, <2>1, <2>2, <2>4 DEF Apart, Better, Opposite
  <2> QED BY <2>3, <2>4 DEF Sides
<1>12. Behind(e, side, p) = p
  <2>1. ~Moved(e, side, p)
    BY <1>11 DEF Moved
  <2> QED BY <2>1, BehindCases
<1>13. CASE side = "BUY"
  <2>1. f.price <= x.price /\ y.price <= g.price
    BY <1>5, <1>9, <1>13 DEF Better, Opposite
  <2>2. minus_ask(f.price, g.price, Pips[e], Tick[e])
          <= minus_ask(x.price, y.price, Pips[e], Tick[e])
    BY ONLY <2>1, <1>5, <1>9, <1>f DEF Fair
  <2>3. price < minus_ask(f.price, g.price, Pips[e], Tick[e])
    BY <1>7, <1>8, <1>12, <1>13 DEF Better
  <2> QED BY <2>2, <2>3, <1>10, <1>13
<1>14. CASE side = "SELL"
  <2>1. x.price <= f.price /\ g.price <= y.price
    BY <1>5, <1>9, <1>14 DEF Better, Opposite
  <2>2. minus_bid(x.price, y.price, Pips[e], Tick[e])
          <= minus_bid(f.price, g.price, Pips[e], Tick[e])
    BY ONLY <2>1, <1>5, <1>9, <1>f DEF Fair
  <2>3. price > minus_bid(f.price, g.price, Pips[e], Tick[e])
    BY <1>7, <1>8, <1>12, <1>14 DEF Better
  <2> QED BY <2>2, <2>3, <1>10, <1>14
<1> QED BY <1>13, <1>14 DEF Sides

(* The order rests in the book of the first leg of a spread: its price is   *)
(* beyond what the spread and the other leg cost together, or not before    *)
(* an order that rests there already.                                       *)
LEMMA FirstLegRest ==
  ASSUME SpreadGroups, GroupTypeOK, IdInv, PlanInv, TickInv, LegsInv, pc = "match",
         NEW e \in Engines, Linked(e), NEW side \in Sides,
         NEW a, a = Legs[e][1], NEW price \in Int, Strict(a, side, price), OnTick(a, price),
         NEW s \in book, s.eng = e, s.side = Opposite(side),
         NEW y \in book, y.eng = Legs[e][2], y.side = Opposite(side)
  PROVE  IF side = "BUY" THEN s.price > minus_bid(price, y.price, Pips[e], Tick[e])
                         ELSE s.price < minus_ask(price, y.price, Pips[e], Tick[e])
<1>1. PICK b : b = Legs[e][2]
  OBVIOUS
<1>2. /\ a \in Engines /\ Rule[a] = "a_out" /\ Legs[a] = <<e, b>> /\ Pips[a] = 0
      /\ Pips[e] \in Nat /\ Pips[e] <= 10000 /\ IsLeg(a)
      /\ Tick[e] \in Nat \ {0} /\ Tick[a] \in Nat \ {0}
  BY <1>1, LinkedGroup
<1>f. Fair(Pips[e], Tick[e])
  BY <1>2, MinusOrder
<1>3. LegSides(a, side) = <<side, side>> /\ Rule[a] # "none"
  BY <1>2 DEF LegSides
<1>4. Met(a, side, e, b, side, side, s, y)
  BY <1>1, <1>2, <1>3, ImpliedMet
<1>5. PICK f, g \in book :
        /\ f.eng = e /\ f.side = Opposite(side) /\ f.price \in Int
        /\ g.eng = b /\ g.side = Opposite(side) /\ g.price \in Int
        /\ ~Better(side, s.price, f.price) /\ ~Better(side, y.price, g.price)
        /\ \E i \in Implied(a, side) :
             i.price = Behind(a, side, matchd_price(a, side, f.price, g.price))
  BY <1>4 DEF Met
<1>6. PICK p : p = matchd_price(a, side, f.price, g.price)
  OBVIOUS
<1>7. p = IF side = "BUY" THEN round_up(f.price + g.price, Tick[a])
                          ELSE round_down(f.price + g.price, Tick[a])
  BY <1>2, <1>5, <1>6, NoPips DEF matchd_price
<1>8. Better(side, price, Behind(a, side, p))
  BY <1>5, <1>6 DEF Strict
<1>9. s.price \in Int /\ y.price \in Int
  BY DEF GroupTypeOK, Orders
<1>10. round_down(price, Tick[a]) = price
  BY DEF OnTick
<1>11. /\ minus_ask(price, y.price, Pips[e], Tick[e]) \in Int
       /\ minus_bid(price, y.price, Pips[e], Tick[e]) \in Int
       /\ minus_ask(price, y.price, Pips[e], Tick[e]) >= price - y.price
       /\ minus_bid(price, y.price, Pips[e], Tick[e]) <= price - y.price
  BY ONLY <1>9, <1>f DEF Fair
<1>12. CASE Behind(a, side, p) = p
  <2>1. PICK m \in Int : m = f.price + g.price
    BY <1>5
  <2>2. CASE side = "BUY"
    <3>1. price < m
      BY <1>2, <1>7, <1>8, <1>10, <1>12, <2>1, <2>2, GridBelow DEF Better
    <3>2. f.price <= s.price /\ g.price <= y.price
      BY <1>5, <1>9, <2>2 DEF Better
    <3> QED BY <3>1, <3>2, <2>1, <2>2, <1>5, <1>9, <1>11
  <2>3. CASE side = "SELL"
    <3>1. price > m
      BY <1>2, <1>7, <1>8, <1>10, <1>12, <2>1, <2>3, GridBelow DEF Better
    <3>2. f.price >= s.price /\ g.price >= y.price
      BY <1>5, <1>9, <2>3 DEF Better
    <3> QED BY <3>1, <3>2, <2>1, <2>3, <1>5, <1>9, <1>11
  <2> QED BY <2>2, <2>3 DEF Sides
<1>13. CASE Moved(a, side, p)
  <2>1. PICK o \in book :
          /\ o.eng = a /\ o.side = side /\ o.price \in Int
          /\ Behind(a, side, p) = IF side = "BUY" THEN o.price + Tick[a]
                                                  ELSE o.price - Tick[a]
    BY <1>13 DEF Moved
  <2>2. round_down(o.price, Tick[a]) = o.price
    BY <2>1, <1>2 DEF TickInv, OnTick
  <2>3. Apart(e, s, o, y)
    BY <2>1 DEF LegsInv
  <2>4. /\ minus_ask(o.price, y.price, Pips[e], Tick[e]) \in Int
        /\ minus_bid(o.price, y.price, Pips[e], Tick[e]) \in Int
    BY ONLY <2>1, <1>9, <1>f DEF Fair
  <2>5. CASE side = "BUY"
    <3>1. price <= o.price
      BY <1>2, <1>8, <1>10, <2>1, <2>2, <2>5, GridBelow DEF Better
    <3>2. minus_bid(price, y.price, Pips[e], Tick[e])
            <= minus_bid(o.price, y.price, Pips[e], Tick[e])
      <4>1. y.price <= y.price
        BY <1>9
      <4> QED BY ONLY <4>1, <3>1, <2>1, <1>9, <1>f DEF Fair
    <3>3. s.price > minus_bid(o.price, y.price, Pips[e], Tick[e])
      BY <2>1, <2>3, <2>5 DEF Apart, Opposite
    <3> QED BY <3>2, <3>3, <2>4, <2>5, <1>9, <1>11
  <2>6. CASE side = "SELL"
    <3>1. price >= o.price
      BY <1>2, <1>8, <1>10, <2>1, <2>2, <2>6, GridBelow DEF Better
    <3>2. minus_ask(o.price, y.price, Pips[e], Tick[e])
            <= minus_ask(price, y.price, Pips[e], Tick[e])
      <4>1. y.price <= y.price
        BY <1>9
      <4> QED BY ONLY <4>1, <3>1, <2>1, <1>9, <1>f DEF Fair
    <3>3. s.price < minus_ask(o.price, y.price, Pips[e], Tick[e])
      BY <2>1, <2>3, <2>6 DEF Apart, Opposite
    <3> QED BY <3>2, <3>3, <2>4, <2>6, <1>9, <1>11
  <2> QED BY <2>5, <2>6 DEF Sides
<1> QED BY <1>2, <1>12, <1>13, BehindCases

(* The same of the second leg.                                              *)
LEMMA SecondLegRest ==
  ASSUME SpreadGroups, GroupTypeOK, IdInv, PlanInv, TickInv, LegsInv, pc = "match",
         NEW e \in Engines, Linked(e), NEW side \in Sides,
         NEW b, b = Legs[e][2], NEW price \in Int, Strict(b, side, price), OnTick(b, price),
         NEW s \in book, s.eng = e, s.side = side,
         NEW x \in book, x.eng = Legs[e][1], x.side = Opposite(side)
  PROVE  IF side = "BUY" THEN s.price < minus_ask(x.price, price, Pips[e], Tick[e])
                         ELSE s.price > minus_bid(x.price, price, Pips[e], Tick[e])
<1>1. PICK a : a = Legs[e][1]
  OBVIOUS
<1>2. /\ b \in Engines /\ Rule[b] = "b_out" /\ Legs[b] = <<a, e>> /\ Pips[b] = 0
      /\ Pips[e] \in Nat /\ Pips[e] <= 10000 /\ IsLeg(b)
      /\ Tick[e] \in Nat \ {0} /\ Tick[b] \in Nat \ {0}
  BY <1>1, LinkedGroup
<1>f. Fair(Pips[e], Tick[e])
  BY <1>2, MinusOrder
<1>a. PICK t \in Sides : t = Opposite(side) /\ Opposite(t) = side
  BY DEF Opposite, Sides
<1>3. LegSides(b, side) = <<side, t>> /\ Rule[b] # "none"
  BY <1>2, <1>a DEF LegSides
<1>4. Met(b, side, a, e, side, t, x, s)
  <2>1. s.side = Opposite(t) /\ x.eng = a
    BY <1>1, <1>a
  <2> QED BY <2>1, <1>1, <1>2, <1>3, ImpliedMet
<1>b. PICK f, g \in book :
        /\ f.eng = a /\ f.side = Opposite(side) /\ f.price \in Int
        /\ g.eng = e /\ g.side = Opposite(t) /\ g.price \in Int
        /\ ~Better(side, x.price, f.price) /\ ~Better(t, s.price, g.price)
        /\ \E i \in Implied(b, side) :
             i.price = Behind(b, side, matchd_price(b, side, f.price, g.price))
  BY <1>4 DEF Met
<1>5. /\ f.price \in Int /\ g.price \in Int
      /\ ~Better(side, x.price, f.price) /\ ~Better(Opposite(side), s.price, g.price)
      /\ \E i \in Implied(b, side) :
           i.price = Behind(b, side, matchd_price(b, side, f.price, g.price))
  BY <1>a, <1>b
<1>6. PICK p : p = matchd_price(b, side, f.price, g.price)
  OBVIOUS
<1>7. p = IF side = "BUY" THEN round_up(f.price - g.price, Tick[b])
                          ELSE round_down(f.price - g.price, Tick[b])
  BY <1>2, <1>5, <1>6, NoPips DEF matchd_price
<1>8. Better(side, price, Behind(b, side, p))
  BY <1>5, <1>6 DEF Strict
<1>9. s.price \in Int /\ x.price \in Int
  BY DEF GroupTypeOK, Orders
<1>10. round_down(price, Tick[b]) = price
  BY DEF OnTick
<1>11. /\ minus_ask(x.price, price, Pips[e], Tick[e]) \in Int
       /\ minus_bid(x.price, price, Pips[e], Tick[e]) \in Int
       /\ minus_ask(x.price, price, Pips[e], Tick[e]) >= x.price - price
       /\ minus_bid(x.price, price, Pips[e], Tick[e]) <= x.price - price
  BY ONLY <1>9, <1>f DEF Fair
<1>12. CASE Behind(b, side, p) = p
  <2>1. PICK m \in Int : m = f.price - g.price
    BY <1>5
  <2>2. CASE side = "BUY"
    <3>1. price < m
      BY <1>2, <1>7, <1>8, <1>10, <1>12, <2>1, <2>2, GridBelow DEF Better
    <3>2. f.price <= x.price /\ g.price >= s.price
      BY <1>5, <1>9, <2>2 DEF Better, Opposite
    <3> QED BY <3>1, <3>2, <2>1, <2>2, <1>5, <1>9, <1>11
  <2>3. CASE side = "SELL"
    <3>1. price > m
      BY <1>2, <1>7, <1>8, <1>10, <1>12, <2>1, <2>3, GridBelow DEF Better
    <3>2. f.price >= x.price /\ g.price <= s.price
      BY <1>5, <1>9, <2>3 DEF Better, Opposite
    <3> QED BY <3>1, <3>2, <2>1, <2>3, <1>5, <1>9, <1>11
  <2> QED BY <2>2, <2>3 DEF Sides
<1>13. CASE Moved(b, side, p)
  <2>1. PICK o \in book :
          /\ o.eng = b /\ o.side = side /\ o.price \in Int
          /\ Behind(b, side, p) = IF side = "BUY" THEN o.price + Tick[b]
                                                  ELSE o.price - Tick[b]
    BY <1>13 DEF Moved
  <2>2. round_down(o.price, Tick[b]) = o.price
    BY <2>1, <1>2 DEF TickInv, OnTick
  <2>3. Apart(e, s, x, o)
    BY <2>1 DEF LegsInv
  <2>4. /\ minus_ask(x.price, o.price, Pips[e], Tick[e]) \in Int
        /\ minus_bid(x.price, o.price, Pips[e], Tick[e]) \in Int
    BY ONLY <2>1, <1>9, <1>f DEF Fair
  <2>5. CASE side = "BUY"
    <3>1. price <= o.price
      BY <1>2, <1>8, <1>10, <2>1, <2>2, <2>5, GridBelow DEF Better
    <3>2. minus_ask(x.price, o.price, Pips[e], Tick[e])
            <= minus_ask(x.price, price, Pips[e], Tick[e])
      <4>1. x.price <= x.price
        BY <1>9
      <4> QED BY ONLY <4>1, <3>1, <2>1, <1>9, <1>f DEF Fair
    <3>3. s.price < minus_ask(x.price, o.price, Pips[e], Tick[e])
      BY <2>1, <2>3, <2>5 DEF Apart, Opposite
    <3> QED BY <3>2, <3>3, <2>4, <2>5, <1>9, <1>11
  <2>6. CASE side = "SELL"
    <3>1. price >= o.price
      BY <1>2, <1>8, <1>10, <2>1, <2>2, <2>6, GridBelow DEF Better
    <3>2. minus_bid(x.price, price, Pips[e], Tick[e])
            <= minus_bid(x.price, o.price, Pips[e], Tick[e])
      <4>1. x.price <= x.price
        BY <1>9
      <4> QED BY ONLY <4>1, <3>1, <2>1, <1>9, <1>f DEF Fair
    <3>3. s.price > minus_bid(x.price, o.price, Pips[e], Tick[e])
      BY <2>1, <2>3, <2>6 DEF Apart, Opposite
    <3> QED BY <3>2, <3>3, <2>4, <2>6, <1>9, <1>11
  <2> QED BY <2>5, <2>6 DEF Sides
<1> QED BY <1>2, <1>12, <1>13, BehindCases

(* The local orders have one price, and so have the implied ones.           *)
LEMMA OfferPrices ==
  ASSUME GroupTypeOK, IdInv, NEW e \in Engines, NEW side \in Sides
  PROVE  /\ \A i \in Local(e, side) \cup Implied(e, side) : i.price \in Int
         /\ \A i, j \in Local(e, side) : i.price = j.price
         /\ \A i, j \in Implied(e, side) : i.price = j.price
<1>1. \A i \in Local(e, side) : \E o \in Front(e, side) : i.price = o.price
  BY DEF Local
<1>2. ASSUME NEW i \in Local(e, side), NEW j \in Local(e, side)
      PROVE  i.price \in Int /\ i.price = j.price
  BY <1>1, FrontPrice
<1>3. ASSUME NEW i \in Implied(e, side)
      PROVE  /\ Rule[e] # "none"
             /\ \E f \in Front(Legs[e][1], LegSides(e, side)[1]),
                  g \in Front(Legs[e][2], LegSides(e, side)[2]) :
                  i.price = Behind(e, side, matchd_price(e, side, f.price, g.price))
  <2>1. PICK l \in LegPairs(e, side) :
          i.price = Behind(e, side, matchd_price(e, side, l[1].price, l[2].price))
    BY DEF Implied
  <2>2. Rule[e] # "none"
    BY DEF LegPairs
  <2>3. l \in Front(Legs[e][1], LegSides(e, side)[1]) \X Front(Legs[e][2], LegSides(e, side)[2])
    BY <2>2 DEF LegPairs
  <2> QED BY <2>1, <2>2, <2>3
<1>4. LegSides(e, side)[1] \in Sides /\ LegSides(e, side)[2] \in Sides
  BY DEF LegSides, Opposite, Sides
<1>5. ASSUME NEW i \in Implied(e, side), NEW j \in Implied(e, side)
      PROVE  i.price \in Int /\ i.price = j.price
  <2>1. PICK f \in Front(Legs[e][1], LegSides(e, side)[1]),
             g \in Front(Legs[e][2], LegSides(e, side)[2]) :
               i.price = Behind(e, side, matchd_price(e, side, f.price, g.price))
    BY <1>3
  <2>2. PICK u \in Front(Legs[e][1], LegSides(e, side)[1]),
             v \in Front(Legs[e][2], LegSides(e, side)[2]) :
               j.price = Behind(e, side, matchd_price(e, side, u.price, v.price))
    BY <1>3
  <2>3. /\ f.price \in Int /\ g.price \in Int /\ f.price = u.price /\ g.price = v.price
    BY <2>1, <2>2, <1>4, FrontPrice
  <2>4. matchd_price(e, side, f.price, g.price) \in Int
    BY <2>3, <1>3, LegsCovered
  <2>5. Behind(e, side, matchd_price(e, side, f.price, g.price)) \in Int
    BY <2>4, BehindIs
  <2> QED BY <2>1, <2>2, <2>3, <2>5
<1> QED BY <1>2, <1>5

(* Nothing the taker could meet is better than what it meets first, and it  *)
(* meets something if there is anything.                                    *)
LEMMA TopBest ==
  ASSUME GroupTypeOK, IdInv, NEW e \in Engines, NEW side \in Sides,
         NEW u \in Local(e, side) \cup Implied(e, side)
  PROVE  /\ Top(e, side) # {}
         /\ \A t \in Top(e, side) : t.price \in Int /\ ~Better(side, u.price, t.price)
<1>1. \A i \in Local(e, side) \cup Implied(e, side) : i.price \in Int
  BY OfferPrices
<1>2. \A i, j \in Local(e, side) : i.price = j.price
  BY OfferPrices
<1>3. \A i, j \in Implied(e, side) : i.price = j.price
  BY OfferPrices
<1>4. \A p, q \in Int : ~(Better(side, p, q) /\ Better(side, q, p)) /\ ~Better(side, p, p)
  BY DEF Better
<1>5. ASSUME NEW t \in Top(e, side) PROVE t.price \in Int /\ ~Better(side, u.price, t.price)
  <2>1. CASE /\ t \in Implied(e, side)
             /\ \A l \in Local(e, side) : Better(side, t.price, l.price)
    BY <2>1, <1>1, <1>3, <1>4
  <2>2. CASE /\ t \in Local(e, side)
             /\ \A i \in Implied(e, side) : ~Better(side, i.price, t.price)
    BY <2>2, <1>1, <1>2, <1>4
  <2> QED BY <2>1, <2>2 DEF Top
<1>6. Top(e, side) # {}
  <2>1. CASE \E i \in Implied(e, side) :
               \A l \in Local(e, side) : Better(side, i.price, l.price)
    BY <2>1 DEF Top
  <2>2. CASE \E l \in Local(e, side) :
               \A i \in Implied(e, side) : ~Better(side, i.price, l.price)
    BY <2>2 DEF Top
  <2>3. CASE \E i \in Implied(e, side), l \in Local(e, side) : ~Better(side, i.price, l.price)
    <3>1. PICK i \in Implied(e, side), l \in Local(e, side) : ~Better(side, i.price, l.price)
      BY <2>3
    <3>2. \A j \in Implied(e, side) : ~Better(side, j.price, l.price)
      <4>1. \A j \in Implied(e, side) : j.price = i.price
        BY <1>3
      <4> QED BY <3>1, <4>1
    <3> QED BY <2>2, <3>2
  <2> QED BY <2>1, <2>2, <2>3
<1> QED BY <1>5, <1>6

(* What a taker does not reach is beyond its price, and a market order      *)
(* reaches everything.                                                      *)
LEMMA NothingReached ==
  ASSUME GroupTypeOK, IdInv, pc # "idle", Crossing = {}
  PROVE  /\ taker.price # MARKET_PRICE => Strict(taker.eng, taker.side, taker.price)
         /\ taker.price = MARKET_PRICE => \A p : Strict(taker.eng, taker.side, p)
<1>1. taker.eng \in Engines /\ taker.side \in Sides /\ taker.price \in Int
  BY DEF GroupTypeOK, Takers
<1>2. \A t \in Top(taker.eng, taker.side) :
        taker.price # MARKET_PRICE /\ Better(taker.side, taker.price, t.price)
  BY DEF Crossing, Reachable
<1>3. ASSUME NEW u \in Local(taker.eng, taker.side) \cup Implied(taker.eng, taker.side)
      PROVE  taker.price # MARKET_PRICE /\ Better(taker.side, taker.price, u.price)
  <2>1. u.price \in Int
    BY <1>1, OfferPrices
  <2>2. PICK t \in Top(taker.eng, taker.side) :
          t.price \in Int /\ ~Better(taker.side, u.price, t.price)
    BY <1>1, TopBest
  <2> QED BY <1>1, <1>2, <2>1, <2>2 DEF Better
<1> QED BY <1>3 DEF Strict

(* A post-only order that rests a tick before what it would have met is     *)
(* reached by nothing.                                                      *)
LEMMA BeforeTop ==
  ASSUME GroupTypeOK, IdInv, NEW e \in Engines, NEW side \in Sides, NEW t \in Top(e, side),
         t.price \in Int
  PROVE  Strict(e, side, IF side = "BUY" THEN t.price - Tick[e] ELSE t.price + Tick[e])
<1>1. Tick[e] \in Nat \ {0}
  BY GroupAssumption
<1>2. ASSUME NEW u \in Local(e, side) \cup Implied(e, side)
      PROVE  Better(side, IF side = "BUY" THEN t.price - Tick[e] ELSE t.price + Tick[e], u.price)
  <2>1. u.price \in Int /\ ~Better(side, u.price, t.price)
    BY OfferPrices, TopBest
  <2> QED BY <1>1, <2>1 DEF Better
<1> QED BY <1>2 DEF Strict

(* The prices at which a leg is offered are on its tick.                    *)
LEMMA OffersOnTick ==
  ASSUME SpreadGroups, GroupTypeOK, IdInv, TickInv, NEW l, IsLeg(l), NEW side \in Sides
  PROVE  /\ \A i \in Local(l, side) \cup Implied(l, side) : OnTick(l, i.price)
         /\ \A p \in TopPrices(l, side) : OnTick(l, p)
<1>1. l \in Engines /\ Tick[l] \in Nat \ {0} /\ Pips[l] = 0 /\ Rule[l] \in {"a_out", "b_out"}
  BY LegIs
<1>2. \A o \in Front(l, side) : OnTick(l, o.price)
  BY FrontPrice DEF TickInv
<1>3. LegSides(l, side)[1] \in Sides /\ LegSides(l, side)[2] \in Sides /\ Rule[l] # "none"
  BY <1>1 DEF LegSides, Opposite, Sides
<1>4. ASSUME NEW q \in LegPairs(l, side)
      PROVE  OnTick(l, matchd_price(l, side, q[1].price, q[2].price))
  <2>1. q \in Front(Legs[l][1], LegSides(l, side)[1]) \X Front(Legs[l][2], LegSides(l, side)[2])
    BY <1>3 DEF LegPairs
  <2>2. PICK f \in Int : f = q[1].price
    BY <2>1, <1>3, FrontPrice
  <2>3. PICK g \in Int : g = q[2].price
    BY <2>1, <1>3, FrontPrice
  <2>4. PICK m \in Int : m = f + g
    OBVIOUS
  <2>5. PICK n \in Int : n = f - g
    OBVIOUS
  <2>6. matchd_price(l, side, f, g) \in
          {round_up(m, Tick[l]), round_down(m, Tick[l]), round_up(n, Tick[l]), round_down(n, Tick[l])}
    BY <2>4, <2>5, <1>1, NoPips DEF matchd_price
  <2> QED BY <2>2, <2>3, <2>6, <1>1, RoundedOnGrid DEF OnTick
<1>5. \A p \in TopPrices(l, side) : OnTick(l, p)
  BY <1>2, <1>4 DEF TopPrices
<1>6. \A i \in Local(l, side) : OnTick(l, i.price)
  BY <1>2 DEF Local
<1>7. ASSUME NEW i \in Implied(l, side) PROVE OnTick(l, i.price)
  <2>1. PICK q \in LegPairs(l, side) :
          i.price = Behind(l, side, matchd_price(l, side, q[1].price, q[2].price))
    BY DEF Implied
  <2>2. PICK p : p = matchd_price(l, side, q[1].price, q[2].price)
    OBVIOUS
  <2>3. CASE Behind(l, side, p) = p
    BY <2>1, <2>2, <2>3, <1>4
  <2>4. CASE Moved(l, side, p)
    <3>1. PICK o \in book :
            /\ o.eng = l /\ o.price \in Int
            /\ Behind(l, side, p) = IF side = "BUY" THEN o.price + Tick[l]
                                                    ELSE o.price - Tick[l]
      BY <2>4 DEF Moved
    <3>2. round_down(o.price, Tick[l]) = o.price
      BY <3>1 DEF TickInv, OnTick
    <3> QED BY <2>1, <2>2, <3>1, <3>2, <1>1, RoundedOnGrid DEF OnTick
  <2> QED BY <2>3, <2>4, BehindCases
<1> QED BY <1>5, <1>6, <1>7

\* What rested before.
SameBook == \A o \in book' : \E r \in book : Same(o, r)

(* Orders that leave or shrink cross nothing.                               *)
LEMMA SameApart ==
  ASSUME OwnInv, LegsInv, SameBook, \A o \in book : IsLeg(o.eng) => OnTick(o.eng, o.price)
  PROVE  OwnInv' /\ LegsInv' /\ \A o \in book' : IsLeg(o.eng) => OnTick(o.eng, o.price)
<1>1. OwnInv'
  <2> SUFFICES ASSUME NEW b \in book', NEW a \in book', b.eng = a.eng,
                      b.side = "BUY", a.side = "SELL"
               PROVE  b.price < a.price
    BY DEF OwnInv
  <2>1. PICK c \in book : Same(b, c)
    BY DEF SameBook
  <2>2. PICK d \in book : Same(a, d)
    BY DEF SameBook
  <2> QED BY <2>1, <2>2 DEF Same, OwnInv
<1>2. LegsInv'
  <2> SUFFICES ASSUME NEW e \in Engines, Linked(e), NEW s \in book', NEW x \in book',
                      NEW y \in book', s.eng = e, x.eng = Legs[e][1], y.eng = Legs[e][2]
               PROVE  Apart(e, s, x, y)
    BY DEF LegsInv, Linked, Apart
  <2>1. PICK u \in book : Same(s, u)
    BY DEF SameBook
  <2>2. PICK v \in book : Same(x, v)
    BY DEF SameBook
  <2>3. PICK w \in book : Same(y, w)
    BY DEF SameBook
  <2>4. Apart(e, u, v, w)
    BY <2>1, <2>2, <2>3 DEF Same, LegsInv
  <2> QED BY <2>1, <2>2, <2>3, <2>4 DEF Same, Apart
<1>3. ASSUME NEW o \in book', IsLeg(o.eng) PROVE OnTick(o.eng, o.price)
  <2>1. PICK r \in book : Same(o, r)
    BY DEF SameBook
  <2> QED BY <2>1, <1>3 DEF Same
<1> QED BY <1>1, <1>2, <1>3

(* An order that rests where nothing reaches it crosses nothing.            *)
LEMMA RestApart ==
  ASSUME SpreadGroups, GroupInv, ApartInv, pc = "match", NEW price \in Int, RestAt(price),
         Strict(taker.eng, taker.side, price), IsLeg(taker.eng) => OnTick(taker.eng, price)
  PROVE  OwnInv' /\ LegsInv' /\ \A o \in book' : IsLeg(o.eng) => OnTick(o.eng, o.price)
<1>0. GroupTypeOK /\ IdInv /\ PlanInv /\ TickInv /\ OwnInv /\ LegsInv
  BY DEF GroupInv, ApartInv
<1>1. PICK n : n = [id |-> taker.id, eng |-> taker.eng, side |-> taker.side,
                    price |-> price, qty |-> taker.left]
  OBVIOUS
<1>2. book' = book \cup {n}
  BY <1>1 DEF RestAt
<1>3. PICK l, side : l = taker.eng /\ side = taker.side
  OBVIOUS
<1>4. /\ l \in Engines /\ side \in Sides /\ n.eng = l /\ n.side = side /\ n.price = price
      /\ Strict(l, side, price) /\ (IsLeg(l) => OnTick(l, price))
  BY <1>0, <1>1, <1>3 DEF GroupTypeOK, Takers
<1>5. OwnInv'
  <2> SUFFICES ASSUME NEW b \in book', NEW a \in book', b.eng = a.eng,
                      b.side = "BUY", a.side = "SELL"
               PROVE  b.price < a.price
    BY DEF OwnInv
  <2>1. CASE b \in book /\ a \in book
    BY <2>1, <1>0 DEF OwnInv
  <2>2. CASE b = n /\ a \in book
    <3>1. side = "BUY" /\ a.eng = l /\ a.side = Opposite(side)
      BY <2>2, <1>4 DEF Opposite
    <3>2. Better(side, price, a.price)
      BY <2>2, <3>1, <1>0, <1>4, OwnRest
    <3> QED BY <2>2, <3>1, <3>2, <1>4 DEF Better
  <2>3. CASE a = n /\ b \in book
    <3>1. side = "SELL" /\ b.eng = l /\ b.side = Opposite(side)
      BY <2>3, <1>4 DEF Opposite
    <3>2. Better(side, price, b.price) /\ b.price \in Int
      BY <2>3, <3>1, <1>0, <1>4, OwnRest DEF GroupTypeOK, Orders
    <3> QED BY <2>3, <3>1, <3>2, <1>4 DEF Better
  <2>4. ~(b = n /\ a = n)
    OBVIOUS
  <2> QED BY <2>1, <2>2, <2>3, <2>4, <1>2
<1>6. LegsInv'
  <2> SUFFICES ASSUME NEW e \in Engines, Linked(e), NEW s \in book', NEW x \in book',
                      NEW y \in book', s.eng = e, x.eng = Legs[e][1], y.eng = Legs[e][2]
               PROVE  Apart(e, s, x, y)
    BY DEF LegsInv, Linked, Apart
  <2>0. PICK a, b : a = Legs[e][1] /\ b = Legs[e][2]
    OBVIOUS
  <2>1. a # e /\ b # e /\ a # b /\ IsLeg(a) /\ IsLeg(b)
    BY <2>0, LinkedGroup
  <2>2. CASE s \in book /\ x \in book /\ y \in book
    BY <2>2, <1>0 DEF LegsInv
  <2>3. CASE s = n
    <3>1. x \in book /\ y \in book /\ l = e
      BY <2>0, <2>1, <2>3, <1>2, <1>4
    <3>2. ASSUME side = "BUY", x.side = "SELL", y.side = "BUY"
          PROVE  price < minus_ask(x.price, y.price, Pips[e], Tick[e])
      <4>1. x.side = Opposite(side) /\ y.side = side
        BY <3>2 DEF Opposite
      <4> QED BY <4>1, <3>1, <3>2, <1>0, <1>4, SpreadRest
    <3>3. ASSUME side = "SELL", x.side = "BUY", y.side = "SELL"
          PROVE  price > minus_bid(x.price, y.price, Pips[e], Tick[e])
      <4>1. x.side = Opposite(side) /\ y.side = side
        BY <3>3 DEF Opposite
      <4> QED BY <4>1, <3>1, <3>3, <1>0, <1>4, SpreadRest
    <3> QED BY <2>3, <3>2, <3>3, <1>4 DEF Apart
  <2>4. CASE x = n
    <3>1. s \in book /\ y \in book /\ l = a /\ OnTick(a, price) /\ Strict(a, side, price)
      BY <2>0, <2>1, <2>4, <1>2, <1>4
    <3>2. ASSUME s.side = "BUY", side = "SELL", y.side = "BUY"
          PROVE  s.price < minus_ask(price, y.price, Pips[e], Tick[e])
      <4>1. s.side = Opposite(side) /\ y.side = Opposite(side)
        BY <3>2 DEF Opposite
      <4> QED BY <4>1, <2>0, <3>1, <3>2, <1>0, <1>4, FirstLegRest
    <3>3. ASSUME s.side = "SELL", side = "BUY", y.side = "SELL"
          PROVE  s.price > minus_bid(price, y.price, Pips[e], Tick[e])
      <4>1. s.side = Opposite(side) /\ y.side = Opposite(side)
        BY <3>3 DEF Opposite
      <4> QED BY <4>1, <2>0, <3>1, <3>3, <1>0, <1>4, FirstLegRest
    <3> QED BY <2>4, <3>2, <3>3, <1>4 DEF Apart
  <2>5. CASE y = n
    <3>1. s \in book /\ x \in book /\ l = b /\ OnTick(b, price) /\ Strict(b, side, price)
      BY <2>0, <2>1, <2>5, <1>2, <1>4
    <3>2. ASSUME s.side = "BUY", x.side = "SELL", side = "BUY"
          PROVE  s.price < minus_ask(x.price, price, Pips[e], Tick[e])
      <4>1. s.side = side /\ x.side = Opposite(side)
        BY <3>2 DEF Opposite
      <4> QED BY <4>1, <2>0, <3>1, <3>2, <1>0, <1>4, SecondLegRest
    <3>3. ASSUME s.side = "SELL", x.side = "BUY", side = "SELL"
          PROVE  s.price > minus_bid(x.price, price, Pips[e], Tick[e])
      <4>1. s.side = side /\ x.side = Opposite(side)
        BY <3>3 DEF Opposite
      <4> QED BY <4>1, <2>0, <3>1, <3>3, <1>0, <1>4, SecondLegRest
    <3> QED BY <2>5, <3>2, <3>3, <1>4 DEF Apart
  <2> QED BY <2>2, <2>3, <2>4, <2>5, <1>2
<1>7. \A o \in book' : IsLeg(o.eng) => OnTick(o.eng, o.price)
  BY <1>0, <1>2, <1>4 DEF TickInv
<1> QED BY <1>5, <1>6, <1>7

(* A trade only takes from the orders that rest.                            *)
LEMMA TradeSame ==
  ASSUME GroupTypeOK, NEW t, NEW qty, Trade(t, qty)
  PROVE  SameBook /\ taker'.eng = taker.eng /\ taker'.price = taker.price
<1>1. ASSUME NEW o \in book' PROVE \E r \in book : Same(o, r)
  <2>1. o \in {r \in book : r.id \notin t.makers} \/
        \E r \in book : o = [r EXCEPT !.qty = @ - qty]
    BY DEF Trade
  <2>2. CASE o \in book
    BY <2>2 DEF Same
  <2>3. CASE \E r \in book : o = [r EXCEPT !.qty = @ - qty]
    <3>1. PICK r \in book : o = [r EXCEPT !.qty = @ - qty]
      BY <2>3
    <3>2. r \in Orders
      BY DEF GroupTypeOK
    <3> QED BY <3>1, <3>2 DEF Same, Orders
  <2> QED BY <2>1, <2>2, <2>3
<1>2. taker' = [taker EXCEPT !.left = @ - qty]
  BY DEF Trade
<1>3. taker'.eng = taker.eng /\ taker'.price = taker.price
  BY <1>2
<1> QED BY <1>1, <1>3 DEF SameBook

(* Nothing rests in a new group.                                            *)
LEMMA ApartInit == Init => ApartInv
  BY DEF Init, ApartInv, TickInv, OwnInv, LegsInv

(* The prices at which an engine is offered.                                *)
LEMMA TopPricesInt ==
  ASSUME GroupTypeOK, IdInv, NEW e \in Engines, NEW side \in Sides
  PROVE  \A p \in TopPrices(e, side) : p \in Int
<1>1. \A o \in Front(e, side) : o.price \in Int
  BY FrontPrice
<1>2. ASSUME NEW q \in LegPairs(e, side)
      PROVE  matchd_price(e, side, q[1].price, q[2].price) \in Int
  <2>1. Rule[e] # "none"
    BY DEF LegPairs
  <2>2. q \in Front(Legs[e][1], LegSides(e, side)[1]) \X Front(Legs[e][2], LegSides(e, side)[2])
    BY <2>1 DEF LegPairs
  <2>3. LegSides(e, side)[1] \in Sides /\ LegSides(e, side)[2] \in Sides
    BY DEF LegSides, Opposite, Sides
  <2>4. q[1].price \in Int /\ q[2].price \in Int
    BY <2>2, <2>3, FrontPrice
  <2> QED BY <2>1, <2>4, LegsCovered
<1> QED BY <1>1, <1>2 DEF TopPrices

(* What is left of an order rests where nothing reaches it, at its own      *)
(* price or, for a market order, at that of its side.                       *)
LEMMA RestKeepsApart ==
  ASSUME SpreadGroups, GroupInv, ApartInv, RestRemainder
  PROVE  OwnInv' /\ LegsInv' /\ \A o \in book' : IsLeg(o.eng) => OnTick(o.eng, o.price)
<1>0. GroupTypeOK /\ IdInv /\ PlanInv /\ TickInv /\ OwnInv /\ LegsInv
  BY DEF GroupInv, ApartInv
<1>1. /\ pc = "match" /\ Crossing = {} /\ taker.tif # "IOC"
      /\ IF RestPrices = {} THEN UNCHANGED book ELSE \E p \in RestPrices : RestAt(p)
  BY DEF RestRemainder, Remains
<1>2. taker.eng \in Engines /\ taker.side \in Sides /\ taker.price \in Int
  BY <1>0, <1>1 DEF GroupTypeOK, Takers
<1>3. Opposite(taker.side) \in Sides
  BY DEF Opposite, Sides
<1>4. CASE RestPrices = {}
  <2>1. SameBook
    BY <1>1, <1>4 DEF SameBook, Same
  <2> QED BY <2>1, <1>0, SameApart DEF TickInv
<1>5. CASE RestPrices # {}
  <2>1. PICK p \in RestPrices : RestAt(p)
    BY <1>1, <1>5
  <2>2. CASE taker.price # MARKET_PRICE
    <3>1. p = taker.price
      BY <2>1, <2>2 DEF RestPrices
    <3>2. Strict(taker.eng, taker.side, p)
      BY <3>1, <2>2, <1>0, <1>1, NothingReached
    <3>3. IsLeg(taker.eng) => OnTick(taker.eng, p)
      BY <3>1, <2>2, <1>0, <1>1 DEF TickInv
    <3> QED BY <2>1, <3>1, <3>2, <3>3, <1>1, <1>2, RestApart
  <2>3. CASE taker.price = MARKET_PRICE
    <3>1. p \in TopPrices(taker.eng, Opposite(taker.side))
      BY <2>1, <2>3 DEF RestPrices
    <3>2. p \in Int
      BY <3>1, <1>0, <1>2, <1>3, TopPricesInt
    <3>3. Strict(taker.eng, taker.side, p)
      BY <2>3, <1>0, <1>1, NothingReached
    <3>4. IsLeg(taker.eng) => OnTick(taker.eng, p)
      BY <3>1, <1>0, <1>3, OffersOnTick
    <3> QED BY <2>1, <3>2, <3>3, <3>4, <1>1, RestApart
  <2> QED BY <2>2, <2>3
<1> QED BY <1>4, <1>5

(* A post-only order with repricing rests a tick before what it meets.      *)
LEMMA RepriceKeepsApart ==
  ASSUME SpreadGroups, GroupInv, ApartInv, Reprice
  PROVE  OwnInv' /\ LegsInv' /\ \A o \in book' : IsLeg(o.eng) => OnTick(o.eng, o.price)
<1>0. GroupTypeOK /\ IdInv /\ PlanInv /\ TickInv
  BY DEF GroupInv, ApartInv
<1>1. pc = "match"
  BY DEF Reprice
<1>2. PICK t \in Crossing :
        RestAt(IF taker.side = "BUY" THEN t.price - Tick[taker.eng]
                                     ELSE t.price + Tick[taker.eng])
  BY DEF Reprice
<1>3. /\ taker.eng \in Engines /\ taker.side \in Sides /\ Tick[taker.eng] \in Nat \ {0}
      /\ t.price \in Int /\ t \in Top(taker.eng, taker.side)
  <2>1. t.price \in Int
    BY <1>0, <1>1, TopFits DEF Fit, Trades
  <2> QED BY <2>1, <1>0, <1>1, GroupAssumption DEF GroupTypeOK, Takers, Crossing
<1>4. PICK p \in Int : p = IF taker.side = "BUY" THEN t.price - Tick[taker.eng]
                                                  ELSE t.price + Tick[taker.eng]
  BY <1>3
<1>5. Strict(taker.eng, taker.side, p)
  BY <1>0, <1>3, <1>4, BeforeTop
<1>6. ASSUME IsLeg(taker.eng) PROVE OnTick(taker.eng, p)
  <2>1. t \in Local(taker.eng, taker.side) \cup Implied(taker.eng, taker.side)
    BY <1>3 DEF Top
  <2>2. round_down(t.price, Tick[taker.eng]) = t.price
    BY <2>1, <1>0, <1>3, <1>6, OffersOnTick DEF OnTick
  <2> QED BY <2>2, <1>3, <1>4, RoundedOnGrid DEF OnTick
<1>7. RestAt(p)
  BY <1>2, <1>4
<1> QED BY <1>1, <1>5, <1>6, <1>7, RestApart

(* ApartInv is inductive.                                                   *)
LEMMA ApartNext ==
  ASSUME SpreadGroups, GroupInv, ApartInv, [Next]_vars
  PROVE  ApartInv'
<1>0. GroupTypeOK /\ IdInv /\ PlanInv /\ TickInv /\ OwnInv /\ LegsInv
  BY DEF GroupInv, ApartInv
<1>1. ASSUME OwnInv', LegsInv', \A o \in book' : IsLeg(o.eng) => OnTick(o.eng, o.price),
             pc' = "idle" \/ /\ taker'.eng = taker.eng /\ taker'.price = taker.price
                             /\ pc # "idle"
      PROVE  ApartInv'
  BY <1>0, <1>1 DEF ApartInv, TickInv
<1>2. ASSUME SameBook,
             pc' = "idle" \/ /\ taker'.eng = taker.eng /\ taker'.price = taker.price
                             /\ pc # "idle"
      PROVE  ApartInv'
  <2>1. OwnInv' /\ LegsInv' /\ \A o \in book' : IsLeg(o.eng) => OnTick(o.eng, o.price)
    BY <1>0, <1>2, SameApart DEF TickInv
  <2> QED BY <2>1, <1>1, <1>2
<1>3. book' = book => SameBook
  BY DEF SameBook, Same
<1>4. ASSUME NEW r \in Requests, New(r) PROVE ApartInv'
  <2>1. book' = book /\ pc = "idle" /\ taker'.eng = r.eng /\ taker'.price = r.price
    BY <1>4 DEF New
  <2>2. OwnInv' /\ LegsInv' /\ \A o \in book' : IsLeg(o.eng) => OnTick(o.eng, o.price)
    BY <2>1, <1>0, <1>3, SameApart DEF TickInv
  <2>3. IsLeg(r.eng) => r.price = MARKET_PRICE \/ OnTick(r.eng, r.price)
    BY DEF IsLeg, SpreadGroups
  <2> QED BY <2>1, <2>2, <2>3 DEF ApartInv, TickInv
<1>5. ASSUME NEW o \in book, Cancel(o) PROVE ApartInv'
  <2>1. SameBook /\ pc' = "idle"
    BY <1>5 DEF Cancel, SameBook, Same
  <2> QED BY <2>1, <1>2
<1>6. ASSUME NEW t \in Crossing, MatchTop(t) PROVE ApartInv'
  <2>1. pc = "match" /\ Trade(t, Min2(t.qty, taker.left))
    BY <1>6 DEF MatchTop
  <2> QED BY <2>1, <1>0, <1>2, TradeSame
<1>7. CASE MatchDone \/ CancelMakerOnly \/ CancelRemainder \/ FokKill \/ FokDone
  <2>1. book' = book /\ pc' = "idle"
    BY <1>7 DEF MatchDone, CancelMakerOnly, CancelRemainder, FokKill, FokDone, Return
  <2> QED BY <2>1, <1>2, <1>3
<1>8. CASE Reprice
  <2>1. pc' = "idle"
    BY <1>8 DEF Reprice, Return
  <2> QED BY <2>1, <1>1, <1>8, RepriceKeepsApart
<1>9. CASE RestRemainder
  <2>1. pc' = "idle"
    BY <1>9 DEF RestRemainder, Return
  <2> QED BY <2>1, <1>1, <1>9, RestKeepsApart
<1>10. CASE FokPlanned \/ \E t \in Crossing : FokPlan(t)
  <2>1. book' = book /\ taker' = taker /\ pc # "idle"
    BY <1>10 DEF FokPlanned, FokPlan
  <2> QED BY <2>1, <1>2, <1>3
<1>11. CASE FokTrade
  <2>1. pc = "trade" /\ Trade(Head(plan), Head(plan).qty)
    BY <1>11 DEF FokTrade
  <2> QED BY <2>1, <1>0, <1>2, TradeSame
<1>12. CASE UNCHANGED vars
  <2>1. book' = book /\ taker' = taker /\ pc' = pc
    BY <1>12 DEF vars
  <2> QED BY <2>1, <1>2, <1>3
<1> QED BY <1>4, <1>5, <1>6, <1>7, <1>8, <1>9, <1>10, <1>11, <1>12 DEF Next, Step

(* Books that keep apart are uncrossed, legs included.                      *)
LEMMA ApartUncrossed ==
  ASSUME SpreadGroups, GroupInv, ApartInv
  PROVE  GroupUncrossed
<1>0. GroupTypeOK /\ IdInv /\ OwnInv /\ LegsInv
  BY DEF GroupInv, ApartInv
<1>1. ASSUME NEW e \in Engines, NEW side \in {"BUY", "SELL"}, Rule[e] = "in",
             Rule[Legs[e][1]] # "none", Rule[Legs[e][2]] # "none",
             NEW o \in RestingOn(e, side), NEW l \in LegPairs(e, side)
      PROVE  Better(side, o.price, matchd_price(e, side, l[1].price, l[2].price))
  <2>1. Linked(e) /\ Rule[e] # "none" /\ side \in Sides
    BY <1>1 DEF Linked, Sides
  <2>2. LegSides(e, side) = <<side, Opposite(side)>> /\ Opposite(side) \in Sides
    BY <1>1 DEF LegSides, Opposite, Sides
  <2>3. l \in Front(Legs[e][1], side) \X Front(Legs[e][2], Opposite(side))
    BY <2>1, <2>2 DEF LegPairs
  <2>4. PICK x, y : x = l[1] /\ y = l[2]
    OBVIOUS
  <2>5. /\ x \in book /\ x.eng = Legs[e][1] /\ x.side = Opposite(side)
        /\ y \in book /\ y.eng = Legs[e][2] /\ y.side = Opposite(Opposite(side))
    <3>1. PICK t \in Sides : t = Opposite(side)
      BY <2>2
    <3>2. x \in Front(Legs[e][1], side) /\ y \in Front(Legs[e][2], t)
      BY <2>3, <2>4, <3>1
    <3>3. x \in book /\ x.eng = Legs[e][1] /\ x.side = Opposite(side)
      BY <2>1, <3>2, <1>0, FrontPrice
    <3>4. y \in book /\ y.eng = Legs[e][2] /\ y.side = Opposite(t)
      BY <3>2, <1>0, FrontPrice
    <3> QED BY <3>1, <3>3, <3>4
  <2>6. o \in book /\ o.eng = e /\ o.side = side
    BY DEF RestingOn
  <2>7. Apart(e, o, x, y)
    BY <2>1, <2>5, <2>6, <1>0 DEF LegsInv
  <2>8. matchd_price(e, side, x.price, y.price) =
          IF side = "BUY" THEN minus_ask(x.price, y.price, Pips[e], Tick[e])
                          ELSE minus_bid(x.price, y.price, Pips[e], Tick[e])
    BY <1>1 DEF matchd_price
  <2>9. Better(side, o.price, matchd_price(e, side, x.price, y.price))
    BY <2>5, <2>6, <2>7, <2>8 DEF Apart, Better, Opposite
  <2> QED BY <2>4, <2>9
<1> QED BY <1>0, <1>1 DEF GroupUncrossed, OwnInv

(* The books of a group are uncrossed after every call, and no order of a   *)
(* spread can trade with the best orders of its legs, for any number of     *)
(* spreads, prices, ticks and commissions that SpreadGroups allows: an      *)
(* order that would make such a trade possible is matched through the       *)
(* implier of its own engine first (matcher::top in normal_match).          *)
THEOREM GroupUncrossedHolds ==
  ASSUME SpreadGroups
  PROVE  Spec => []GroupUncrossed
<1>1. Init => GroupInv /\ ApartInv
  BY GroupInit, ApartInit
<1>2. GroupInv /\ ApartInv /\ [Next]_vars => GroupInv' /\ ApartInv'
  BY GroupNext, ApartNext
<1>3. GroupInv /\ ApartInv => GroupUncrossed
  BY ApartUncrossed
<1> QED BY <1>1, <1>2, <1>3, PTL DEF Spec
=============================================================================
