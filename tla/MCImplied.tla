------------------------------- MODULE MCImplied -------------------------------
(* Three groups of engines for ImpliedMatching: a spread S of the futures A *)
(* and B with all impliers (as in durian_BTC.json), a spread S2 without     *)
(* b_out (as in test_out4.json), and a spot book implied from a perpetual   *)
(* and a repo.  A behaviour has the orders of one group.                    *)
EXTENDS ImpliedMatching, TLC

VARIABLE group \* the engines of this behaviour

Groups == {"spread", "no_b", "repo"}

AllEngines == {"A", "B", "S", "A2", "B2", "S2", "Spot", "Perp", "Repo"}

Rules ==
  [e \in AllEngines |->
     CASE e \in {"S", "S2"} -> "in"
       [] e \in {"A", "A2"} -> "a_out"
       [] e = "B" -> "b_out"
       [] e = "Spot" -> "repo_out"
       [] OTHER -> "none"]

AllLegs ==
  "S" :> <<"A", "B">> @@ "A" :> <<"S", "B">> @@ "B" :> <<"A", "S">> @@
  "S2" :> <<"A2", "B2">> @@ "A2" :> <<"S2", "B2">> @@ "B2" :> << >> @@
  "Spot" :> <<"Perp", "Repo">> @@ "Perp" :> << >> @@ "Repo" :> << >>

(* A commission on the spread and on the spot book, a coarse tick of S2.    *)
AllPips  == [e \in AllEngines |-> CASE e = "S" -> 5000 [] e = "Spot" -> 500 [] OTHER -> 0]
AllTicks == [e \in AllEngines |-> IF e = "S2" THEN 2 ELSE 1]

Market == 1000

Order(e, side, price, qty, tif) ==
  [eng |-> e, side |-> side, price |-> price, qty |-> qty, tif |-> tif]

Both == {"BUY", "SELL"}

(* Two prices in each book, such that the spread can be implied on both     *)
(* sides of its own prices.                                                 *)
SpreadFlow ==
  {Order("A", s, p, 1, "NONE") : s \in Both, p \in {3, 4}} \cup
  {Order("B", s, p, 1, "NONE") : s \in Both, p \in {2, 3}} \cup
  {Order("S", s, p, 1, "NONE") : s \in Both, p \in {0, 1}} \cup
  {Order("A", s, Market, 2, "NONE") : s \in Both} \cup
  {Order("S", s, 1, 1, "MAKER_ONLY_REPRICE") : s \in Both}

(* Negative spreads and every time condition.                               *)
NegativeFlow ==
  {Order("A2", s, p, 1, "NONE") : s \in Both, p \in {1, 2}} \cup
  {Order("B2", s, p, 2, "NONE") : s \in Both, p \in {2, 4}} \cup
  {Order("S2", s, p, 1, "NONE") : s \in Both, p \in {-4, -2}} \cup
  {Order("S2", s, Market, 2, tif) : s \in Both, tif \in {"FOK", "IOC"}} \cup
  {Order("A2", s, 2, 2, "FOK") : s \in Both} \cup
  {Order("A2", s, 1, 1, "MAKER_ONLY") : s \in Both}

(* Prices and repo rates of both signs.                                     *)
RepoFlow ==
  {Order("Perp", s, p, 1, "NONE") : s \in Both, p \in {-20, 11, 12}} \cup
  {Order("Repo", s, p, 2, "NONE") : s \in Both, p \in {-3, 0, 4}} \cup
  {Order("Spot", s, p, 2, tif) : s \in Both, p \in {10, 14, Market}, tif \in {"NONE", "FOK"}}

Flow(g) ==
  CASE g = "spread" -> SpreadFlow
    [] g = "no_b" -> NegativeFlow
    [] g = "repo" -> RepoFlow

AllFlows == UNION {Flow(g) : g \in Groups}

(* The rounding against its reference: the nearest multiple of the tick on  *)
(* that side of the price, also of negative prices, where the remainder of  *)
(* C++ is negative.                                                         *)
ASSUME RoundsToGrid ==
  \A price \in -8 .. 8, tick \in 1 .. 3 :
    LET grid == {t * tick : t \in -10 .. 10}
    IN  /\ round_down(price, tick) = Max({g \in grid : g <= price})
        /\ round_up(price, tick) = Min({g \in grid : g >= price})

(* The groups are such that GroupUncrossed may be asked of them.            *)
ASSUME AreSpreadGroups == SpreadGroups

MCInit == Init /\ group \in Groups

(* The orders of the group; one less in the larger flow of the repo group.  *)
MCNext ==
  /\ \/ (group = "repo" => nextId < MaxOrders) /\ \E r \in Flow(group) : New(r)
     \/ Step
  /\ UNCHANGED group

MCSpec == MCInit /\ [][MCNext]_<<vars, group>>
=============================================================================
