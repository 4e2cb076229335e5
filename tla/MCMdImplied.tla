---------------------------- MODULE MCMdImplied ----------------------------
(***************************************************************************)
(* MdImplied for TLC.  A behaviour is about one of two instruments: the    *)
(* spread of two outrights (the implied book z), whose ask has a bid leg;  *)
(* or an outright with two implied books, x by a spread and the other      *)
(* outright, y for bids only, whose orders may be stops.                   *)
(***************************************************************************)
EXTENDS MdImplied, TLC

CONSTANTS
  i1, i2, i3, i4, \* Orders.
  Instruments     \* The instruments of the run.

VARIABLE instrument

Symmetry == Permutations(Ids)

AllBooks == <<"x", "y", "z">>

AllTypes ==
  [x |-> [bid |-> <<"bid", "bid">>, ask |-> <<"ask", "ask">>],
   y |-> [bid |-> <<"bid", "ask">>, ask |-> << >>],
   z |-> [bid |-> <<"bid", "ask">>, ask |-> <<"ask", "bid">>]]

AllRules == [x |-> "add", y |-> "minus", z |-> "minus"]

NoPips == [x |-> 0, y |-> 0, z |-> 0]

BooksOf(n) == IF n = "spread" THEN {"z"} ELSE {"x", "y"}

\* The spread is implied at 3 and 4, the outright at 6 by both its books.
PricesOf(n) ==
  [f \in Feeds |->
     CASE f = Out -> IF n = "spread" THEN {3, 4} ELSE {6}
       [] f = <<"x", "a">> -> {1}
       [] f = <<"x", "b">> -> {5}
       [] f = <<"y", "a">> -> {8}
       [] f = <<"y", "b">> -> {2}
       [] f = <<"z", "a">> -> {5, 6}
       [] f = <<"z", "b">> -> {2}]

AllPricesOf == [f \in Feeds |-> UNION {PricesOf(n)[f] : n \in Instruments}]

KindsOf(n) == IF n = "spread" THEN {"limit"} ELSE {"limit", "stop"}

\* What the theorems assume of a configuration.
ASSUME HypothesesHold == QuantitiesFit /\ LegsFit

MCInit == Init /\ instrument \in Instruments

MCNext ==
  /\ \/ \E i \in Ids, f \in {Out} \cup (BooksOf(instrument) \X {"a", "b"}), s \in Sides,
           q \in Quantities, k \in KindsOf(instrument) :
           \E p \in PricesOf(instrument)[f] : Open(i, f, s, p, q, k)
     \/ \E i \in Ids, q \in Quantities \cup {0} : Change(i, q)
     \/ Subscribe
  /\ UNCHANGED instrument

MCSpec == MCInit /\ [][MCNext]_<<vars, instrument>>
=============================================================================
