SPECIFICATION MCSpec
CONSTANTS
  i1 = i1
  i2 = i2
  i3 = i3
  i4 = i4
  Instruments = {"spread", "outright"}
  Ids = {i1, i2, i3, i4}
  Books <- AllBooks
  Type <- AllTypes
  Rule <- AllRules
  Pips <- NoPips
  Prices <- AllPricesOf
  Tick = 1
  Quantities = {1, 2}
  Kinds = {"limit", "stop"}
  QuantityModulus = 64
SYMMETRY Symmetry
INVARIANTS
  LevelsAddUp
  DepthOfLegs
  CrossedOnlyInFlight
  HeldBackOnlyBySome
