CONSTANTS
  Clients = {c1, c2}
  Size = 3
  MaxMessages = 2
SPECIFICATION StreamSpec
CHECK_DEADLOCK FALSE
INVARIANTS ChopsArrivals StructsIntact
