SPECIFICATION Spec
CONSTANTS
  MaxOrders = 2
  MaxAnswers = 2
  MaxFailures = 2
  MaxCrashes = 2
  MaxPauses = 1
INVARIANTS
  OrdersInTurn
  AnswersInTurn
PROPERTIES
  EverythingForwarded
