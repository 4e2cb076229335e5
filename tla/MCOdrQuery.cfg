SPECIFICATION MCSpec
CONSTANTS
  Ptrs = {p1, p2}
  MaxConns = 2
  Markets = {m1}
  Unknown = m0
  ReqLen = 2
  Chunks = {1, 3, 5}
  MaxBytes = 6
  ReqCap = 1
  RspCap = 1
INVARIANTS
  AnswerReachesAsker
  OneRequestPerStruct
  ClientsAccounted
PROPERTIES
  AnsweredUnlessStuck
  EveryoneServed
CHECK_DEADLOCK FALSE
