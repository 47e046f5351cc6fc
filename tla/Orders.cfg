SPECIFICATION OrdersSpec
CONSTANTS
  Modes = {"panta", "mock"}
  MaxBuys = 3
  MaxFaults = 3
CHECK_DEADLOCK FALSE
INVARIANTS
  VerdictsStayTrue
  
