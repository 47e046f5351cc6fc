SPECIFICATION CashierFairSpec
CONSTANTS
  MaxFailures = 2
  MaxFaults = 2
CHECK_DEADLOCK FALSE
INVARIANTS
  ClaimsWillLand
PROPERTIES
  MoneyComesHome
