SPECIFICATION IdentitySpec
CONSTANTS
    Tab = {t1, t2}
    Account = {a, b}
    MaxEvents = 3
    MaxCalls = 3
SYMMETRY Interchangeable
INVARIANTS
    TabsAgree
CHECK_DEADLOCK FALSE
PROPERTIES
    ActsAreServed
