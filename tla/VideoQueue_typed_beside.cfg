SPECIFICATION VideoSpec
CONSTANTS
    Workers = {w1}
    Tabs = {1, 2}
    MaxRequests = 2
    MaxClaims = 1
INVARIANTS
    OneCurrency
CHECK_DEADLOCK FALSE
