SPECIFICATION ServicesSpec
CONSTANTS
    Workers = {w1, w2}
    Tabs = {1, 2}
    MaxRequests = 2
    MaxClaims = 2
    MaxKey = 2
    MaxDisturbances = 2
    MaxPublishes = 2
    MaxEvents = 3
    MaxBreaks = 1
    MaxLinks = 2
    MaxUploads = 2
    MaxAlerts = 1
    MaxCommands = 1
    MaxAttempts = 2
    MaxReturns = 2
    MaxSwitches = 2
SYMMETRY Symmetry
INVARIANTS
    ServicesTypeOK
    PositionsHold
    ForwardsHaveOwner
    PageFollowsChat
    ConnectsWhoBegan
PROPERTIES
    AmountsInQueueCurrency
    OpenAlertKeepsMedia
    UploadsTakeTurns
CHECK_DEADLOCK FALSE
