SPECIFICATION FairSpec
CONSTANTS
    Alerts <- TwoAlerts
    Pages <- InObs
    SourceChanges <- HidesShows
    MaxIdentities = 2
    MaxStrays = 1
    MaxDisturbances = 2
PROPERTIES NeverRenderedTwice
CHECK_DEADLOCK FALSE
