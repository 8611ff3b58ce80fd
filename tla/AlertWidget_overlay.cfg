SPECIFICATION FairSpec
CONSTANTS
    Alerts <- TwoAlerts
    Pages <- InObs
    SourceChanges <- HidesShows
    MaxIdentities = 2
    MaxStrays = 1
    MaxDisturbances = 3
INVARIANTS TypeOK RenderedIsCommitted WithdrawnBeforeNext
PROPERTIES RenderedOnce HiddenFallsSilent EveryAlertEnds
CHECK_DEADLOCK FALSE
