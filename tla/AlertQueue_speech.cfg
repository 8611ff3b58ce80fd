SPECIFICATION FairSpec
CONSTANTS
    MaxAlertAge = 2
    MaxPendingAlerts = 2
    PlayerLease = 1
    PreparationLease = 1
    PreparationTries = 2
    PlaybackAcknowledgementTimeout = 1
    MaxRetainedTerminalPlaybacks = 1
    Workers = {w1, w2}
    Settings <- Speaking
    MaxLag = 0
    MaxPlaybacks = 2
    MaxTokens = 1
    MaxPlayers = 1
INVARIANTS
    TypeOK
    PlayingIsOldest
PROPERTIES
    LateWorkerChangesNothing
    WaitingEnds
