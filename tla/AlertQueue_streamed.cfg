SPECIFICATION StreamedSpec
CONSTANTS
    MaxAlertAge = 1
    MaxPendingAlerts = 1
    PlayerLease = 2
    PreparationLease = 1
    PreparationTries = 1
    PlaybackAcknowledgementTimeout = 1
    MaxRetainedTerminalPlaybacks = 1
    Workers = {w1}
    Settings <- Speaking
    MaxLag = 0
    MaxPlaybacks = 3
    MaxTokens = 1
    MaxPlayers = 1
INVARIANTS
    BacklogBound
PROPERTIES
    EveryAlertCloses
