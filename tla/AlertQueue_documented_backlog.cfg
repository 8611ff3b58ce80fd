SPECIFICATION Spec
CONSTANTS
    MaxAlertAge = 2
    MaxPendingAlerts = 1
    PlayerLease = 2
    PreparationLease = 1
    PreparationTries = 1
    PlaybackAcknowledgementTimeout = 1
    MaxRetainedTerminalPlaybacks = 1
    Workers = {}
    Settings <- Plain
    MaxLag = 0
    MaxPlaybacks = 2
    MaxTokens = 1
    MaxPlayers = 1
INVARIANTS
    AtMostMaxPendingAlertsWait
