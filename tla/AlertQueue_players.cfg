SPECIFICATION Spec
CONSTANTS
    MaxAlertAge = 2
    MaxPendingAlerts = 1
    PlayerLease = 1
    PreparationLease = 1
    PreparationTries = 1
    PlaybackAcknowledgementTimeout = 1
    MaxRetainedTerminalPlaybacks = 2
    Workers = {}
    Settings <- Switching
    MaxLag = 1
    MaxPlaybacks = 2
    MaxTokens = 2
    MaxPlayers = 2
INVARIANTS
    OnePlaying
PROPERTIES
    ShownToOnePlayer
    OutcomeIsFinal
    Delivers
