SPECIFICATION Spec
CONSTANTS
    Accounts = {a1, a2}
    Requests = {r1, r2}
    Slots = {s1}
    Histories = {"full"}
    Cursor = TRUE
    KeepsRow = FALSE
    MaxDonations = 2
    MaxGrants = 2
    Malformed <- FirstRejected
SYMMETRY Symmetry
INVARIANTS
    CheckpointCovers
    OfferedOnce
PROPERTIES
    FencedWriters
    HistoryIsSilent
CHECK_DEADLOCK FALSE
