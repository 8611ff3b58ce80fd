SPECIFICATION FairSpec
CONSTANTS
    Accounts = {a1}
    Requests = {r1}
    Slots = {s1, s2}
    Histories = {"full"}
    Cursor = FALSE
    KeepsRow = TRUE
    MaxDonations = 1
    MaxGrants = 2
    Malformed = {}
INVARIANTS
    OneListener
    ServingListenerKept
PROPERTIES
    OnlyRefusedEnds
    ConnectionIsServed
    EveryDonationStored
CHECK_DEADLOCK FALSE
