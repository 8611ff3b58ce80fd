SPECIFICATION FairSpec
CONSTANTS
    maximumCriticalBurst = 2
    maximumRecoveryBurst = 3
    Callers = {c1, c2, c3}
INVARIANTS
    RecoveryBypass
    RegularBypass
PROPERTIES
    EveryOfferEnds
