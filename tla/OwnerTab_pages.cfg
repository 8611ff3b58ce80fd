SPECIFICATION FairSpec
CONSTANTS
    MaxEvents = 3
INVARIANTS TypeOK ReadYourWrites
PROPERTIES NothingTypedIsLost PageSettles
