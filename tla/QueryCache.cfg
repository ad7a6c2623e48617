SPECIFICATION FairSpec
CONSTANTS
    Table <- Dashboard
    Tours <- AllTours
    Collides <- Colliding
    Url <- FromAddress
    MaxChanges = 2
    MaxHot = 1
    MaxWrites = 1
INVARIANTS TypeOK ShownAnswersTheSelection OwnChangeIsNotHidden
PROPERTIES CacheIsRegisters 
CHECK_DEADLOCK FALSE
