SPECIFICATION FairSpec
CONSTANTS
    FromStart <- Both
    MaxFiles = 4
    MaxFragments = 3
INVARIANTS
    TypeOK
    JumpsToFileStart
PROPERTIES
    ImplementsPipe
    CancelLeadsToEnd
    EventuallyMirrored
CHECK_DEADLOCK FALSE
