SPECIFICATION FairSpec
CONSTANTS
    Scrapers = {s1, s2}
    MaxPublished = 1
    MaxConnects = 2
INVARIANTS
    TypeOK
    NeverBlocked
    StopNeverBlocks
PROPERTIES
    StopTakesEffect
CHECK_DEADLOCK FALSE
