SPECIFICATION FairSpec
CONSTANTS
    Plans <- SomeRuns
    MaxBacklog = 1
INVARIANTS
    TypeOK
    HistoryInOrder
    ResultsOfOneRun
    LatestResultPrinted
    AttemptsCounted
PROPERTIES
    ListenersEnd
CHECK_DEADLOCK FALSE
