SPECIFICATION Spec
CONSTANTS
    Plans <- LivenessRuns
    MaxBacklog = 1
INVARIANTS
    SummaryListsRunsOnce
CHECK_DEADLOCK FALSE
