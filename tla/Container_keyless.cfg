SPECIFICATION Spec
CONSTANTS
    MaxGeneration = 3
    KeyOf <- Keys
    Clients = {}
    LogFilesCount = 1
    MaxFileBytes = 2
    MaxLines = 0
    MaxFaults = 0
    MaxLives = 0
    Supplies <- Mounted
    SubjectOf <- Subjects
    StartupProbes = {}
    Timeout = 1
    MaxProbeFaults = 0
    MaxStarts = 0
INVARIANT KeylessSkipped
CHECK_DEADLOCK FALSE
