SPECIFICATION Spec
CONSTANTS
    MaxGeneration = 3
    KeyOf <- Keys
    Clients = {}
    LogFilesCount = 1
    MaxFileBytes = 2
    MaxLines = 0
    MaxFaults = 0
    MaxLives = 0
    Supplies = {}
    SubjectOf <- Subjects
    StartupProbes = {p1}
    Timeout = 2
    MaxProbeFaults = 1
    MaxStarts = 1
PROPERTY NeverBlockedIndefinitely
CHECK_DEADLOCK FALSE
