SPECIFICATION Spec
CONSTANTS
    MaxGeneration = 3
    KeyOf <- Keys
    Clients = {c1, c2}
    LogFilesCount = 3
    MaxFileBytes = 2
    MaxLines = 5
    MaxFaults = 1
    MaxLives = 2
    Supplies <- Mounted
    SubjectOf <- Subjects
    StartupProbes = {p1, p2}
    Timeout = 1
    MaxProbeFaults = 1
    MaxStarts = 2
INVARIANTS ContainerTypeOK RetainsEnough AuditedOnce LabelServes CertificatesKept
    GoodSupplyAccepted TimeoutCounted ReadyTruthful
PROPERTIES NeverBack LatestServed MonitorEnds ImplementsBoundedLog HandlersReturn
    StartedEventually
CHECK_DEADLOCK FALSE
