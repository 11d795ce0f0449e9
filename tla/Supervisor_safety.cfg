SPECIFICATION Spec
CONSTANTS
    Orphans = {o1}
    Configs <- Everything
    MaxSignals = 2
    MaxRestarts = 1
INVARIANTS
    TypeOK
    NoSendOnClosedControl
    StartupStatusKept
    StartupExcludesShutdown
    ClosedAfterStop
    ReadyMeansStarted
    MirrorsDrained
PROPERTIES
    ImplementsLifecycle
