SPECIFICATION FairSpec
CONSTANTS
    Orphans = {o1}
    Configs <- MetricsOrDebug
    MaxSignals = 2
    MaxRestarts = 0
PROPERTIES
    StopLeadsToExit
    ZombiesReaped
