SPECIFICATION Spec
CONSTANTS
    Orphans = {o1}
    Configs <- JustFull
    MaxSignals = 1
    MaxRestarts = 0
INVARIANTS
    OwnStatusKept
