SPECIFICATION Spec
CONSTANTS
    FromStart <- Beginning
    MaxFiles = 3
    MaxFragments = 2
INVARIANTS
    NothingTwice
CHECK_DEADLOCK FALSE
