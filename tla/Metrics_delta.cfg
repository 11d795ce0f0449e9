SPECIFICATION Spec
CONSTANTS
    Scrapers = {s1, s2}
    MaxPublished = 2
    MaxConnects = 1
SYMMETRY ScraperSymmetry
INVARIANTS
    DeltaCountedOnce
CHECK_DEADLOCK FALSE
