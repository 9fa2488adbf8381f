SPECIFICATION FairSpec
CONSTANTS
    Arrays = {a1, a2}
    MaxVersions = 4
    MaxFails = 2
    MaxCrashes = 1
CHECK_DEADLOCK FALSE
INVARIANTS
    TypeOK NotForgotten StopSaves
PROPERTIES
    FileAdvances Reaches
