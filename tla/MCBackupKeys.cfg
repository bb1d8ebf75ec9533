SPECIFICATION FairSpec
CONSTANTS
    Runs = {r1, r2}
    MaxRotations = 1
    MaxRemovals = 1
    MaxFaults = 2
    MaxCrashes = 1
INVARIANTS TypeOK Restorable
PROPERTIES ActiveKeyInUse
