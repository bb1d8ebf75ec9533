\* The Keys tab: "Rotate to a new key".
SPECIFICATION FairSpec
CONSTANTS
    Runs = {r1}
    MaxRotations = 1
    MaxRemovals = 0
    MaxFaults = 0
    MaxCrashes = 0
PROPERTIES RotationTakes
