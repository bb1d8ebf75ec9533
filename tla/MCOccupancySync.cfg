SPECIFICATION FairSpec
CONSTANTS
    Day = 7
    Lead = 3
    Schedules <- MCSchedules
    Predictions = {1}
    MaxPushes = 2
    MaxFaults = 1
INVARIANTS
    TypeOK
    HandleIsPending
    StartsHaveEnds
PROPERTY
    DemandIsMet
