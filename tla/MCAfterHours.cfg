SPECIFICATION FairSpec
CONSTANTS
    Period = 3
    Schedules <- MCSchedules
    Chains = {k1, k2}
    MaxUpdates = 2
    MaxPushes = 1
    MaxFaults = 1
    MaxRestarts = 1
INVARIANTS
    TypeOK
    NextIsScheduled
    OneChain
    FollowsSchedule
PROPERTY
    ModeIsEnforced
