SPECIFICATION Spec
CONSTANTS
    Runs <- MCRuns
    Requesters = {admin, cron}
    AtomicSweep = TRUE
    MaxLostCalls = 1
    MaxLostReplies = 0
    MaxSpawnErrors = 1
    MaxOutages = 1
    MaxCrashes = 1
    MaxRestores = 0
INVARIANTS TypeOK KnownRows
PROPERTIES FollowsLifecycle
CHECK_DEADLOCK FALSE
