SPECIFICATION FairSpec
CONSTANTS
    Runs <- MCRuns
    Requesters = {cron}
    AtomicSweep = FALSE
    MaxLostCalls = 1
    MaxLostReplies = 1
    MaxSpawnErrors = 0
    MaxOutages = 0
    MaxCrashes = 1
    MaxRestores = 1
INVARIANTS
    SuccessHasArchive
    OneInFlight
PROPERTIES
    EveryRunEnds
    EndsForGood
CHECK_DEADLOCK FALSE
