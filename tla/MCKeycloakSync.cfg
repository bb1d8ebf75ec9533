SPECIFICATION FairSpec
CONSTANTS
    Users = {u1}
    Roles = {r1, r2}
    Handlers = {h1}
    MaxChanges = 1
    MaxEvents = 1
    MaxFaults = 1
    MaxRestarts = 1
INVARIANTS
    TypeOK
    SettledInSync
PROPERTIES
    RacesAreHarmless
    StartupCompletes
CHECK_DEADLOCK FALSE
